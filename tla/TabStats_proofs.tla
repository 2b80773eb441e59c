-------------------------- MODULE TabStats_proofs --------------------------
(***************************************************************************)
(* What the statistics of a period say is what its samples say, for any    *)
(* statements, names, thresholds and number of samples.  The proof goes    *)
(* through the folds of the model by induction: over the tables of a key   *)
(* (marshal_size, marshal_key, de_marshal_key) and over the samples (Sum). *)
(* A recursive definition is first shown to have a solution (FoldExists),  *)
(* which is then followed from prefix to prefix.                           *)
(*                                                                         *)
(* The invariant says of each pool which samples it has taken:             *)
(*   InsGood  every entry tells count, sum, extremes and buckets;          *)
(*   TabGood  the same by statement type, of entries that are found by the *)
(*            bytes of the key; that two keys do not share an entry is     *)
(*            ReadBack.                                                    *)
(***************************************************************************)
EXTENDS TabStats, FiniteSetTheorems, FunctionTheorems, SequenceTheorems, TLAPS

\* Induction over the natural numbers, stated of a set.
LEMMA NatInd ==
    ASSUME NEW S, 0 \in S, \A n \in Nat : n \in S => n + 1 \in S
    PROVE Nat \subseteq S
<1> SUFFICES ASSUME NEW m \in Nat, m \notin S PROVE FALSE
    OBVIOUS
<1> DEFINE T == {i \in 0..m : i \notin S}
<1> DEFINE f == [i \in T |-> i - 1]
<1>1. IsFiniteSet(T) /\ m \in T
  <2>1. IsFiniteSet(0..m) BY FS_Interval
  <2>2. T \subseteq 0..m OBVIOUS
  <2> QED BY <2>1, <2>2, FS_Subset
<1>2. \A i \in T : i - 1 \in T \ {m}
  <2> TAKE i \in T
  <2>1. i \in Nat /\ i # 0 /\ i <= m OBVIOUS
  <2>2. i - 1 \in Nat /\ i - 1 + 1 = i /\ i - 1 < m BY <2>1
  <2>3. i - 1 \notin S BY <2>2
  <2> QED BY <2>2, <2>3
<1>3. f \in Injection(T, T \ {m})
  <2>1. f \in [T -> T \ {m}] BY <1>2
  <2>2. \A i, j \in T : f[i] = f[j] => i = j OBVIOUS
  <2> QED BY <2>1, <2>2 DEF Injection, IsInjective
<1>4. IsFiniteSet(T \ {m}) /\ Cardinality(T \ {m}) = Cardinality(T) - 1
  BY <1>1, FS_RemoveElement
<1>5. Cardinality(T) <= Cardinality(T \ {m})
  <2> HIDE DEF f, T
  <2> QED BY <1>3, <1>4, FS_Injection DEF ExistsInjection
<1>6. Cardinality(T) \in Nat BY <1>1, FS_CardinalityType
<1> HIDE DEF T
<1> QED BY <1>4, <1>5, <1>6

\* What Max of a non-empty set of positions is.
LEMMA MaxPosition ==
    ASSUME NEW m \in Nat, NEW s \in SUBSET (1..m), s # {}
    PROVE  Max(s) \in s /\ \A y \in s : y <= Max(s)
<1> DEFINE P(n) == \A t \in SUBSET (1..n) : t # {} => \E x \in t : \A y \in t : x >= y
<1> DEFINE S == {n \in Nat : P(n)}
<1>1. P(0)
  <2>1. 1..0 = {}
    OBVIOUS
  <2> QED BY <2>1, Zenon
<1>2. ASSUME NEW n \in Nat, P(n) PROVE P(n + 1)
  <2> SUFFICES ASSUME NEW t \in SUBSET (1..(n + 1)), t # {} PROVE \E x \in t : \A y \in t : x >= y
    OBVIOUS
  <2>1. CASE n + 1 \in t
    BY <2>1
  <2>2. CASE n + 1 \notin t
    <3>1. t \in SUBSET (1..n) BY <2>2
    <3> QED BY <1>2, <3>1
  <2> QED BY <2>1, <2>2
<1>3. P(m)
  <2> HIDE DEF P
  <2>1. 0 \in S /\ \A n \in Nat : n \in S => n + 1 \in S
    BY <1>1, <1>2
  <2>2. Nat \subseteq S
    <3> HIDE DEF S
    <3> QED BY <2>1, NatInd
  <2> QED BY <2>2
<1>4. PICK x \in s : \A y \in s : x >= y
    BY <1>3
<1>5. Max(s) \in s /\ \A y \in s : Max(s) >= y
    BY <1>4, Zenon DEF Max
<1> QED BY <1>5

\* h[s] is the fold of G over the positions in s, from the first to the last.
IsFold(h, N, b, G) ==
    \A s \in SUBSET (1..N) : h[s] = IF s = {} THEN b ELSE G[<<Max(s), h[s \ {Max(s)}]>>]

\* A fold over the positions 1 .. N exists: the recursive definition has a solution.
LEMMA FoldExists ==
    ASSUME NEW N \in Nat, NEW V, NEW b \in V, NEW G \in [(1..N) \X V -> V]
    PROVE  \E h \in [SUBSET (1..N) -> V] : IsFold(h, N, b, G)
<1> DEFINE Solves(h, m) == \A s \in SUBSET (1..m) :
               h[s] = IF s = {} THEN b ELSE G[<<Max(s), h[s \ {Max(s)}]>>]
<1> DEFINE P(m) == m <= N => \E h \in [SUBSET (1..m) -> V] : Solves(h, m)
<1> DEFINE S == {m \in Nat : P(m)}
<1>1. P(0)
  <2> DEFINE h == [s \in SUBSET (1..0) |-> b]
  <2>1. \A s \in SUBSET (1..0) : s = {} OBVIOUS
  <2>2. h \in [SUBSET (1..0) -> V] /\ Solves(h, 0) BY <2>1
  <2> QED BY <2>2
<1>2. ASSUME NEW n \in Nat, P(n) PROVE P(n + 1)
  <2> SUFFICES ASSUME n + 1 <= N
               PROVE  \E h \in [SUBSET (1..(n + 1)) -> V] : Solves(h, n + 1)
    OBVIOUS
  <2>1. PICK g \in [SUBSET (1..n) -> V] : Solves(g, n)
    <3>1. n <= N
      OBVIOUS
    <3> HIDE DEF Solves
    <3> QED BY <1>2, <3>1
  <2> DEFINE h == [s \in SUBSET (1..(n + 1)) |->
                      IF n + 1 \in s THEN G[<<n + 1, g[s \ {n + 1}]>>] ELSE g[s]]
  <2>2. \A s \in SUBSET (1..(n + 1)) : s \ {n + 1} \in SUBSET (1..n)
                                       /\ (n + 1 \notin s => s \in SUBSET (1..n))
    OBVIOUS
  <2>3. n + 1 \in 1..N
    OBVIOUS
  <2>4. h \in [SUBSET (1..(n + 1)) -> V]
    BY <2>2, <2>3
  <2>5. ASSUME NEW s \in SUBSET (1..(n + 1))
        PROVE  h[s] = IF s = {} THEN b ELSE G[<<Max(s), h[s \ {Max(s)}]>>]
    <3>1. CASE n + 1 \in s
      <4>1. Max(s) \in s /\ \A y \in s : y <= Max(s)
        <5>1. n + 1 \in Nat /\ s # {}
          BY <3>1
        <5> QED BY <5>1, MaxPosition
      <4>2. Max(s) = n + 1
        <5> HIDE DEF h
        <5>1. Max(s) \in 1..(n + 1)
          BY <4>1, Zenon
        <5>2. n + 1 <= Max(s)
          BY <3>1, <4>1, Zenon
        <5> QED BY <5>1, <5>2
      <4>3. h[s \ {n + 1}] = g[s \ {n + 1}]
        <5>1. s \ {n + 1} \in SUBSET (1..(n + 1)) /\ n + 1 \notin s \ {n + 1}
          OBVIOUS
        <5> QED BY <5>1
      <4>4. h[s] = G[<<n + 1, g[s \ {n + 1}]>>]
        BY <3>1
      <4> HIDE DEF h
      <4> QED BY <3>1, <4>2, <4>3, <4>4
    <3>2. CASE n + 1 \notin s
      <4>1. s \in SUBSET (1..n)
        BY <2>2, <3>2
      <4>2. h[s] = g[s]
        BY <3>2
      <4>3. CASE s = {}
        BY <2>1, <4>1, <4>2, <4>3
      <4>4. CASE s # {}
        <5>1. s \ {Max(s)} \in SUBSET (1..n) /\ n + 1 \notin s \ {Max(s)}
          BY <4>1, <3>2
        <5>2. h[s \ {Max(s)}] = g[s \ {Max(s)}]
          BY <5>1
        <5> HIDE DEF h
        <5> QED BY <2>1, <4>1, <4>2, <4>4, <5>2
      <4> QED BY <4>3, <4>4
    <3> QED BY <3>1, <3>2
  <2> HIDE DEF h
  <2> QED BY <2>4, <2>5
<1>3. P(N)
  <2> HIDE DEF P
  <2>1. 0 \in S /\ \A n \in Nat : n \in S => n + 1 \in S
    BY <1>1, <1>2
  <2>2. Nat \subseteq S
    <3> HIDE DEF S
    <3> QED BY <2>1, NatInd
  <2> QED BY <2>2
<1>4. PICK h \in [SUBSET (1..N) -> V] : Solves(h, N)
  <2>1. N <= N
    OBVIOUS
  <2> HIDE DEF Solves
  <2> QED BY <1>3, <2>1, Zenon
<1> QED BY <1>4 DEF IsFold

\* The same for the numbers up to N.
LEMMA BoundedInd ==
    ASSUME NEW N \in Nat, NEW S, 0 \in S, \A n \in 0..(N - 1) : n \in S => n + 1 \in S
    PROVE  \A n \in 0..N : n \in S
<1> DEFINE T == {n \in Nat : n <= N => n \in S}
<1>1. 0 \in T
    OBVIOUS
<1>2. ASSUME NEW n \in Nat, n \in T PROVE n + 1 \in T
  <2> SUFFICES ASSUME n + 1 <= N PROVE n + 1 \in S
    OBVIOUS
  <2>1. n \in 0..(N - 1) /\ n <= N
    OBVIOUS
  <2>2. n \in S
    BY <1>2, <2>1
  <2> QED BY <2>1, <2>2
<1>3. Nat \subseteq T
  <2> HIDE DEF T
  <2> QED BY <1>1, <1>2, NatInd
<1> TAKE n \in 0..N
<1>4. n \in Nat /\ n <= N
    OBVIOUS
<1> QED BY <1>3, <1>4

\* The prefixes of the positions, which are what a fold goes through.
LEMMA FoldPrefix ==
    ASSUME NEW N \in Nat, NEW i \in 1..N
    PROVE  /\ 1..i \in SUBSET (1..N) /\ 1..i # {}
           /\ Max(1..i) = i
           /\ (1..i) \ {Max(1..i)} = 1..(i - 1)
<1>1. 1..i \in SUBSET (1..N) /\ i \in 1..i /\ i \in Nat
    OBVIOUS
<1>2. Max(1..i) \in 1..i /\ \A y \in 1..i : y <= Max(1..i)
    BY <1>1, MaxPosition
<1>3. Max(1..i) = i
  <2>1. i <= Max(1..i)
    BY <1>1, <1>2, Zenon
  <2> QED BY <1>2, <2>1
<1>4. (1..i) \ {i} = 1..(i - 1)
    OBVIOUS
<1> QED BY <1>1, <1>3, <1>4, Zenon

-----------------------------------------------------------------------------
(* marshal_size and marshal_key, table by table.                           *)

Names == Seq(Int)
Keys == [_result : Int, _names : Seq([_db : Names, _table : Names])]

\* The tables of a key and their names, one by one.
LEMMA KeyType ==
    ASSUME NEW k \in Keys
    PROVE  /\ Len(k._names) \in Nat /\ DOMAIN k._names = 1..Len(k._names)
           /\ \A i \in 1..Len(k._names) :
                  /\ k._names[i] \in [_db : Names, _table : Names]
                  /\ k._names[i]._db \in Names /\ k._names[i]._table \in Names
<1> DEFINE ss == k._names
<1> DEFINE X == [_db : Names, _table : Names]
<1>1. ss \in Seq(X)
    BY DEF Keys
<1> HIDE DEF ss, X
<1>2. Len(ss) \in Nat /\ DOMAIN ss = 1..Len(ss) /\ \A i \in 1..Len(ss) : ss[i] \in X
    BY <1>1
<1>3. \A x \in X : x._db \in Names /\ x._table \in Names
    BY DEF X
<1> QED BY <1>2, <1>3 DEF ss, X

\* marshal_size adds the tables one after the other.
LEMMA SizeSteps ==
    ASSUME NEW k \in Keys
    PROVE  \E g \in [0..Len(k._names) -> Nat] :
               /\ g[0] = 2 /\ marshal_size(k) = g[Len(k._names)]
               /\ \A i \in 1..Len(k._names) : 
                      g[i] = g[i - 1] + Len(k._names[i]._db) + 1 + Len(k._names[i]._table) + 1
<1> DEFINE N == Len(k._names)
<1> DEFINE ss == k._names
<1>1. N \in Nat /\ DOMAIN ss = 1..N
      /\ \A i \in 1..N : ss[i] \in [_db : Names, _table : Names]
    BY KeyType
<1>2. \A i \in 1..N : Len(ss[i]._db) \in Nat /\ Len(ss[i]._table) \in Nat
  <2> TAKE i \in 1..N
  <2>1. ss[i]._db \in Names /\ ss[i]._table \in Names
    BY <1>1
  <2> HIDE DEF ss
  <2> QED BY <2>1 DEF Names
<1> HIDE DEF N, ss
<1> DEFINE G == [p \in (1..N) \X Nat |-> p[2] + Len(ss[p[1]]._db) + 1 + Len(ss[p[1]]._table) + 1]
<1> DEFINE Step(f, s) == IF s = {} THEN 2 ELSE f[s \ {Max(s)}] + Len(ss[Max(s)]._db) + 1
                                                  + Len(ss[Max(s)]._table) + 1
<1> DEFINE h == CHOOSE f : f = [s \in SUBSET DOMAIN ss |-> Step(f, s)]
<1>3. G \in [(1..N) \X Nat -> Nat]
    BY <1>2
<1>4. PICK f \in [SUBSET (1..N) -> Nat] : IsFold(f, N, 2, G)
  <2>1. N \in Nat /\ 2 \in Nat
    BY <1>1
  <2> HIDE DEF G
  <2> QED BY <1>3, <2>1, FoldExists
<1>5. \A s \in SUBSET (1..N) : f[s] = Step(f, s)
  <2> TAKE s \in SUBSET (1..N)
  <2>1. CASE s = {}
    BY <1>4, <2>1 DEF IsFold
  <2>2. CASE s # {}
    <3>1. Max(s) \in 1..N
      BY <1>1, <2>2, MaxPosition
    <3>2. f[s \ {Max(s)}] \in Nat
      OBVIOUS
    <3>3. f[s] = G[<<Max(s), f[s \ {Max(s)}]>>]
      BY <1>4, <2>2, Zenon DEF IsFold
    <3> QED BY <2>2, <3>1, <3>2, <3>3
  <2> QED BY <2>1, <2>2
<1>6. f = [s \in SUBSET DOMAIN ss |-> Step(f, s)]
  <2> HIDE DEF Step
  <2> QED BY <1>1, <1>5
<1>7. h = [s \in SUBSET (1..N) |-> Step(h, s)]
  <2> HIDE DEF Step
  <2> QED BY <1>1, <1>6, Zenon
<1>8. marshal_size(k) = h[1..N]
    BY <1>1 DEF marshal_size, FoldLeft, MapThenFoldSet, ss
<1> HIDE DEF h
<1>9. h[{}] = 2 /\ \A i \in 1..N : h[1..i] = h[1..(i - 1)] + Len(ss[i]._db) + 1 + Len(ss[i]._table) + 1
  <2>1. h[{}] = 2
    BY <1>7
  <2>2. ASSUME NEW i \in 1..N PROVE h[1..i] = Step(h, 1..i)
    BY <1>1, <1>7, FoldPrefix
  <2>3. ASSUME NEW i \in 1..N
        PROVE  Step(h, 1..i) = h[1..(i - 1)] + Len(ss[i]._db) + 1 + Len(ss[i]._table) + 1
    BY <1>1, FoldPrefix, Zenon
  <2> QED BY <2>1, <2>2, <2>3
<1> DEFINE g == [i \in 0..N |-> h[1..i]]
<1>10. g[0] = 2 /\ \A i \in 1..N : g[i] = g[i - 1] + Len(ss[i]._db) + 1 + Len(ss[i]._table) + 1
  <2>1. 1..0 = {}
    OBVIOUS
  <2>2. \A i \in 1..N : i \in 0..N /\ i - 1 \in 0..N
    BY <1>1
  <2>3. 0 \in 0..N
    BY <1>1
  <2> QED BY <1>9, <2>1, <2>2, <2>3
<1>11. \A i \in 0..N : g[i] \in Nat
  <2> DEFINE S == {i \in 0..N : g[i] \in Nat}
  <2>1. 0 \in S
    BY <1>1, <1>10
  <2>2. ASSUME NEW n \in 0..(N - 1), n \in S PROVE n + 1 \in S
    <3>1. n + 1 \in 1..N /\ (n + 1) - 1 = n /\ n + 1 \in 0..N
      BY <1>1
    <3>2. g[n + 1] = g[n] + Len(ss[n + 1]._db) + 1 + Len(ss[n + 1]._table) + 1 /\ g[n] \in Nat
      <4>1. g[n] \in Nat
        BY <2>2, Zenon
      <4> HIDE DEF g
      <4>2. g[n + 1] = g[(n + 1) - 1] + Len(ss[n + 1]._db) + 1 + Len(ss[n + 1]._table) + 1
        BY <1>10, <3>1, Zenon
      <4> QED BY <3>1, <4>1, <4>2, Zenon
    <3>3. Len(ss[n + 1]._db) \in Nat /\ Len(ss[n + 1]._table) \in Nat
      BY <1>2, <3>1
    <3> HIDE DEF g
    <3>4. g[n + 1] \in Nat
      <4> HIDE DEF S
      <4> DEFINE a == Len(ss[n + 1]._db)
      <4> DEFINE b == Len(ss[n + 1]._table)
      <4>1. a \in Nat /\ b \in Nat /\ g[n + 1] = g[n] + a + 1 + b + 1 /\ g[n] \in Nat
        BY <3>2, <3>3
      <4> HIDE DEF a, b
      <4> QED BY <4>1
    <3> QED BY <3>1, <3>4, Zenon
  <2> HIDE DEF S
  <2>3. \A i \in 0..N : i \in S
    BY <1>1, <2>1, <2>2, BoundedInd
  <2> QED BY <2>3 DEF S
<1>12. g \in [0..N -> Nat] /\ marshal_size(k) = g[N]
    BY <1>1, <1>8, <1>11
<1> HIDE DEF g
<1> QED BY <1>10, <1>12, Zenon DEF N, ss

\* A length as it is written is a number, and put_string writes one more than the string.
LEMMA PutString ==
    ASSUME NEW t \in Names
    PROVE  put_string(t) \in Names /\ Len(put_string(t)) = Len(t) + 1
<1>1. Len(t) \in Nat /\ t \in Seq(Int)
    BY DEF Names
<1>2. 2 * Half \in Nat /\ 2 * Half > 0 /\ Half \in Nat
    BY TabDmlAssumption
<1>3. Len(t) % (2 * Half) \in Int
    BY <1>1, <1>2
<1>4. Signed(Len(t)) \in Int
  <2> HIDE DEF Names
  <2> QED BY <1>2, <1>3 DEF Signed, Unsigned
<1>5. <<Signed(Len(t))>> \in Seq(Int) /\ Len(<<Signed(Len(t))>>) = 1
    BY <1>4
<1> QED BY <1>1, <1>5 DEF put_string, Names

\* g[i] is the buffer when i tables are in it.
IsKey(g, k) ==
    /\ g \in [0..Len(k._names) -> Names]
    /\ g[0] = <<k._result, Unsigned(Len(k._names))>>
    /\ marshal_key(k) = g[Len(k._names)]
    /\ \A i \in 1..Len(k._names) :
           g[i] = g[i - 1] \o put_string(k._names[i]._db) \o put_string(k._names[i]._table)

\* marshal_key writes the tables one after the other.
LEMMA KeySteps ==
    ASSUME NEW k \in Keys
    PROVE  \E g : IsKey(g, k)
<1> DEFINE N == Len(k._names)
<1> DEFINE ss == k._names
<1> DEFINE b == <<k._result, Unsigned(Len(k._names))>>
<1>1. N \in Nat /\ DOMAIN ss = 1..N
      /\ \A i \in 1..N : ss[i] \in [_db : Names, _table : Names]
    BY KeyType
<1>2. \A i \in 1..N : put_string(ss[i]._db) \in Names /\ put_string(ss[i]._table) \in Names
    BY <1>1, PutString
<1>0. b \in Names
  <2>1. N % (2 * Half) \in Int /\ k._result \in Int
    BY <1>1, TabDmlAssumption DEF Keys
  <2> QED BY <2>1 DEF Unsigned, Names
<1> HIDE DEF N, ss, b
<1> DEFINE Op(r, i) == r \o put_string(ss[i]._db) \o put_string(ss[i]._table)
<1> DEFINE G == [p \in (1..N) \X Names |-> Op(p[2], p[1])]
<1> DEFINE Step(f, s) == IF s = {} THEN b ELSE Op(f[s \ {Max(s)}], Max(s))
<1> DEFINE h == CHOOSE f : f = [s \in SUBSET DOMAIN ss |-> Step(f, s)]
<1>3. \A r \in Names, i \in 1..N : Op(r, i) \in Names
    BY <1>2 DEF Names
<1>a. G \in [(1..N) \X Names -> Names]
  <2> HIDE DEF Op
  <2> QED BY <1>3
<1>4. PICK f \in [SUBSET (1..N) -> Names] : IsFold(f, N, b, G)
  <2> HIDE DEF G
  <2> QED BY <1>0, <1>1, <1>a, FoldExists
<1>5. \A s \in SUBSET (1..N) : f[s] = Step(f, s)
  <2> TAKE s \in SUBSET (1..N)
  <2> HIDE DEF Op
  <2>1. CASE s = {}
    BY <1>4, <2>1 DEF IsFold
  <2>2. CASE s # {}
    <3>1. Max(s) \in 1..N
      BY <1>1, <2>2, MaxPosition
    <3>2. f[s \ {Max(s)}] \in Names
      OBVIOUS
    <3>3. f[s] = G[<<Max(s), f[s \ {Max(s)}]>>]
      BY <1>4, <2>2, Zenon DEF IsFold
    <3> QED BY <2>2, <3>1, <3>2, <3>3
  <2> QED BY <2>1, <2>2
<1>6. f = [s \in SUBSET DOMAIN ss |-> Step(f, s)]
  <2> HIDE DEF Step
  <2> QED BY <1>1, <1>5
<1>7. h = [s \in SUBSET (1..N) |-> Step(h, s)]
  <2> HIDE DEF Step
  <2> QED BY <1>1, <1>6, Zenon
<1>8. marshal_key(k) = h[1..N]
    BY <1>1 DEF marshal_key, FoldLeft, MapThenFoldSet, ss, b
<1> HIDE DEF h
<1>9. h[{}] = b /\ \A i \in 1..N : h[1..i] = Op(h[1..(i - 1)], i)
  <2> HIDE DEF Op
  <2>1. h[{}] = b
    BY <1>7
  <2>2. ASSUME NEW i \in 1..N PROVE h[1..i] = Step(h, 1..i)
    BY <1>1, <1>7, FoldPrefix
  <2>3. ASSUME NEW i \in 1..N PROVE Step(h, 1..i) = Op(h[1..(i - 1)], i)
    BY <1>1, FoldPrefix, Zenon
  <2> QED BY <2>1, <2>2, <2>3
<1> DEFINE g == [i \in 0..N |-> h[1..i]]
<1>10. g[0] = b /\ \A i \in 1..N : g[i] = Op(g[i - 1], i)
  <2> HIDE DEF Op
  <2>1. 1..0 = {}
    OBVIOUS
  <2>2. \A i \in 1..N : i \in 0..N /\ i - 1 \in 0..N
    BY <1>1
  <2>3. 0 \in 0..N
    BY <1>1
  <2> QED BY <1>9, <2>1, <2>2, <2>3
<1>11. \A i \in 0..N : g[i] \in Names
  <2> HIDE DEF g, Op
  <2> DEFINE S == {i \in 0..N : g[i] \in Names}
  <2>1. 0 \in S
    BY <1>0, <1>1, <1>10
  <2>2. ASSUME NEW n \in 0..(N - 1), n \in S PROVE n + 1 \in S
    <3>1. n + 1 \in 1..N /\ (n + 1) - 1 = n /\ n + 1 \in 0..N
      BY <1>1
    <3>2. g[n + 1] = Op(g[n], n + 1) /\ g[n] \in Names
      BY <1>10, <2>2, <3>1
    <3> QED BY <1>3, <3>1, <3>2
  <2> HIDE DEF S
  <2>3. \A i \in 0..N : i \in S
    BY <1>1, <2>1, <2>2, BoundedInd
  <2> QED BY <2>3 DEF S
<1>12. g \in [0..N -> Names] /\ marshal_key(k) = g[N]
    BY <1>1, <1>8, <1>11
<1> HIDE DEF g
<1> QED BY <1>10, <1>12, Zenon DEF N, ss, b, IsKey

\* marshal_key fills the buffer that marshal_size asked for.
LEMMA KeyLength ==
    ASSUME NEW k \in Keys
    PROVE  Len(marshal_key(k)) = marshal_size(k)
<1> DEFINE N == Len(k._names)
<1> DEFINE ss == k._names
<1>1. N \in Nat /\ \A i \in 1..N : ss[i]._db \in Names /\ ss[i]._table \in Names
    BY KeyType
<1>2. PICK z \in [0..N -> Nat] :
         /\ z[0] = 2 /\ marshal_size(k) = z[N]
         /\ \A i \in 1..N : z[i] = z[i - 1] + Len(ss[i]._db) + 1 + Len(ss[i]._table) + 1
    BY SizeSteps
<1>a. PICK g : IsKey(g, k)
    BY KeySteps, Zenon
<1>3. /\ g \in [0..N -> Names]
      /\ g[0] = <<k._result, Unsigned(Len(k._names))>>
      /\ marshal_key(k) = g[N]
      /\ \A i \in 1..N : g[i] = g[i - 1] \o put_string(ss[i]._db) \o put_string(ss[i]._table)
    BY <1>a, Zenon DEF IsKey
<1>4. Len(g[0]) = 2
    BY <1>3
<1> HIDE DEF N, ss
<1> DEFINE S == {i \in 0..N : Len(g[i]) = z[i]}
<1>5. 0 \in S
  <2>1. 0 \in 0..N /\ Len(g[0]) = z[0]
    BY <1>1, <1>2, <1>4
  <2> QED BY <2>1
<1>6. ASSUME NEW n \in 0..(N - 1), n \in S PROVE n + 1 \in S
  <2>1. n + 1 \in 1..N /\ (n + 1) - 1 = n /\ n + 1 \in 0..N /\ n \in 0..N
    BY <1>1
  <2> DEFINE d == ss[n + 1]._db
  <2> DEFINE t == ss[n + 1]._table
  <2>2. d \in Names /\ t \in Names
    BY <1>1, <2>1
  <2> HIDE DEF d, t
  <2>3. z[n + 1] = z[n] + Len(d) + 1 + Len(t) + 1
    BY <1>2, <2>1 DEF d, t
  <2>4. g[n + 1] = g[n] \o put_string(d) \o put_string(t)
    BY <1>3, <2>1 DEF d, t
  <2>5. /\ put_string(d) \in Seq(Int) /\ Len(put_string(d)) = Len(d) + 1
        /\ put_string(t) \in Seq(Int) /\ Len(put_string(t)) = Len(t) + 1
        /\ Len(d) \in Nat /\ Len(t) \in Nat
        /\ g[n] \in Seq(Int)
    <3>1. /\ put_string(d) \in Names /\ Len(put_string(d)) = Len(d) + 1
          /\ put_string(t) \in Names /\ Len(put_string(t)) = Len(t) + 1
      BY <2>2, PutString, Zenon
    <3>2. g[n] \in Names
      BY <1>3, <2>1
    <3>3. \A x \in Names : x \in Seq(Int) /\ Len(x) \in Nat
      BY DEF Names
    <3> QED BY <2>2, <3>1, <3>2, <3>3, Zenon
  <2>6. Len(g[n + 1]) = Len(g[n]) + Len(put_string(d)) + Len(put_string(t))
    <3>1. \A x, y, w \in Names : Len(x \o y \o w) = Len(x) + Len(y) + Len(w)
      BY DEF Names
    <3>2. g[n] \in Names /\ put_string(d) \in Names /\ put_string(t) \in Names
      BY <2>5 DEF Names
    <3>3. Len(g[n] \o put_string(d) \o put_string(t))
            = Len(g[n]) + Len(put_string(d)) + Len(put_string(t))
      BY <3>1, <3>2, Zenon
    <3> QED BY <2>4, <3>3, Zenon
  <2>7. Len(g[n]) = z[n] /\ z[n] \in Nat
    BY <1>2, <1>6, <2>1
  <2>8. Len(g[n + 1]) = z[n + 1]
    <3>1. \A x, y, w \in Nat : x + (y + 1) + (w + 1) = x + y + 1 + w + 1
      OBVIOUS
    <3>2. Len(g[n + 1]) = z[n] + (Len(d) + 1) + (Len(t) + 1)
      BY <2>5, <2>6, <2>7, Zenon
    <3> QED BY <2>3, <2>5, <2>7, <3>1, <3>2, Zenon
  <2> QED BY <2>1, <2>8
<1> HIDE DEF S
<1>7. \A i \in 0..N : i \in S
    BY <1>1, <1>5, <1>6, BoundedInd
<1>8. N \in 0..N
    BY <1>1
<1> QED BY <1>2, <1>3, <1>7, <1>8 DEF S

-----------------------------------------------------------------------------
(* What de_marshal_key reads of a buffer that marshal_key has written.     *)

\* Where the elements of two sequences are in their concatenation.
LEMMA Concat ==
    ASSUME NEW a \in Seq(Int), NEW x \in Seq(Int)
    PROVE  /\ a \o x \in Seq(Int) /\ Len(a \o x) = Len(a) + Len(x)
           /\ \A j \in 1..Len(a) : (a \o x)[j] = a[j]
           /\ \A j \in 1..Len(x) : (a \o x)[Len(a) + j] = x[j]
<1>1. Len(a) \in Nat /\ Len(x) \in Nat
    OBVIOUS
<1>2. a \o x \in Seq(Int) /\ Len(a \o x) = Len(a) + Len(x)
    OBVIOUS
<1>3. ASSUME NEW j \in 1..Len(a) PROVE (a \o x)[j] = a[j]
    OBVIOUS
<1>4. ASSUME NEW j \in 1..Len(x) PROVE (a \o x)[Len(a) + j] = x[j]
  <2>1. Len(a) + j \in 1..(Len(a) + Len(x)) /\ ~(Len(a) + j <= Len(a)) /\ Len(a) + j - Len(a) = j
    BY <1>1
  <2> QED BY <2>1
<1> QED BY <1>2, <1>3, <1>4

\* Where two strings with their lengths are found behind a.
HasStrings(r, a, u, d, w, t) ==
    LET p == Len(a) + 1
        q == p + Len(d) + 1
    IN  /\ r \in Seq(Int) /\ Len(r) = q + Len(t) /\ p \in Nat /\ q \in Nat
        /\ \A j \in 1..Len(a) : r[j] = a[j]
        /\ r[p] = u /\ \A j \in 1..Len(d) : r[p + j] = d[j]
        /\ r[q] = w /\ \A j \in 1..Len(t) : r[q + j] = t[j]

\* put_string of two strings behind a puts them there.
LEMMA TwoStrings ==
    ASSUME NEW a \in Seq(Int), NEW d \in Seq(Int), NEW t \in Seq(Int), NEW u \in Int, NEW w \in Int
    PROVE  HasStrings(a \o (<<u>> \o d) \o (<<w>> \o t), a, u, d, w, t)
<1> DEFINE x == <<u>> \o d
<1> DEFINE y == <<w>> \o t
<1> DEFINE r == a \o x \o y
<1> DEFINE p == Len(a) + 1
<1> DEFINE q == p + Len(d) + 1
<1>1. x \in Seq(Int) /\ Len(x) = Len(d) + 1 /\ x[1] = u /\ \A j \in 1..Len(d) : x[j + 1] = d[j]
    OBVIOUS
<1>2. y \in Seq(Int) /\ Len(y) = Len(t) + 1 /\ y[1] = w /\ \A j \in 1..Len(t) : y[j + 1] = t[j]
    OBVIOUS
<1>3. Len(a) \in Nat /\ Len(d) \in Nat /\ Len(t) \in Nat
    OBVIOUS
<1> HIDE DEF x, y
<1>4. /\ r \in Seq(Int) /\ Len(r) = Len(a) + Len(x) + Len(y)
      /\ \A j \in 1..Len(a) : r[j] = a[j]
      /\ \A j \in 1..Len(x) : r[Len(a) + j] = x[j]
      /\ \A j \in 1..Len(y) : r[Len(a) + Len(x) + j] = y[j]
  <2> DEFINE z == a \o x
  <2>1. /\ z \in Seq(Int) /\ Len(z) = Len(a) + Len(x)
        /\ \A j \in 1..Len(a) : z[j] = a[j]
        /\ \A j \in 1..Len(x) : z[Len(a) + j] = x[j]
    BY <1>1, Concat
  <2>2. r = z \o y
    OBVIOUS
  <2> HIDE DEF z, r
  <2>3. /\ r \in Seq(Int) /\ Len(r) = Len(z) + Len(y)
        /\ \A j \in 1..Len(z) : r[j] = z[j]
        /\ \A j \in 1..Len(y) : r[Len(z) + j] = y[j]
    <3>1. z \in Seq(Int) /\ y \in Seq(Int)
      BY <1>2, <2>1
    <3>2. /\ z \o y \in Seq(Int) /\ Len(z \o y) = Len(z) + Len(y)
          /\ \A j \in 1..Len(z) : (z \o y)[j] = z[j]
          /\ \A j \in 1..Len(y) : (z \o y)[Len(z) + j] = y[j]
      BY <3>1, Concat
    <3> QED BY <2>2, <3>2, Zenon
  <2>4. \A j \in 1..Len(a) : j \in 1..Len(z)
    BY <1>1, <1>3, <2>1
  <2>5. \A j \in 1..Len(x) : Len(a) + j \in 1..Len(z)
    BY <1>1, <1>3, <2>1
  <2> QED BY <2>1, <2>3, <2>4, <2>5
<1> HIDE DEF r
<1>5. r[p] = u /\ r[q] = w /\ Len(r) = q + Len(t)
  <2>1. 1 \in 1..Len(x) /\ 1 \in 1..Len(y)
    BY <1>1, <1>2, <1>3
  <2>2. q = Len(a) + Len(x) + 1 /\ q + Len(t) = Len(a) + Len(x) + Len(y)
    BY <1>1, <1>2, <1>3
  <2>3. r[Len(a) + 1] = x[1] /\ r[Len(a) + Len(x) + 1] = y[1]
    BY <1>4, <2>1
  <2> HIDE DEF q
  <2> QED BY <1>1, <1>2, <1>4, <2>2, <2>3
<1>6. ASSUME NEW j \in 1..Len(d) PROVE r[p + j] = d[j]
  <2>1. j + 1 \in 1..Len(x) /\ Len(a) + (j + 1) = p + j
    BY <1>1, <1>3
  <2> QED BY <1>1, <1>4, <2>1
<1>7. ASSUME NEW j \in 1..Len(t) PROVE r[q + j] = t[j]
  <2>1. j + 1 \in 1..Len(y) /\ Len(a) + Len(x) + (j + 1) = q + j
    BY <1>1, <1>2, <1>3
  <2>2. r[Len(a) + Len(x) + (j + 1)] = y[j + 1]
    BY <1>4, <2>1, Zenon
  <2>3. y[j + 1] = t[j]
    BY <1>2
  <2>4. r[q + j] = r[Len(a) + Len(x) + (j + 1)]
    BY <2>1
  <2> QED BY <2>2, <2>3, <2>4, Zenon
<1>8. p \in Nat /\ q \in Nat
    BY <1>3
<1>9. /\ r \in Seq(Int) /\ Len(r) = q + Len(t) /\ p \in Nat /\ q \in Nat
      /\ \A j \in 1..Len(a) : r[j] = a[j]
      /\ r[p] = u /\ \A j \in 1..Len(d) : r[p + j] = d[j]
      /\ r[q] = w /\ \A j \in 1..Len(t) : r[q + j] = t[j]
  <2> HIDE DEF p, q
  <2> QED BY <1>4, <1>5, <1>6, <1>7, <1>8
<1> QED BY <1>9, Zenon DEF r, x, y, HasStrings

\* A length that has gone through a char.
LEMMA SignedLength ==
    ASSUME NEW n \in 0..(2 * Half - 1)
    PROVE  /\ Unsigned(n) = n
           /\ n < Half => Signed(n) = n
           /\ ~(n < Half) => Signed(n) \in Int /\ Signed(n) < 0
<1>1. Half \in Nat /\ 2 * Half \in Nat /\ 2 * Half > 0 /\ n \in Nat /\ n < 2 * Half
    BY TabDmlAssumption
<1>2. n % (2 * Half) = n
    BY <1>1
<1>3. Unsigned(n) = n
    BY <1>2 DEF Unsigned
<1> QED BY <1>1, <1>3 DEF Signed

\* What is in the buffer stays there.
LEMMA KeyPrefix ==
    ASSUME NEW k \in Keys, NEW g, IsKey(g, k), NEW i \in 0..Len(k._names)
    PROVE  /\ Len(g[i]) <= Len(marshal_key(k))
           /\ \A q \in 1..Len(g[i]) : marshal_key(k)[q] = g[i][q]
<1> DEFINE N == Len(k._names)
<1> DEFINE P(j) == \A m \in 0..j : Len(g[m]) <= Len(g[j]) /\ \A q \in 1..Len(g[m]) : g[j][q] = g[m][q]
<1> DEFINE S == {j \in 0..N : P(j)}
<1>1. N \in Nat /\ \A j \in 0..N : g[j] \in Seq(Int) /\ Len(g[j]) \in Nat
    BY KeyType DEF IsKey, Names
<1>2. P(0)
    BY <1>1
<1>3. ASSUME NEW n \in 0..(N - 1), P(n) PROVE P(n + 1)
  <2>1. n + 1 \in 1..N /\ (n + 1) - 1 = n /\ n \in 0..N /\ n + 1 \in 0..N
    BY <1>1
  <2> DEFINE d == put_string(k._names[n + 1]._db)
  <2> DEFINE t == put_string(k._names[n + 1]._table)
  <2>2. d \in Seq(Int) /\ t \in Seq(Int)
    BY <2>1, KeyType, PutString DEF Names
  <2>3. g[n + 1] = g[n] \o d \o t
    BY <2>1 DEF IsKey
  <2> HIDE DEF d, t
  <2>4. Len(g[n]) <= Len(g[n + 1]) /\ \A q \in 1..Len(g[n]) : g[n + 1][q] = g[n][q]
    BY <1>1, <2>1, <2>2, <2>3
  <2> TAKE m \in 0..(n + 1)
  <2>5. CASE m = n + 1
    BY <1>1, <2>1, <2>5
  <2>6. CASE m \in 0..n
    <3>1. Len(g[m]) <= Len(g[n]) /\ \A q \in 1..Len(g[m]) : g[n][q] = g[m][q]
      BY <1>3, <2>6
    <3>2. Len(g[m]) \in Nat /\ Len(g[n]) \in Nat /\ Len(g[n + 1]) \in Nat
      BY <1>1, <2>1, <2>6
    <3>3. \A q \in 1..Len(g[m]) : q \in 1..Len(g[n])
      BY <3>1, <3>2
    <3> QED BY <2>4, <3>1, <3>2, <3>3
  <2> QED BY <2>1, <2>5, <2>6
<1>4. P(N)
  <2> HIDE DEF P
  <2>1. 0 \in S /\ \A n \in 0..(N - 1) : n \in S => n + 1 \in S
    BY <1>1, <1>2, <1>3
  <2> HIDE DEF S
  <2>2. \A n \in 0..N : n \in S
    BY <1>1, <2>1, BoundedInd
  <2> QED BY <1>1, <2>2 DEF S
<1>5. marshal_key(k) = g[N]
    BY DEF IsKey
<1> QED BY <1>4, <1>5

\* A piece of a sequence, byte by byte.
LEMMA Piece ==
    ASSUME NEW b \in Seq(Int), NEW d \in Seq(Int), NEW p \in Nat, p + Len(d) <= Len(b),
           \A j \in 1..Len(d) : b[p + j] = d[j]
    PROVE  SubSeq(b, p + 1, p + Len(d)) = d
<1> DEFINE c == SubSeq(b, p + 1, p + Len(d))
<1>1. Len(d) \in Nat /\ Len(b) \in Nat
    OBVIOUS
<1>2. c \in Seq(Int) /\ Len(c) = Len(d)
    BY <1>1
<1>3. \A j \in 1..Len(d) : c[j] = b[p + j]
    BY <1>1
<1> HIDE DEF c
<1>4. c = d
  <2>1. \A j \in 1..Len(d) : c[j] = d[j]
    BY <1>3
  <2>2. c = [j \in 1..Len(d) |-> c[j]] /\ d = [j \in 1..Len(d) |-> d[j]]
    BY <1>2
  <2> QED BY <2>1, <2>2, Zenon
<1> QED BY <1>4 DEF c

\* A piece of a buffer is a string.
LEMMA SubSeqInt ==
    ASSUME NEW b \in Seq(Int), NEW p \in Nat, NEW n \in Int, n >= 0, p + n <= Len(b)
    PROVE  SubSeq(b, p + 1, p + n) \in Seq(Int)
<1>1. \A j \in (p + 1)..(p + n) : b[j] \in Int
    OBVIOUS
<1> QED BY <1>1

\* The first n elements and the next one are the first n + 1.
LEMMA AppendPiece ==
    ASSUME NEW X, NEW s \in Seq(X), NEW n \in Nat, n + 1 \in 1..Len(s)
    PROVE  Append(SubSeq(s, 1, n), s[n + 1]) = SubSeq(s, 1, n + 1)
<1> DEFINE a == Append(SubSeq(s, 1, n), s[n + 1])
<1> DEFINE c == SubSeq(s, 1, n + 1)
<1> DEFINE m == SubSeq(s, 1, n)
<1>1. Len(s) \in Nat /\ \A i \in 1..Len(s) : s[i] \in X
    OBVIOUS
<1>2. m \in Seq(X) /\ Len(m) = n /\ \A i \in 1..n : m[i] = s[i]
    BY <1>1
<1>3. c \in Seq(X) /\ Len(c) = n + 1 /\ \A i \in 1..(n + 1) : c[i] = s[i]
    BY <1>1
<1> HIDE DEF m, c
<1>4. a \in Seq(X) /\ Len(a) = n + 1 /\ a[n + 1] = s[n + 1] /\ \A i \in 1..n : a[i] = m[i]
    BY <1>1, <1>2 DEF m
<1> HIDE DEF a
<1>5. \A i \in 1..(n + 1) : a[i] = c[i]
    BY <1>2, <1>3, <1>4
<1>6. a = c
    BY <1>3, <1>4, <1>5, SeqEqual
<1> QED BY <1>6 DEF a, c

\* Where the buffer holds table i.
LEMMA NameBytes ==
    ASSUME NEW k \in Keys, NEW g, IsKey(g, k), NEW i \in 1..Len(k._names)
    PROVE  LET b == marshal_key(k)
               d == k._names[i]._db
               t == k._names[i]._table
               p == Len(g[i - 1]) + 1
               q == p + Len(d) + 1
           IN  /\ p \in 1..Len(b) /\ q \in 1..Len(b)
               /\ Len(g[i]) = q + Len(t) /\ Len(g[i]) <= Len(b)
               /\ b[p] = Signed(Len(d)) /\ \A j \in 1..Len(d) : b[p + j] = d[j]
               /\ b[q] = Signed(Len(t)) /\ \A j \in 1..Len(t) : b[q + j] = t[j]
<1> DEFINE b == marshal_key(k)
<1> DEFINE d == k._names[i]._db
<1> DEFINE t == k._names[i]._table
<1> DEFINE a == g[i - 1]
<1> DEFINE r == g[i]
<1> DEFINE p == Len(a) + 1
<1> DEFINE q == p + Len(d) + 1
<1> DEFINE u == Signed(Len(d))
<1> DEFINE w == Signed(Len(t))
<1>1. i - 1 \in 0..Len(k._names) /\ i \in 0..Len(k._names) /\ Len(k._names) \in 0..Len(k._names)
    BY KeyType
<1>2. a \in Seq(Int) /\ d \in Seq(Int) /\ t \in Seq(Int) /\ b \in Seq(Int)
  <2>1. a \in Names /\ b \in Names
    BY <1>1 DEF IsKey
  <2>2. d \in Names /\ t \in Names
    BY KeyType
  <2> HIDE DEF a, b, d, t
  <2> QED BY <2>1, <2>2 DEF Names
<1>3. r = a \o (<<u>> \o d) \o (<<w>> \o t)
    BY DEF IsKey, put_string
<1>4. u \in Int /\ w \in Int
  <2>1. Len(d) \in Nat /\ Len(t) \in Nat
    BY <1>2
  <2>2. 2 * Half \in Nat /\ 2 * Half > 0 /\ Half \in Nat
    BY TabDmlAssumption
  <2>3. Len(d) % (2 * Half) \in Int /\ Len(t) % (2 * Half) \in Int
    BY <2>1, <2>2
  <2> HIDE DEF d, t
  <2> QED BY <2>2, <2>3 DEF Signed, Unsigned
<1>5. Len(r) <= Len(b) /\ \A j \in 1..Len(r) : b[j] = r[j]
    BY <1>1, KeyPrefix, Zenon
<1> HIDE DEF a, b, d, t, r, u, w
<1>6. /\ Len(r) = q + Len(t) /\ p \in Nat /\ q \in Nat
      /\ r[p] = u /\ \A j \in 1..Len(d) : r[p + j] = d[j]
      /\ r[q] = w /\ \A j \in 1..Len(t) : r[q + j] = t[j]
  <2>1. HasStrings(r, a, u, d, w, t)
    BY <1>2, <1>3, <1>4, TwoStrings
  <2> QED BY <2>1, Zenon DEF HasStrings
<1>7. Len(a) \in Nat /\ Len(d) \in Nat /\ Len(t) \in Nat /\ Len(b) \in Nat
    BY <1>2
<1>8. p \in 1..Len(r) /\ q \in 1..Len(r) /\ p \in 1..Len(b) /\ q \in 1..Len(b)
    BY <1>5, <1>6, <1>7
<1>9. \A j \in 1..Len(d) : p + j \in 1..Len(r)
    BY <1>6, <1>7
<1>10. \A j \in 1..Len(t) : q + j \in 1..Len(r)
    BY <1>6, <1>7
<1>11. /\ p \in 1..Len(b) /\ q \in 1..Len(b)
       /\ Len(r) = q + Len(t) /\ Len(r) <= Len(b)
       /\ b[p] = u /\ \A j \in 1..Len(d) : b[p + j] = d[j]
       /\ b[q] = w /\ \A j \in 1..Len(t) : b[q + j] = t[j]
  <2> HIDE DEF p, q
  <2> QED BY <1>5, <1>6, <1>8, <1>9, <1>10
<1> QED BY <1>11, Zenon DEF a, b, d, t, r, u, w

ShortName(x) == Len(x._db) < Half /\ Len(x._table) < Half
LegalName(x) == Len(x._db) \in 0..(2 * Half - 1) /\ Len(x._table) \in 0..(2 * Half - 1)

\* A round of de_marshal_key on the bytes of x between two positions: it reads x, or
\* fails on a length that has become negative.
ReadsName(b, from, to, x, ns) ==
    LET acc == [ok |-> TRUE, p |-> from, names |-> ns]
    IN  /\ ShortName(x) => get_name(b, acc) = [ok |-> TRUE, p |-> to, names |-> Append(ns, x)]
        /\ ~ShortName(x) => get_name(b, acc).ok = FALSE

\* A round of de_marshal_key on table i that marshal_key has written.
LEMMA GetName ==
    ASSUME NEW k \in Keys, NEW g, IsKey(g, k), NEW i \in 1..Len(k._names),
           LegalName(k._names[i]), NEW ns
    PROVE  ReadsName(marshal_key(k), Len(g[i - 1]) + 1, Len(g[i]) + 1, k._names[i], ns)
<1> DEFINE b == marshal_key(k)
<1> DEFINE d == k._names[i]._db
<1> DEFINE t == k._names[i]._table
<1> DEFINE p == Len(g[i - 1]) + 1
<1> DEFINE q == p + Len(d) + 1
<1> DEFINE acc == [ok |-> TRUE, p |-> p, names |-> ns]
<1> DEFINE e == p + b[p] + 1
<1>1. /\ p \in 1..Len(b) /\ q \in 1..Len(b)
      /\ Len(g[i]) = q + Len(t) /\ Len(g[i]) <= Len(b)
      /\ b[p] = Signed(Len(d)) /\ \A j \in 1..Len(d) : b[p + j] = d[j]
      /\ b[q] = Signed(Len(t)) /\ \A j \in 1..Len(t) : b[q + j] = t[j]
    BY NameBytes, Zenon
<1>2. d \in Seq(Int) /\ t \in Seq(Int) /\ k._names[i] = [_db |-> d, _table |-> t]
    BY KeyType DEF Names
<1>3. b \in Seq(Int)
  <2>1. Len(k._names) \in 0..Len(k._names)
    BY KeyType
  <2> QED BY <2>1 DEF IsKey, Names
<1>4. Len(d) \in Nat /\ Len(t) \in Nat /\ Len(b) \in Nat /\ p \in Nat /\ q \in Nat
  <2>1. Len(d) \in Nat /\ Len(t) \in Nat /\ Len(b) \in Nat
    BY <1>2, <1>3
  <2> HIDE DEF b, d, t, p, q
  <2> QED BY <1>1, <2>1
<1>5. /\ Len(d) < Half => b[p] = Len(d)
      /\ ~(Len(d) < Half) => b[p] \in Int /\ b[p] < 0
      /\ Len(t) < Half => b[q] = Len(t)
      /\ ~(Len(t) < Half) => b[q] \in Int /\ b[q] < 0
    BY <1>1, SignedLength DEF LegalName
<1>6. /\ acc.ok = TRUE /\ acc.p = p /\ acc.names = ns
      /\ [acc EXCEPT !.ok = FALSE].ok = FALSE
    OBVIOUS
<1>7. ShortName(k._names[i]) <=> Len(d) < Half /\ Len(t) < Half
    BY DEF ShortName
<1>8. get_name(b, acc) =
         IF ~(Readable(b, p) /\ Readable(b, e)) THEN [acc EXCEPT !.ok = FALSE]
         ELSE [ok |-> TRUE, p |-> e + b[e] + 1,
               names |-> Append(ns, [_db |-> get_string(b, p), _table |-> get_string(b, e)])]
    BY DEF get_name
<1>9. CASE Len(d) < Half /\ Len(t) < Half
  <2>1. b[p] = Len(d) /\ e = q /\ b[e] = Len(t)
    BY <1>5, <1>9
  <2>2. p + Len(d) <= Len(b) /\ q + Len(t) <= Len(b) /\ p <= Len(b) /\ q <= Len(b)
    <3> HIDE DEF b, d, t, p
    <3> QED BY <1>1, <1>4
  <2>3. Readable(b, p) /\ Readable(b, e)
    <3> HIDE DEF b, d, t, p, q, e
    <3> QED BY <1>4, <2>1, <2>2 DEF Readable
  <2>4. get_string(b, p) = d /\ get_string(b, e) = t
    <3>1. get_string(b, p) = SubSeq(b, p + 1, p + Len(d))
      BY <2>1 DEF get_string
    <3>2. get_string(b, e) = SubSeq(b, q + 1, q + Len(t))
      BY <2>1 DEF get_string
    <3> HIDE DEF b, d, t, p, q, e
    <3>3. SubSeq(b, p + 1, p + Len(d)) = d
      BY <1>1, <1>2, <1>3, <1>4, <2>2, Piece
    <3>4. SubSeq(b, q + 1, q + Len(t)) = t
      BY <1>1, <1>2, <1>3, <1>4, <2>2, Piece
    <3> QED BY <3>1, <3>2, <3>3, <3>4
  <2>5. get_name(b, acc) = [ok |-> TRUE, p |-> Len(g[i]) + 1, names |-> Append(ns, k._names[i])]
    <3>1. get_name(b, acc) = [ok |-> TRUE, p |-> e + b[e] + 1,
               names |-> Append(ns, [_db |-> get_string(b, p), _table |-> get_string(b, e)])]
      <4> HIDE DEF e, acc, b, p
      <4> QED BY <1>8, <2>3
    <3>2. e + b[e] + 1 = Len(g[i]) + 1
      <4> HIDE DEF e, b, p, q
      <4> QED BY <1>1, <2>1
    <3> HIDE DEF e, b, p, acc, d, t
    <3> QED BY <1>2, <2>4, <3>1, <3>2, Zenon
  <2> QED BY <1>7, <1>9, <2>5 DEF ReadsName
<1>10. CASE ~(Len(d) < Half /\ Len(t) < Half)
  <2>1. CASE ~(Len(d) < Half)
    <3>1. ~Readable(b, p)
      <4> HIDE DEF b, p, d, t
      <4> QED BY <1>5, <2>1 DEF Readable
    <3>2. get_name(b, acc) = [acc EXCEPT !.ok = FALSE]
      <4> HIDE DEF e, acc, b, p
      <4> QED BY <1>8, <3>1
    <3> QED BY <1>6, <1>7, <2>1, <3>2, Zenon DEF ReadsName
  <2>2. CASE Len(d) < Half /\ ~(Len(t) < Half)
    <3>1. e = q
      BY <1>5, <2>2
    <3>2. ~Readable(b, e)
      <4> HIDE DEF b, p, d, t, q, e
      <4> QED BY <1>5, <2>2, <3>1 DEF Readable
    <3>3. get_name(b, acc) = [acc EXCEPT !.ok = FALSE]
      <4> HIDE DEF e, acc, b, p
      <4> QED BY <1>8, <3>2
    <3> QED BY <1>6, <1>7, <2>2, <3>3, Zenon DEF ReadsName
  <2> QED BY <1>10, <2>1, <2>2
<1> QED BY <1>9, <1>10 DEF ReadsName

\* What the loop of de_marshal_key keeps.
Reads == [ok : BOOLEAN, p : Nat \ {0}, names : Seq([_db : Names, _table : Names])]

\* A round of de_marshal_key keeps the types, whatever the buffer holds.
LEMMA ReadType ==
    ASSUME NEW b \in Names, NEW acc \in Reads
    PROVE  get_name(b, acc) \in Reads
<1> DEFINE X == [_db : Names, _table : Names]
<1> DEFINE p == acc.p
<1> DEFINE q == p + b[p] + 1
<1> DEFINE nm == [_db |-> get_string(b, p), _table |-> get_string(b, q)]
<1>1. p \in Nat /\ p # 0 /\ acc.ok \in BOOLEAN /\ acc.names \in Seq(X)
    BY DEF Reads
<1>2. b \in Seq(Int) /\ Len(b) \in Nat /\ \A j \in 1..Len(b) : b[j] \in Int
    BY DEF Names
<1>3. CASE ~(acc.ok /\ Readable(b, p) /\ Readable(b, q))
  <2>1. get_name(b, acc) = [acc EXCEPT !.ok = FALSE]
    BY <1>3 DEF get_name
  <2> QED BY <2>1 DEF Reads
<1>4. CASE acc.ok /\ Readable(b, p) /\ Readable(b, q)
  <2>1. get_name(b, acc) = [ok |-> TRUE, p |-> q + b[q] + 1, names |-> Append(acc.names, nm)]
    BY <1>4 DEF get_name
  <2>2. p \in 1..Len(b) /\ b[p] \in Int /\ b[p] >= 0 /\ p + b[p] <= Len(b)
    <3> HIDE DEF p, q
    <3> QED BY <1>1, <1>2, <1>4 DEF Readable
  <2>3. q \in Nat /\ q # 0
    <3> HIDE DEF p
    <3> QED BY <1>1, <2>2
  <2>4. q \in 1..Len(b) /\ b[q] \in Int /\ b[q] >= 0 /\ q + b[q] <= Len(b)
    <3> HIDE DEF p, q
    <3> QED BY <2>3, <1>2, <1>4 DEF Readable
  <2> HIDE DEF p, q
  <2>5. q + b[q] + 1 \in Nat \ {0}
    BY <2>3, <2>4
  <2>6. get_string(b, p) \in Names
    <3>1. SubSeq(b, p + 1, p + b[p]) \in Seq(Int)
      BY <1>1, <1>2, <2>2, SubSeqInt
    <3> QED BY <3>1 DEF get_string, Names
  <2>7. get_string(b, q) \in Names
    <3>1. SubSeq(b, q + 1, q + b[q]) \in Seq(Int)
      BY <2>3, <1>2, <2>4, SubSeqInt
    <3> QED BY <3>1 DEF get_string, Names
  <2>8. nm \in X
    BY <2>6, <2>7
  <2> HIDE DEF nm, X
  <2>9. Append(acc.names, nm) \in Seq(X)
    BY <1>1, <2>8
  <2> QED BY <2>1, <2>5, <2>9 DEF Reads, X
<1> QED BY <1>3, <1>4

\* g[i] is what the loop has after i rounds.
IsRead(g, b) ==
    /\ g \in [0..b[2] -> Reads]
    /\ g[0] = [ok |-> TRUE, p |-> 3, names |-> <<>>]
    /\ de_marshal_key(b) = [ok |-> g[b[2]].ok, key |-> [_result |-> b[1], _names |-> g[b[2]].names]]
    /\ \A i \in 1..b[2] : g[i] = get_name(b, g[i - 1])

\* de_marshal_key makes its rounds one after the other.
LEMMA ReadSteps ==
    ASSUME NEW b \in Names, b[2] \in Nat
    PROVE  \E g : IsRead(g, b)
<1> DEFINE N == b[2]
<1> DEFINE s == [i \in 1..N |-> i]
<1> DEFINE start == [ok |-> TRUE, p |-> 3, names |-> <<>>]
<1>0. start \in Reads
    BY DEF Reads
<1>1. N \in Nat /\ DOMAIN s = 1..N
    OBVIOUS
<1> DEFINE G == [q \in (1..N) \X Reads |-> get_name(b, q[2])]
<1> DEFINE Step(f, u) == IF u = {} THEN start ELSE get_name(b, f[u \ {Max(u)}])
<1> DEFINE h == CHOOSE f : f = [u \in SUBSET DOMAIN s |-> Step(f, u)]
<1>2. \A r \in Reads : get_name(b, r) \in Reads
    BY ReadType
<1> HIDE DEF start, N
<1>3. G \in [(1..N) \X Reads -> Reads]
    BY <1>2
<1>4. PICK f \in [SUBSET (1..N) -> Reads] : IsFold(f, N, start, G)
  <2> HIDE DEF G
  <2> QED BY <1>0, <1>1, <1>3, FoldExists
<1>5. \A u \in SUBSET (1..N) : f[u] = Step(f, u)
  <2> TAKE u \in SUBSET (1..N)
  <2>1. CASE u = {}
    BY <1>4, <2>1 DEF IsFold
  <2>2. CASE u # {}
    <3>1. Max(u) \in 1..N
      BY <1>1, <2>2, MaxPosition
    <3>2. f[u \ {Max(u)}] \in Reads
      OBVIOUS
    <3>3. f[u] = G[<<Max(u), f[u \ {Max(u)}]>>]
      BY <1>4, <2>2, Zenon DEF IsFold
    <3> QED BY <2>2, <3>1, <3>2, <3>3
  <2> QED BY <2>1, <2>2
<1>6. f = [u \in SUBSET DOMAIN s |-> Step(f, u)]
  <2> HIDE DEF Step, s
  <2> QED BY <1>1, <1>5
<1>7. h = [u \in SUBSET (1..N) |-> Step(h, u)]
  <2> HIDE DEF Step, s
  <2> QED BY <1>1, <1>6, Zenon
<1>8. de_marshal_key(b) = [ok |-> h[1..N].ok, key |-> [_result |-> b[1], _names |-> h[1..N].names]]
    BY <1>1 DEF de_marshal_key, FoldLeft, MapThenFoldSet, N, start
<1> HIDE DEF h, s
<1>9. h[{}] = start /\ \A i \in 1..N : h[1..i] = get_name(b, h[1..(i - 1)])
  <2>1. h[{}] = start
    BY <1>7
  <2>2. ASSUME NEW i \in 1..N PROVE h[1..i] = Step(h, 1..i)
    BY <1>1, <1>7, FoldPrefix
  <2>3. ASSUME NEW i \in 1..N PROVE Step(h, 1..i) = get_name(b, h[1..(i - 1)])
    BY <1>1, FoldPrefix, Zenon
  <2> QED BY <2>1, <2>2, <2>3
<1> DEFINE g == [i \in 0..N |-> h[1..i]]
<1>10. g[0] = start /\ \A i \in 1..N : g[i] = get_name(b, g[i - 1])
  <2>1. 1..0 = {}
    OBVIOUS
  <2>2. \A i \in 1..N : i \in 0..N /\ i - 1 \in 0..N
    BY <1>1
  <2>3. 0 \in 0..N
    BY <1>1
  <2> QED BY <1>9, <2>1, <2>2, <2>3
<1>11. \A i \in 0..N : g[i] \in Reads
  <2> HIDE DEF g
  <2> DEFINE S == {i \in 0..N : g[i] \in Reads}
  <2>1. 0 \in S
    BY <1>0, <1>1, <1>10
  <2>2. ASSUME NEW n \in 0..(N - 1), n \in S PROVE n + 1 \in S
    <3>1. n + 1 \in 1..N /\ (n + 1) - 1 = n /\ n + 1 \in 0..N
      BY <1>1
    <3>2. g[n + 1] = get_name(b, g[n]) /\ g[n] \in Reads
      BY <1>10, <2>2, <3>1
    <3> QED BY <1>2, <3>1, <3>2
  <2> HIDE DEF S
  <2>3. \A i \in 0..N : i \in S
    BY <1>1, <2>1, <2>2, BoundedInd
  <2> QED BY <2>3 DEF S
<1>12. g \in [0..N -> Reads] /\ g[N] = h[1..N]
    BY <1>1, <1>11
<1> HIDE DEF g
<1> QED BY <1>8, <1>10, <1>12, Zenon DEF N, start, IsRead

LegalKey(k) ==
    /\ k \in Keys /\ Len(k._names) \in 0..(2 * Half - 1)
    /\ \A i \in DOMAIN k._names : LegalName(k._names[i])
ShortKey(k) == \A i \in DOMAIN k._names : ShortName(k._names[i])

\* de_marshal_key reads back the key that marshal_key has written, when all names
\* are shorter than Half, and fails otherwise.
THEOREM ReadBack ==
    ASSUME NEW k, LegalKey(k)
    PROVE  LET r == de_marshal_key(marshal_key(k))
           IN  /\ ShortKey(k) => r.ok = TRUE /\ r.key = k
               /\ ~ShortKey(k) => r.ok = FALSE
<1> DEFINE b == marshal_key(k)
<1> DEFINE ss == k._names
<1> DEFINE N == Len(ss)
<1> DEFINE X == [_db : Names, _table : Names]
<1>1. k \in Keys /\ N \in 0..(2 * Half - 1) /\ \A i \in DOMAIN ss : LegalName(ss[i])
    BY DEF LegalKey
<1>2. N \in Nat /\ DOMAIN ss = 1..N /\ ss \in Seq(X)
    BY <1>1, KeyType DEF Keys
<1>3. PICK g : IsKey(g, k)
    BY <1>1, KeySteps
<1>4. b[1] = k._result /\ b[2] = N /\ b \in Names /\ Len(g[0]) = 2
  <2>1. 0 \in 0..N /\ N \in 0..N
    BY <1>2
  <2>2. g[0] = <<k._result, Unsigned(N)>> /\ b = g[N] /\ g \in [0..N -> Names]
    BY <1>3 DEF IsKey
  <2>3. Unsigned(N) = N
    BY <1>1, SignedLength
  <2>4. g[0][1] = k._result /\ g[0][2] = N /\ Len(g[0]) = 2
    BY <2>2, <2>3
  <2>5. \A q \in 1..Len(g[0]) : b[q] = g[0][q]
    BY <1>1, <1>3, <2>1, KeyPrefix
  <2> HIDE DEF b, N
  <2> QED BY <2>1, <2>2, <2>4, <2>5
<1> HIDE DEF b, N, ss
<1>5. PICK h : IsRead(h, b)
    BY <1>2, <1>4, ReadSteps
<1> DEFINE ShortTo(j) == \A i \in 1..j : ShortName(ss[i])
<1> DEFINE Good(j) == [ok |-> TRUE, p |-> Len(g[j]) + 1, names |-> SubSeq(ss, 1, j)]
<1> DEFINE P(j) == (ShortTo(j) => h[j] = Good(j)) /\ (~ShortTo(j) => h[j].ok = FALSE)
<1> DEFINE S == {j \in 0..N : P(j)}
<1>6. P(0)
  <2>1. SubSeq(ss, 1, 0) = <<>>
    BY <1>2
  <2>2. h[0] = [ok |-> TRUE, p |-> 3, names |-> <<>>]
    BY <1>5 DEF IsRead
  <2>3. Len(g[0]) + 1 = 3
    BY <1>4
  <2>4. ShortTo(0)
    OBVIOUS
  <2> QED BY <2>1, <2>2, <2>3, <2>4, Zenon
<1>7. ASSUME NEW n \in 0..(N - 1), P(n) PROVE P(n + 1)
  <2>1. n + 1 \in 1..N /\ (n + 1) - 1 = n /\ n \in 0..N /\ n + 1 \in 0..N /\ n \in Nat
    BY <1>2
  <2>2. h[n + 1] = get_name(b, h[n]) /\ h[n] \in Reads
    BY <1>4, <1>5, <2>1 DEF IsRead
  <2>3. ShortTo(n + 1) <=> ShortTo(n) /\ ShortName(ss[n + 1])
    <3>1. 1..(n + 1) = (1..n) \cup {n + 1}
      BY <2>1
    <3> QED BY <3>1
  <2>4. CASE ~ShortTo(n)
    <3>1. h[n].ok = FALSE
      BY <1>7, <2>4
    <3>2. h[n + 1] = [h[n] EXCEPT !.ok = FALSE]
      BY <2>2, <3>1 DEF get_name
    <3>3. h[n + 1].ok = FALSE
      BY <2>2, <3>2 DEF Reads
    <3> HIDE DEF ShortTo
    <3> QED BY <2>3, <2>4, <3>3
  <2>5. CASE ShortTo(n)
    <3> DEFINE acc == [ok |-> TRUE, p |-> Len(g[n]) + 1, names |-> SubSeq(ss, 1, n)]
    <3>1. h[n] = acc
      BY <1>7, <2>5, Zenon
    <3>2. /\ ShortName(ss[n + 1]) =>
               get_name(b, acc) = [ok |-> TRUE, p |-> Len(g[n + 1]) + 1,
                                   names |-> Append(SubSeq(ss, 1, n), ss[n + 1])]
          /\ ~ShortName(ss[n + 1]) => get_name(b, acc).ok = FALSE
      <4>1. LegalName(ss[n + 1])
        BY <1>1, <1>2, <2>1
      <4>2. g[(n + 1) - 1] = g[n]
        BY <2>1
      <4>3. ReadsName(b, Len(g[(n + 1) - 1]) + 1, Len(g[n + 1]) + 1, ss[n + 1], SubSeq(ss, 1, n))
        BY <1>1, <1>3, <2>1, <4>1, GetName DEF ss, b, N
      <4>4. ReadsName(b, Len(g[n]) + 1, Len(g[n + 1]) + 1, ss[n + 1], SubSeq(ss, 1, n))
        BY <4>2, <4>3, Zenon
      <4> QED BY <4>4, Zenon DEF ReadsName
    <3>3. Append(SubSeq(ss, 1, n), ss[n + 1]) = SubSeq(ss, 1, n + 1)
      <4> HIDE DEF X
      <4> QED BY <1>2, <2>1, AppendPiece
    <3> HIDE DEF ShortTo, acc
    <3> QED BY <2>2, <2>3, <2>5, <3>1, <3>2, <3>3, Zenon
  <2> QED BY <2>4, <2>5
<1>8. P(N)
  <2> HIDE DEF P
  <2>1. 0 \in S /\ \A n \in 0..(N - 1) : n \in S => n + 1 \in S
    BY <1>2, <1>6, <1>7
  <2> HIDE DEF S
  <2>2. \A n \in 0..N : n \in S
    BY <1>2, <2>1, BoundedInd
  <2> QED BY <1>2, <2>2 DEF S
<1>9. ShortTo(N) <=> ShortKey(k)
    BY <1>2 DEF ShortKey, ss
<1>10. de_marshal_key(b) = [ok |-> h[N].ok, key |-> [_result |-> b[1], _names |-> h[N].names]]
    BY <1>4, <1>5 DEF IsRead
<1>11. SubSeq(ss, 1, N) = ss
  <2> HIDE DEF X
  <2> QED BY <1>2 DEF N
<1>12. k = [_result |-> k._result, _names |-> ss]
    BY <1>1 DEF Keys, ss
<1> HIDE DEF ShortTo
<1>13. ASSUME ShortKey(k) PROVE de_marshal_key(b).ok = TRUE /\ de_marshal_key(b).key = k
  <2>1. h[N] = Good(N)
    BY <1>8, <1>9, <1>13, Zenon
  <2>2. h[N].ok = TRUE /\ h[N].names = ss
    BY <1>11, <2>1
  <2>3. de_marshal_key(b).ok = h[N].ok
        /\ de_marshal_key(b).key = [_result |-> b[1], _names |-> h[N].names]
    BY <1>10
  <2> QED BY <1>4, <1>12, <2>2, <2>3, Zenon
<1>14. ASSUME ~ShortKey(k) PROVE de_marshal_key(b).ok = FALSE
  <2>1. h[N].ok = FALSE
    BY <1>8, <1>9, <1>14, Zenon
  <2> QED BY <1>10, <2>1
<1> QED BY <1>13, <1>14 DEF b

-----------------------------------------------------------------------------
(* The sum of the samples of one key and type.                             *)

\* g[i] is the sum over the first i samples.
IsSum(g, s, k, t) ==
    /\ g \in [0..Len(s) -> Nat]
    /\ g[0] = 0 /\ Sum(s, k, t) = g[Len(s)]
    /\ \A i \in 1..Len(s) :
           g[i] = IF s[i].key = k /\ s[i].type = t THEN g[i - 1] + s[i].time ELSE g[i - 1]

\* Sum goes through the samples one after the other.
LEMMA SumSteps ==
    ASSUME NEW Z, \A z \in Z : z.time \in Nat, NEW s \in Seq(Z), NEW k, NEW t
    PROVE  \E g : IsSum(g, s, k, t)
<1> DEFINE N == Len(s)
<1>1. N \in Nat /\ DOMAIN s = 1..N /\ \A i \in 1..N : s[i] \in Z
    OBVIOUS
<1> HIDE DEF N
<1> DEFINE Op(r, i) == IF s[i].key = k /\ s[i].type = t THEN r + s[i].time ELSE r
<1> DEFINE G == [q \in (1..N) \X Nat |-> Op(q[2], q[1])]
<1> DEFINE Step(f, u) == IF u = {} THEN 0 ELSE Op(f[u \ {Max(u)}], Max(u))
<1> DEFINE h == CHOOSE f : f = [u \in SUBSET DOMAIN s |-> Step(f, u)]
<1>2. \A r \in Nat, i \in 1..N : Op(r, i) \in Nat
    BY <1>1
<1>3. G \in [(1..N) \X Nat -> Nat]
  <2> HIDE DEF Op
  <2> QED BY <1>2
<1>4. PICK f \in [SUBSET (1..N) -> Nat] : IsFold(f, N, 0, G)
  <2>1. N \in Nat /\ 0 \in Nat
    BY <1>1
  <2> HIDE DEF G
  <2> QED BY <1>3, <2>1, FoldExists
<1>5. \A u \in SUBSET (1..N) : f[u] = Step(f, u)
  <2> TAKE u \in SUBSET (1..N)
  <2> HIDE DEF Op
  <2>1. CASE u = {}
    BY <1>4, <2>1 DEF IsFold
  <2>2. CASE u # {}
    <3>1. Max(u) \in 1..N
      BY <1>1, <2>2, MaxPosition
    <3>2. f[u \ {Max(u)}] \in Nat
      OBVIOUS
    <3>3. f[u] = G[<<Max(u), f[u \ {Max(u)}]>>]
      BY <1>4, <2>2, Zenon DEF IsFold
    <3> QED BY <2>2, <3>1, <3>2, <3>3
  <2> QED BY <2>1, <2>2
<1>6. f = [u \in SUBSET DOMAIN s |-> Step(f, u)]
  <2> HIDE DEF Step
  <2> QED BY <1>1, <1>5
<1>7. h = [u \in SUBSET (1..N) |-> Step(h, u)]
  <2> HIDE DEF Step
  <2> QED BY <1>1, <1>6, Zenon
<1>8. Sum(s, k, t) = h[1..N]
    BY <1>1 DEF Sum, FoldLeft, MapThenFoldSet
<1> HIDE DEF h
<1>9. h[{}] = 0 /\ \A i \in 1..N : h[1..i] = Op(h[1..(i - 1)], i)
  <2> HIDE DEF Op
  <2>1. h[{}] = 0
    BY <1>7
  <2>2. ASSUME NEW i \in 1..N PROVE h[1..i] = Step(h, 1..i)
    BY <1>1, <1>7, FoldPrefix
  <2>3. ASSUME NEW i \in 1..N PROVE Step(h, 1..i) = Op(h[1..(i - 1)], i)
    BY <1>1, FoldPrefix, Zenon
  <2> QED BY <2>1, <2>2, <2>3
<1> DEFINE g == [i \in 0..N |-> h[1..i]]
<1>10. g[0] = 0 /\ \A i \in 1..N : g[i] = Op(g[i - 1], i)
  <2> HIDE DEF Op
  <2>1. 1..0 = {}
    OBVIOUS
  <2>2. \A i \in 1..N : i \in 0..N /\ i - 1 \in 0..N
    BY <1>1
  <2>3. 0 \in 0..N
    BY <1>1
  <2> QED BY <1>9, <2>1, <2>2, <2>3
<1>11. \A i \in 0..N : g[i] \in Nat
  <2> HIDE DEF g, Op
  <2> DEFINE S == {i \in 0..N : g[i] \in Nat}
  <2>1. 0 \in S
    BY <1>1, <1>10
  <2>2. ASSUME NEW n \in 0..(N - 1), n \in S PROVE n + 1 \in S
    <3>1. n + 1 \in 1..N /\ (n + 1) - 1 = n /\ n + 1 \in 0..N
      BY <1>1
    <3>2. g[n + 1] = Op(g[n], n + 1) /\ g[n] \in Nat
      BY <1>10, <2>2, <3>1
    <3> QED BY <1>2, <3>1, <3>2
  <2> HIDE DEF S
  <2>3. \A i \in 0..N : i \in S
    BY <1>1, <2>1, <2>2, BoundedInd
  <2> QED BY <2>3 DEF S
<1>12. g \in [0..N -> Nat] /\ Sum(s, k, t) = g[N]
    BY <1>1, <1>8, <1>11
<1> HIDE DEF g
<1> QED BY <1>10, <1>12, Zenon DEF N, IsSum

\* The sum after one more sample.
LEMMA SumAppend ==
    ASSUME NEW Z, \A z \in Z : z.time \in Nat, NEW s \in Seq(Z), NEW x \in Z, NEW k, NEW t
    PROVE  /\ Sum(s, k, t) \in Nat
           /\ Sum(Append(s, x), k, t) = IF x.key = k /\ x.type = t THEN Sum(s, k, t) + x.time
                                                                   ELSE Sum(s, k, t)
<1> DEFINE N == Len(s)
<1> DEFINE r == Append(s, x)
<1>1. /\ N \in Nat /\ r \in Seq(Z) /\ Len(r) = N + 1
      /\ r[N + 1] = x /\ \A i \in 1..N : r[i] = s[i]
    OBVIOUS
<1>a. PICK g : IsSum(g, s, k, t)
    BY SumSteps, Zenon
<1>2. /\ g \in [0..N -> Nat]
      /\ g[0] = 0 /\ Sum(s, k, t) = g[N]
      /\ \A i \in 1..N :
             g[i] = IF s[i].key = k /\ s[i].type = t THEN g[i - 1] + s[i].time ELSE g[i - 1]
    BY <1>a, Zenon DEF IsSum
<1> HIDE DEF r, N
<1>b. PICK h : IsSum(h, r, k, t)
    BY <1>1, SumSteps, Zenon
<1>3. /\ h \in [0..(N + 1) -> Nat]
      /\ h[0] = 0 /\ Sum(r, k, t) = h[N + 1]
      /\ \A i \in 1..(N + 1) :
             h[i] = IF r[i].key = k /\ r[i].type = t THEN h[i - 1] + r[i].time ELSE h[i - 1]
    BY <1>1, <1>b, Zenon DEF IsSum
<1> DEFINE S == {i \in 0..N : h[i] = g[i]}
<1>4. 0 \in S
    BY <1>1, <1>2, <1>3
<1>5. ASSUME NEW n \in 0..(N - 1), n \in S PROVE n + 1 \in S
  <2>1. n + 1 \in 1..N /\ n + 1 \in 1..(N + 1) /\ (n + 1) - 1 = n /\ n + 1 \in 0..N
    BY <1>1
  <2>2. h[n] = g[n] /\ r[n + 1] = s[n + 1]
    BY <1>1, <1>5, <2>1
  <2>3. h[n + 1] = g[n + 1]
    BY <1>2, <1>3, <2>1, <2>2, Zenon
  <2> QED BY <2>1, <2>3
<1>6. h[N] = g[N]
  <2> HIDE DEF S
  <2>1. \A i \in 0..N : i \in S
    BY <1>1, <1>4, <1>5, BoundedInd
  <2>2. N \in 0..N
    BY <1>1
  <2> QED BY <2>1, <2>2 DEF S
<1>7. N + 1 \in 1..(N + 1) /\ (N + 1) - 1 = N /\ N \in 0..N
    BY <1>1
<1>8. h[N + 1] = IF x.key = k /\ x.type = t THEN h[N] + x.time ELSE h[N]
    BY <1>1, <1>3, <1>7, Zenon
<1>9. g[N] \in Nat
    BY <1>2, <1>7
<1> QED BY <1>2, <1>3, <1>6, <1>8, <1>9, Zenon DEF r

\* The sum of no samples.
LEMMA SumNone ==
    ASSUME NEW Z, \A z \in Z : z.time \in Nat, NEW s \in Seq(Z), NEW k, NEW t, Own(s, k, t) = {}
    PROVE  Sum(s, k, t) = 0
<1> DEFINE N == Len(s)
<1>1. N \in Nat /\ \A i \in 1..N : ~(s[i].key = k /\ s[i].type = t)
    BY DEF Own
<1>a. PICK g : IsSum(g, s, k, t)
    BY SumSteps, Zenon
<1>2. /\ g \in [0..N -> Nat]
      /\ g[0] = 0 /\ Sum(s, k, t) = g[N]
      /\ \A i \in 1..N :
             g[i] = IF s[i].key = k /\ s[i].type = t THEN g[i - 1] + s[i].time ELSE g[i - 1]
    BY <1>a, Zenon DEF IsSum
<1> HIDE DEF N
<1> DEFINE S == {i \in 0..N : g[i] = 0}
<1>3. 0 \in S
    BY <1>1, <1>2
<1>4. ASSUME NEW n \in 0..(N - 1), n \in S PROVE n + 1 \in S
  <2>1. n + 1 \in 1..N /\ (n + 1) - 1 = n /\ n + 1 \in 0..N
    BY <1>1
  <2>2. g[n + 1] = g[n]
    BY <1>1, <1>2, <2>1, Zenon
  <2> QED BY <1>4, <2>1, <2>2
<1> HIDE DEF S
<1>5. \A i \in 0..N : i \in S
    BY <1>1, <1>3, <1>4, BoundedInd
<1>6. N \in 0..N
    BY <1>1
<1> QED BY <1>2, <1>5, <1>6 DEF S

-----------------------------------------------------------------------------
(* What cdb_comm_stat_add does to an entry that describes its samples.     *)

IsMax(m, S) == m \in S /\ \A d \in S : d <= m
IsMin(m, S) == m \in S /\ \A d \in S : m <= d

\* An element that is above all the others is the maximum.
LEMMA MaxIs ==
    ASSUME NEW S \in SUBSET Int, NEW m, IsMax(m, S)
    PROVE  Max(S) = m
<1>1. m \in S /\ \A y \in S : m >= y
    BY DEF IsMax
<1>2. Max(S) \in S /\ \A y \in S : Max(S) >= y
    BY <1>1, Zenon DEF Max
<1>3. Max(S) >= m /\ m >= Max(S)
    BY <1>1, <1>2, Zenon
<1>4. Max(S) \in Int /\ m \in Int
    BY <1>1, <1>2
<1> QED BY <1>3, <1>4

\* An element that is below all the others is the minimum.
LEMMA MinIs ==
    ASSUME NEW S \in SUBSET Int, NEW m, IsMin(m, S)
    PROVE  Min(S) = m
<1>1. m \in S /\ \A y \in S : m =< y
    BY DEF IsMin
<1>2. Min(S) \in S /\ \A y \in S : Min(S) =< y
    BY <1>1, Zenon DEF Min
<1>3. Min(S) =< m /\ m =< Min(S)
    BY <1>1, <1>2, Zenon
<1>4. Min(S) \in Int /\ m \in Int
    BY <1>1, <1>2
<1> QED BY <1>3, <1>4

\* The test in the loop of cdb_comm_stat_add is the dump's header.
LEMMA BucketTest ==
    ASSUME NEW v \in 0..(DBL_MAX - 1), NEW b \in Buckets
    PROVE  InBucket(v, b) <=> Threshold(b) < v /\ v < Threshold(b + 1)
<1> DEFINE T == Thresholds
<1> DEFINE n == Len(T)
<1> DEFINE P == {i \in Buckets : T[i] < v}
<1> DEFINE M == {0} \cup P
<1>1. n \in Nat /\ Buckets = 1..n /\ \A i \in 1..n : T[i] \in Nat
    BY CommStatAssumption DEF Buckets
<1>2. \A i, j \in 1..n : i < j => T[i] < T[j]
    BY <1>1, CommStatAssumption DEF Buckets
<1>3. DBL_MAX \in Nat /\ v \in Nat /\ v < DBL_MAX
    BY CommStatAssumption
<1>4. BucketOf(v) = Max(M)
    BY DEF BucketOf
<1>5. \A y : y \in ToSet(T) <=> \E i \in 1..n : y = T[i]
    BY <1>1 DEF ToSet, Buckets
<1> HIDE DEF T, n
<1>6. Threshold(b) = T[b] /\ Threshold(b + 1) = IF b + 1 \in 1..n THEN T[b + 1] ELSE DBL_MAX
    BY <1>1 DEF Threshold, T
<1>7. M \in SUBSET Int
    BY <1>1
<1>8. ASSUME T[b] < v, v < Threshold(b + 1)
      PROVE  InBucket(v, b)
  <2>1. ASSUME NEW j \in 1..n, b < j PROVE v < T[j]
    <3>1. b + 1 \in 1..n /\ b \in 1..n
      BY <1>1, <2>1
    <3>2. v < T[b + 1] /\ T[b + 1] \in Nat /\ T[j] \in Nat
      BY <1>1, <1>6, <1>8, <3>1
    <3>3. CASE j = b + 1
      BY <3>2, <3>3
    <3>4. CASE b + 1 < j
      <4>1. T[b + 1] < T[j]
        BY <1>2, <3>1, <3>4
      <4> QED BY <3>2, <4>1, <1>3
    <3> QED BY <2>1, <3>1, <3>3, <3>4
  <2>2. ASSUME NEW j \in 1..n, j <= b PROVE T[j] < v
    <3>1. CASE j = b
      BY <1>8, <3>1
    <3>2. CASE j < b
      <4>1. T[j] < T[b] /\ T[j] \in Nat /\ T[b] \in Nat
        BY <1>1, <1>2, <3>2
      <4> QED BY <1>3, <1>8, <4>1
    <3> QED BY <1>1, <2>2, <3>1, <3>2
  <2>3. IsMax(b, M)
    <3>1. b \in M /\ b \in 1..n
      BY <1>1, <1>8
    <3>2. ASSUME NEW d \in M PROVE d <= b
      <4>1. CASE d = 0
        BY <3>1, <4>1
      <4>2. CASE d \in P
        <5>1. d \in 1..n /\ T[d] < v /\ T[d] \in Nat
          BY <1>1, <4>2
        <5>2. ~(b < d)
          <6> SUFFICES ASSUME b < d PROVE FALSE
            OBVIOUS
          <6>1. v < T[d]
            BY <2>1, <5>1
          <6> QED BY <1>3, <5>1, <6>1
        <5> QED BY <3>1, <5>1, <5>2
      <4> QED BY <4>1, <4>2
    <3> HIDE DEF M
    <3> QED BY <3>1, <3>2 DEF IsMax
  <2>4. v \notin ToSet(T)
    <3> SUFFICES ASSUME NEW j \in 1..n, v = T[j] PROVE FALSE
      BY <1>5
    <3>1. b < j \/ j <= b
      BY <1>1
    <3>2. v < v
      BY <2>1, <2>2, <3>1
    <3> QED BY <1>3, <3>2
  <2> HIDE DEF M
  <2>5. Max(M) = b
    BY <1>7, <2>3, MaxIs
  <2> QED BY <1>4, <2>4, <2>5 DEF InBucket, T
<1>9. ASSUME InBucket(v, b)
      PROVE  T[b] < v /\ v < Threshold(b + 1)
  <2>1. Max(M) = b /\ v \notin ToSet(T)
    BY <1>4, <1>9 DEF InBucket, T
  <2>2. \E m : IsMax(m, M)
    <3>1. CASE P = {}
      <4>1. IsMax(0, M)
        BY <3>1 DEF IsMax
      <4> QED BY <4>1
    <3>2. CASE P # {}
      <4>1. P \in SUBSET (1..n)
        BY <1>1
      <4> HIDE DEF P
      <4>2. Max(P) \in P /\ \A y \in P : y <= Max(P)
        BY <1>1, <3>2, <4>1, MaxPosition
      <4>3. Max(P) \in 1..n
        BY <4>1, <4>2
      <4>4. IsMax(Max(P), M)
        BY <4>2, <4>3 DEF IsMax
      <4> QED BY <4>4
    <3> QED BY <3>1, <3>2
  <2>3. IsMax(b, M)
    <3> HIDE DEF M
    <3> QED BY <1>7, <2>1, <2>2, MaxIs
  <2>4. b \in 1..n
    BY <1>1
  <2>5. T[b] < v
    BY <2>3, <2>4, <1>1 DEF IsMax
  <2>6. CASE b + 1 \in 1..n
    <3>1. ~(T[b + 1] < v)
      <4> SUFFICES ASSUME T[b + 1] < v PROVE FALSE
        OBVIOUS
      <4>1. b + 1 \in M
        BY <1>1, <2>6
      <4>2. b + 1 <= b
        BY <2>3, <4>1 DEF IsMax
      <4> QED BY <2>4, <4>2
    <3>2. T[b + 1] # v
      BY <1>5, <2>1, <2>6
    <3>3. T[b + 1] \in Nat
      BY <1>1, <2>6
    <3> QED BY <1>3, <1>6, <2>5, <2>6, <3>1, <3>2, <3>3
  <2>7. CASE b + 1 \notin 1..n
    BY <1>3, <1>6, <2>5, <2>7
  <2> QED BY <2>6, <2>7
<1> QED BY <1>6, <1>8, <1>9

\* The samples of k and t after one more sample x.
LEMMA OwnAppend ==
    ASSUME NEW Z, NEW s \in Seq(Z), NEW x \in Z, NEW k, NEW t
    PROVE  LET r == Append(s, x)
               N == Len(s)
           IN  /\ N \in Nat /\ DOMAIN s = 1..N
               /\ r[N + 1] = x /\ \A i \in 1..N : r[i] = s[i]
               /\ Own(s, k, t) \in SUBSET (1..N) /\ IsFiniteSet(Own(s, k, t))
               /\ KeysOf(r) = KeysOf(s) \cup {x.key}
               /\ x.key = k /\ x.type = t =>
                    /\ Own(r, k, t) = Own(s, k, t) \cup {N + 1}
                    /\ Times(r, k, t) = Times(s, k, t) \cup {x.time}
               /\ ~(x.key = k /\ x.type = t) =>
                    /\ Own(r, k, t) = Own(s, k, t)
                    /\ Times(r, k, t) = Times(s, k, t)
<1> DEFINE r == Append(s, x)
<1> DEFINE N == Len(s)
<1>1. /\ N \in Nat /\ DOMAIN s = 1..N /\ DOMAIN r = 1..(N + 1)
      /\ r[N + 1] = x /\ \A i \in 1..N : r[i] = s[i]
    OBVIOUS
<1>2. 1..(N + 1) = (1..N) \cup {N + 1} /\ N + 1 \notin 1..N
    BY <1>1
<1> HIDE DEF r, N
<1>3. Own(s, k, t) \in SUBSET (1..N)
    BY <1>1 DEF Own
<1>4. IsFiniteSet(Own(s, k, t))
  <2>1. IsFiniteSet(1..N)
    BY <1>1, FS_Interval
  <2> QED BY <1>3, <2>1, FS_Subset
<1>5. KeysOf(r) = KeysOf(s) \cup {x.key}
    BY <1>1, <1>2 DEF KeysOf
<1>6. ASSUME x.key = k, x.type = t
      PROVE  /\ Own(r, k, t) = Own(s, k, t) \cup {N + 1}
             /\ Times(r, k, t) = Times(s, k, t) \cup {x.time}
  <2>1. Own(r, k, t) = Own(s, k, t) \cup {N + 1}
    BY <1>1, <1>2, <1>6 DEF Own
  <2>2. \A i \in Own(s, k, t) : r[i] = s[i]
    BY <1>1, <1>3
  <2>3. Times(r, k, t) = Times(s, k, t) \cup {x.time}
    BY <1>1, <2>1, <2>2 DEF Times
  <2> QED BY <2>1, <2>3
<1>7. ASSUME ~(x.key = k /\ x.type = t)
      PROVE  Own(r, k, t) = Own(s, k, t) /\ Times(r, k, t) = Times(s, k, t)
  <2>1. Own(r, k, t) = Own(s, k, t)
    BY <1>1, <1>2, <1>7 DEF Own
  <2>2. \A i \in Own(s, k, t) : r[i] = s[i]
    BY <1>1, <1>3
  <2>3. Times(r, k, t) = Times(s, k, t)
    BY <2>1, <2>2 DEF Times
  <2> QED BY <2>1, <2>3
<1> QED BY <1>1, <1>3, <1>4, <1>5, <1>6, <1>7, Zenon DEF r, N

\* Those of them in one bucket.
InB(s, k, t, b) == {i \in Own(s, k, t) : InBucket(s[i].time, b)}

\* Describes, without the choices of Max.
Tells(cs, s, k, t) ==
    /\ cs.total = Cardinality(Own(s, k, t))
    /\ cs.sum = Sum(s, k, t)
    /\ IsMax(cs.max, {0} \cup Times(s, k, t))
    /\ \A b \in Buckets : cs.bucket[b] = Cardinality(InB(s, k, t, b))

Timed(Z) == \A z \in Z : z.time \in 0..(DBL_MAX - 1)

\* Durations are numbers below DBL_MAX.
LEMMA TimesType ==
    ASSUME NEW Z, Timed(Z), NEW s \in Seq(Z), NEW k, NEW t
    PROVE  Times(s, k, t) \in SUBSET (0..(DBL_MAX - 1)) /\ Times(s, k, t) \in SUBSET Int
<1>1. \A i \in Own(s, k, t) : s[i] \in Z
    BY DEF Own
<1>2. Times(s, k, t) \in SUBSET (0..(DBL_MAX - 1))
    BY <1>1, Zenon DEF Times, Timed
<1> QED BY <1>2, CommStatAssumption

\* Tells is as good as Describes.
LEMMA TellsDescribes ==
    ASSUME NEW Z, Timed(Z), NEW s \in Seq(Z), NEW k, NEW t, NEW cs, Tells(cs, s, k, t)
    PROVE  Describes(cs, s, k, t)
<1>1. {0} \cup Times(s, k, t) \in SUBSET Int
    BY TimesType
<1>2. cs.max = Max({0} \cup Times(s, k, t))
    BY <1>1, MaxIs, Zenon DEF Tells
<1> QED BY <1>2, Zenon DEF Tells, Describes, InB

\* A sample of another key or type changes nothing.
LEMMA OthersUntouched ==
    ASSUME NEW Z, Timed(Z), NEW s \in Seq(Z), NEW x \in Z, NEW k, NEW t,
           ~(x.key = k /\ x.type = t), NEW cs, Tells(cs, s, k, t)
    PROVE  Tells(cs, Append(s, x), k, t)
<1> DEFINE r == Append(s, x)
<1>1. Own(r, k, t) = Own(s, k, t) /\ Times(r, k, t) = Times(s, k, t)
    BY OwnAppend
<1>2. \A i \in Own(s, k, t) : r[i] = s[i]
    BY OwnAppend
<1>3. Sum(r, k, t) = Sum(s, k, t)
  <2>1. \A z \in Z : z.time \in Nat
    BY CommStatAssumption DEF Timed
  <2> QED BY <2>1, SumAppend
<1> HIDE DEF r
<1>4. \A b \in Buckets : InB(r, k, t, b) = InB(s, k, t, b)
    BY <1>1, <1>2 DEF InB
<1>5. Tells(cs, r, k, t)
    BY <1>1, <1>3, <1>4, Zenon DEF Tells
<1> QED BY <1>5 DEF r

\* Nothing has been sampled yet.
LEMMA NothingTold ==
    ASSUME NEW Z, Timed(Z), NEW s \in Seq(Z), NEW k, NEW t, k \notin KeysOf(s)
    PROVE  /\ Own(s, k, t) = {} /\ Times(s, k, t) = {}
           /\ Tells(Zero, s, k, t) /\ Tells(Initial, s, k, t)
<1>1. Own(s, k, t) = {}
    BY DEF Own, KeysOf
<1>2. Times(s, k, t) = {}
    BY <1>1 DEF Times
<1>3. Sum(s, k, t) = 0
  <2>1. \A z \in Z : z.time \in Nat
    BY CommStatAssumption DEF Timed
  <2> QED BY <1>1, <2>1, SumNone, Zenon
<1>4. Cardinality({}) = 0
    BY FS_EmptySet
<1>5. \A b \in Buckets : InB(s, k, t, b) = {}
    BY <1>1 DEF InB
<1>6. IsMax(0, {0} \cup Times(s, k, t))
    BY <1>2 DEF IsMax
<1>7. /\ Zero.total = 0 /\ Zero.sum = 0 /\ Zero.max = 0 /\ \A b \in Buckets : Zero.bucket[b] = 0
    BY DEF Zero
<1>8. /\ Initial.total = 0 /\ Initial.sum = 0 /\ Initial.max = 0
      /\ \A b \in Buckets : Initial.bucket[b] = 0
    BY DEF Zero, Initial
<1> QED BY <1>1, <1>2, <1>3, <1>4, <1>5, <1>6, <1>7, <1>8, Zenon DEF Tells

\* A sample of k and t is counted where it should be.
LEMMA AddTells ==
    ASSUME NEW Z, Timed(Z), NEW s \in Seq(Z), NEW x \in Z, NEW cs, Tells(cs, s, x.key, x.type)
    PROVE  Tells(cdb_comm_stat_add(cs, x.time), Append(s, x), x.key, x.type)
<1> DEFINE r == Append(s, x)
<1> DEFINE N == Len(s)
<1> DEFINE k == x.key
<1> DEFINE t == x.type
<1> DEFINE v == x.time
<1> DEFINE new == cdb_comm_stat_add(cs, v)
<1>1. /\ N \in Nat /\ r[N + 1] = x /\ \A i \in 1..N : r[i] = s[i]
      /\ Own(s, k, t) \in SUBSET (1..N) /\ IsFiniteSet(Own(s, k, t))
      /\ Own(r, k, t) = Own(s, k, t) \cup {N + 1}
      /\ Times(r, k, t) = Times(s, k, t) \cup {v}
  <2>1. /\ N \in Nat /\ r[N + 1] = x /\ \A i \in 1..N : r[i] = s[i]
        /\ Own(s, k, t) \in SUBSET (1..N) /\ IsFiniteSet(Own(s, k, t))
    BY OwnAppend
  <2>2. Own(r, k, t) = Own(s, k, t) \cup {N + 1}
    BY OwnAppend
  <2>3. Times(r, k, t) = Times(s, k, t) \cup {v}
    BY OwnAppend
  <2> QED BY <2>1, <2>2, <2>3
<1>2. v \in 0..(DBL_MAX - 1) /\ v \in Nat /\ DBL_MAX \in Nat
    BY CommStatAssumption DEF Timed
<1>3. Sum(s, k, t) \in Nat /\ Sum(r, k, t) = Sum(s, k, t) + v
  <2>1. \A z \in Z : z.time \in Nat
    BY CommStatAssumption DEF Timed
  <2> QED BY <2>1, SumAppend, Zenon
<1>4. {0} \cup Times(s, k, t) \in SUBSET Int
    BY TimesType
<1>5. /\ new.total = cs.total + 1 /\ new.sum = cs.sum + v
      /\ new.max = IF v > cs.max THEN v ELSE cs.max
      /\ \A b \in Buckets :
            new.bucket[b] = IF Threshold(b) < v /\ v < Threshold(b + 1) THEN cs.bucket[b] + 1
                                                                        ELSE cs.bucket[b]
    BY DEF cdb_comm_stat_add
<1>6. N + 1 \notin 1..N
    BY <1>1
<1> HIDE DEF r, N, k, t, v, new
<1>7. new.total = Cardinality(Own(r, k, t))
  <2>1. Cardinality(Own(r, k, t)) = Cardinality(Own(s, k, t)) + 1
    BY <1>1, <1>6, FS_AddElement
  <2> QED BY <1>5, <2>1 DEF Tells, k, t
<1>8. new.sum = Sum(r, k, t)
    BY <1>3, <1>5 DEF Tells, k, t
<1>9. IsMax(new.max, {0} \cup Times(r, k, t))
  <2>1. IsMax(cs.max, {0} \cup Times(s, k, t))
    BY DEF Tells, k, t
  <2> DEFINE S == {0} \cup Times(s, k, t)
  <2> DEFINE R == {0} \cup Times(r, k, t)
  <2>2. R = S \cup {v}
    BY <1>1
  <2>3. cs.max \in S /\ S \in SUBSET Int /\ \A d \in S : d <= cs.max
    BY <1>4, <2>1 DEF IsMax
  <2> HIDE DEF S, R
  <2>4. IsMax(new.max, R)
    <3>1. CASE v > cs.max
      <4>1. new.max = v
        BY <1>5, <3>1
      <4>2. ASSUME NEW d \in S PROVE d <= v
        <5>1. d \in Int /\ cs.max \in Int /\ d <= cs.max
          BY <2>3
        <5> QED BY <1>2, <3>1, <5>1
      <4> QED BY <1>2, <2>2, <4>1, <4>2 DEF IsMax
    <3>2. CASE ~(v > cs.max)
      <4>1. new.max = cs.max
        BY <1>5, <3>2
      <4>2. cs.max \in Int /\ v <= cs.max
        <5>1. cs.max \in Int
          BY <2>3
        <5> QED BY <1>2, <3>2, <5>1
      <4> QED BY <2>2, <2>3, <4>1, <4>2 DEF IsMax
    <3> QED BY <3>1, <3>2
  <2> QED BY <2>4 DEF R
<1>10. ASSUME NEW b \in Buckets
       PROVE  new.bucket[b] = Cardinality(InB(r, k, t, b))
  <2>1. InBucket(v, b) <=> Threshold(b) < v /\ v < Threshold(b + 1)
    BY <1>2, BucketTest
  <2>2. cs.bucket[b] = Cardinality(InB(s, k, t, b))
    BY DEF Tells, k, t
  <2>3. InB(s, k, t, b) \in SUBSET Own(s, k, t)
    BY DEF InB
  <2>4. IsFiniteSet(InB(s, k, t, b)) /\ N + 1 \notin InB(s, k, t, b)
    BY <1>1, <1>6, <2>3, FS_Subset
  <2>5. \A i \in Own(s, k, t) : r[i] = s[i]
    BY <1>1
  <2>6. CASE InBucket(v, b)
    <3>1. InB(r, k, t, b) = InB(s, k, t, b) \cup {N + 1}
      BY <1>1, <2>5, <2>6 DEF InB, v
    <3>2. Cardinality(InB(r, k, t, b)) = Cardinality(InB(s, k, t, b)) + 1
      BY <2>4, <3>1, FS_AddElement
    <3> QED BY <1>5, <2>1, <2>2, <2>6, <3>2
  <2>7. CASE ~InBucket(v, b)
    <3>1. InB(r, k, t, b) = InB(s, k, t, b)
      BY <1>1, <2>5, <2>7 DEF InB, v
    <3> QED BY <1>5, <2>1, <2>2, <2>7, <3>1
  <2> QED BY <2>6, <2>7
<1>11. Tells(new, r, k, t)
    BY <1>7, <1>8, <1>9, <1>10 DEF Tells
<1> QED BY <1>11 DEF new, r, k, t, v

\* _time_min after one more sample, of an entry just made or one that has samples.
LEMMA AddMin ==
    ASSUME NEW Z, Timed(Z), NEW s \in Seq(Z), NEW x \in Z, NEW cs,
           \/ IsMin(cs.min, Times(s, x.key, x.type))
           \/ cs.min = DBL_MAX /\ Times(s, x.key, x.type) = {}
    PROVE  IsMin(cdb_comm_stat_add(cs, x.time).min, Times(Append(s, x), x.key, x.type))
<1> DEFINE v == x.time
<1> DEFINE T == Times(s, x.key, x.type)
<1> DEFINE m == cdb_comm_stat_add(cs, v).min
<1>1. Times(Append(s, x), x.key, x.type) = T \cup {v}
    BY OwnAppend
<1>2. v \in Int /\ DBL_MAX \in Int /\ v < DBL_MAX
    BY CommStatAssumption DEF Timed
<1>3. T \in SUBSET Int
    BY TimesType
<1>4. m = IF v < cs.min THEN v ELSE cs.min
    BY DEF cdb_comm_stat_add
<1> HIDE DEF v, T, m
<1>5. CASE IsMin(cs.min, T)
  <2>1. cs.min \in T /\ cs.min \in Int /\ \A d \in T : d \in Int /\ cs.min <= d
    BY <1>3, <1>5 DEF IsMin
  <2>2. CASE v < cs.min
    <3>1. \A d \in T : v <= d
      BY <1>2, <2>1, <2>2
    <3> QED BY <1>1, <1>2, <1>4, <2>2, <3>1 DEF IsMin, m, v
  <2>3. CASE ~(v < cs.min)
    BY <1>1, <1>2, <1>4, <2>1, <2>3 DEF IsMin, m, v
  <2> QED BY <2>2, <2>3
<1>6. CASE cs.min = DBL_MAX /\ T = {}
    BY <1>1, <1>2, <1>4, <1>6 DEF IsMin, m, v
<1> QED BY <1>5, <1>6 DEF T

-----------------------------------------------------------------------------
(* The inductive invariant.                                                *)

TabKeys == {collect(s) : s \in Statements}
SampleKeys ==
    {[type |-> s.type, result |-> s.result] : s \in Statements}
      \cup {[ip |-> s.ip, type |-> s.type] : s \in Statements}
      \cup {[ip |-> c.ip, result |-> c.result] : c \in Connections}
      \cup TabKeys
Samples == [key : SampleKeys, type : {0} \cup Types, time : 0..(DBL_MAX - 1)]

\* An instance pool m that has taken the samples s.
InsGood(m, s) ==
    /\ DOMAIN m = KeysOf(s)
    /\ \A k \in KeysOf(s) : Tells(m[k], s, k, 0) /\ IsMin(m[k].min, Times(s, k, 0))

\* The same for an entry of the pool of tables: the minimum is kept for the type
\* that made the entry.
EntryGood(st, s, k) ==
    /\ DOMAIN st = Types
    /\ \A t \in Types :
          /\ Tells(st[t], s, k, t)
          /\ IF t = Creator(s, k) THEN IsMin(st[t].min, Times(s, k, t)) ELSE st[t].min = 0

TabGood(m, s) ==
    /\ DOMAIN m = {marshal_key(k) : k \in KeysOf(s)}
    /\ \A b \in DOMAIN m : Len(b) = m[b].size
    /\ (\A k \in KeysOf(s) : ShortKey(k)) =>
          \A k \in KeysOf(s) : EntryGood(m[marshal_key(k)].stats, s, k)

TypeInv ==
    /\ pool = [p \in Pools |-> pool[p]]
    /\ samples \in [Pools -> Seq(Samples)]
    /\ KeysOf(samples["tab"]) \subseteq TabKeys

Inv ==
    /\ TypeInv
    /\ \A p \in InsPools : InsGood(pool[p], samples[p])
    /\ TabGood(pool["tab"], samples["tab"])

\* The durations of all samples are below DBL_MAX.
LEMMA SamplesTimed == Timed(Samples)
    BY DEF Timed, Samples

\* The first m elements of a sequence.
LEMMA FirstPart ==
    ASSUME NEW X, NEW s \in Seq(X), NEW m \in Nat, m <= Len(s)
    PROVE  /\ SubSeq(s, 1, m) \in Seq(X) /\ Len(SubSeq(s, 1, m)) = m
           /\ DOMAIN SubSeq(s, 1, m) = 1..m
           /\ \A i \in 1..m : i \in 1..Len(s) /\ SubSeq(s, 1, m)[i] = s[i]
<1>1. Len(s) \in Nat /\ \A i \in 1..Len(s) : s[i] \in X
    OBVIOUS
<1>2. \A i \in 1..m : i \in 1..Len(s)
    BY <1>1
<1>3. SubSeq(s, 1, m) \in Seq(X) /\ Len(SubSeq(s, 1, m)) = m
    BY <1>1
<1>4. \A i \in 1..m : SubSeq(s, 1, m)[i] = s[i]
    BY <1>1
<1>5. DOMAIN SubSeq(s, 1, m) = 1..m
    BY <1>3
<1> QED BY <1>2, <1>3, <1>4, <1>5

\* What cdb_stat_instance_dml_func collects is a key whose counts and lengths fit a char.
LEMMA CollectLegal ==
    ASSUME NEW s \in Statements
    PROVE  LegalKey(collect(s))
<1> DEFINE Byte == (-Half)..(Half - 1)
<1> DEFINE X == [_db : Seq(Byte), _table : Seq(Byte)]
<1> DEFINE o == s.open
<1> DEFINE m == Min({Len(o), MaxTables})
<1> DEFINE k == collect(s)
<1>1. /\ o \in Seq(X) /\ s.result \in Int
      /\ \A i \in DOMAIN o : \A name \in {o[i]._db, o[i]._table} : Len(name) \in 0..(2 * Half - 1)
    BY TabStatsAssumption
<1>2. MaxTables \in 0..(2 * Half - 1) /\ Half \in Nat
    BY TabDmlAssumption
<1>3. k = [_result |-> s.result, _names |-> SubSeq(o, 1, m)]
    BY DEF collect
<1>4. \A x \in X : x \in [_db : Names, _table : Names]
  <2>1. Seq(Byte) \subseteq Seq(Int)
    BY <1>2
  <2> HIDE DEF Byte
  <2> QED BY <2>1 DEF Names
<1> HIDE DEF X, o, k
<1>5. Len(o) \in Nat /\ DOMAIN o = 1..Len(o) /\ \A i \in 1..Len(o) : o[i] \in X
    BY <1>1
<1>6. m \in {Len(o), MaxTables} /\ m <= Len(o) /\ m <= MaxTables
  <2>1. Len(o) \in Int /\ MaxTables \in Int
    BY <1>2, <1>5
  <2> DEFINE S == {Len(o), MaxTables}
  <2>2. \E x \in S : \A y \in S : x =< y
    BY <2>1
  <2>3. Min(S) \in S /\ \A y \in S : Min(S) =< y
    <3> HIDE DEF S
    <3> QED BY <2>2, Zenon DEF Min
  <2> HIDE DEF m
  <2>4. m \in S /\ \A y \in S : m =< y
    <3> HIDE DEF S
    <3> QED BY <2>3 DEF m, S
  <2> QED BY <2>4
<1> HIDE DEF m
<1>7. m \in Nat /\ m \in 0..(2 * Half - 1)
    BY <1>2, <1>5, <1>6
<1> DEFINE ns == SubSeq(o, 1, m)
<1>8. Len(ns) = m /\ DOMAIN ns = 1..m /\ \A i \in 1..m : i \in 1..Len(o) /\ ns[i] = o[i]
    BY <1>1, <1>6, <1>7, FirstPart
<1>9. ns \in Seq([_db : Names, _table : Names])
  <2> DEFINE Y == [_db : Names, _table : Names]
  <2>1. \A i \in 1..m : o[i] \in Y
    BY <1>4, <1>5, <1>8
  <2> HIDE DEF Y
  <2>2. o \in Seq(Y)
    <3>1. \A i \in 1..Len(o) : o[i] \in Y
      BY <1>4, <1>5 DEF Y
    <3> QED BY <1>1, <1>5, <3>1
  <2>3. SubSeq(o, 1, m) \in Seq(Y)
    BY <1>6, <1>7, <2>2, FirstPart
  <2> QED BY <2>3 DEF Y
<1> HIDE DEF ns
<1>10. k._names = ns /\ k._result = s.result /\ k \in Keys
    BY <1>1, <1>3, <1>9 DEF Keys, ns
<1>11. ASSUME NEW i \in 1..m PROVE LegalName(ns[i])
  <2>1. i \in DOMAIN o /\ ns[i] = o[i]
    BY <1>5, <1>8
  <2>2. Len(o[i]._db) \in 0..(2 * Half - 1) /\ Len(o[i]._table) \in 0..(2 * Half - 1)
    BY <1>1, <2>1
  <2> QED BY <1>2, <2>1, <2>2 DEF LegalName
<1> QED BY <1>7, <1>8, <1>10, <1>11 DEF LegalKey, k

\* Different short keys have different bytes.
LEMMA ShortKeysDiffer ==
    ASSUME NEW k, NEW j, LegalKey(k), LegalKey(j), ShortKey(k), ShortKey(j),
           marshal_key(k) = marshal_key(j)
    PROVE  k = j
<1>1. de_marshal_key(marshal_key(k)).key = k
    BY ReadBack
<1>2. de_marshal_key(marshal_key(j)).key = j
    BY ReadBack
<1> QED BY <1>1, <1>2

\* cdb_ins_dml_add and its like keep an instance pool true to its samples.
LEMMA InsAddGood ==
    ASSUME NEW p, samples[p] \in Seq(Samples), InsGood(pool[p], samples[p]),
           NEW k \in SampleKeys, NEW v \in 0..(DBL_MAX - 1)
    PROVE  /\ InsGood(ins_add(p, k, v).pool, ins_add(p, k, v).samples)
           /\ ins_add(p, k, v).samples \in Seq(Samples)
<1> DEFINE x == [key |-> k, type |-> 0, time |-> v]
<1> DEFINE m == pool[p]
<1> DEFINE s == samples[p]
<1> DEFINE r == Append(s, x)
<1> DEFINE old == IF k \in DOMAIN m THEN m[k] ELSE Initial
<1> DEFINE e == cdb_comm_stat_add(old, v)
<1>1. x \in Samples /\ x.key = k /\ x.type = 0 /\ x.time = v
    BY DEF Samples
<1> HIDE DEF x
<1>2. CASE ~Accepts(p, k)
  <2>1. ins_add(p, k, v).pool = m /\ ins_add(p, k, v).samples = s
    BY <1>2 DEF ins_add, Result
  <2> QED BY <2>1
<1>3. CASE Accepts(p, k)
  <2>1. ins_add(p, k, v).pool = With(m, k, e) /\ ins_add(p, k, v).samples = r
    BY <1>3 DEF ins_add, Result, Present, x
  <2> HIDE DEF m, s
  <2>2. s \in Seq(Samples) /\ InsGood(m, s) /\ r \in Seq(Samples)
    BY <1>1 DEF m, s
  <2>3. KeysOf(r) = KeysOf(s) \cup {k}
    BY <1>1, <2>2, OwnAppend
  <2> HIDE DEF r
  <2>4. /\ DOMAIN With(m, k, e) = DOMAIN m \cup {k} /\ With(m, k, e)[k] = e
        /\ \A j \in DOMAIN m : j # k => With(m, k, e)[j] = m[j]
    <3> HIDE DEF e
    <3> QED BY DEF With
  <2>5. ASSUME NEW j \in KeysOf(s), j # k
        PROVE  Tells(m[j], r, j, 0) /\ IsMin(m[j].min, Times(r, j, 0))
    <3>1. Tells(m[j], s, j, 0) /\ IsMin(m[j].min, Times(s, j, 0))
      BY <2>2 DEF InsGood
    <3>2. Tells(m[j], r, j, 0)
      BY <1>1, <2>2, <2>5, <3>1, OthersUntouched, SamplesTimed DEF r
    <3>3. Times(r, j, 0) = Times(s, j, 0)
      BY <1>1, <2>2, <2>5, OwnAppend DEF r
    <3> QED BY <3>1, <3>2, <3>3
  <2>6. Tells(e, r, k, 0) /\ IsMin(e.min, Times(r, k, 0))
    <3>1. /\ Tells(old, s, k, 0)
          /\ \/ IsMin(old.min, Times(s, k, 0))
             \/ old.min = DBL_MAX /\ Times(s, k, 0) = {}
      <4>1. CASE k \in DOMAIN m
        <5>1. k \in KeysOf(s) /\ old = m[k]
          BY <2>2, <4>1 DEF InsGood
        <5>2. Tells(m[k], s, k, 0) /\ IsMin(m[k].min, Times(s, k, 0))
          BY <2>2, <5>1, Zenon DEF InsGood
        <5> HIDE DEF old
        <5> QED BY <5>1, <5>2, Zenon
      <4>2. CASE k \notin DOMAIN m
        <5>1. k \notin KeysOf(s)
          BY <2>2, <4>2 DEF InsGood
        <5>2. Tells(Initial, s, k, 0) /\ Times(s, k, 0) = {}
          BY <2>2, <5>1, NothingTold, SamplesTimed
        <5>3. Initial.min = DBL_MAX
          BY DEF Initial, Zero
        <5> QED BY <4>2, <5>2, <5>3
      <4> QED BY <4>1, <4>2
    <3> HIDE DEF old
    <3>2. Tells(e, r, k, 0)
      BY <1>1, <2>2, <3>1, AddTells, SamplesTimed DEF r
    <3>3. IsMin(e.min, Times(r, k, 0))
      BY <1>1, <2>2, <3>1, AddMin, SamplesTimed DEF r
    <3> QED BY <3>2, <3>3
  <2> HIDE DEF e
  <2>7. InsGood(With(m, k, e), r)
    BY <2>2, <2>3, <2>4, <2>5, <2>6 DEF InsGood
  <2> QED BY <2>1, <2>2, <2>7
<1> QED BY <1>2, <1>3

\* A non-empty set of positions has a first one.
LEMMA MinPosition ==
    ASSUME NEW m \in Nat, NEW s \in SUBSET (1..m), s # {}
    PROVE  \E x : IsMin(x, s)
<1> DEFINE P(n) == \A t \in SUBSET (1..n) : t # {} => \E x \in t : \A y \in t : x <= y
<1> DEFINE S == {n \in Nat : P(n)}
<1>1. P(0)
  <2>1. 1..0 = {}
    OBVIOUS
  <2> QED BY <2>1, Zenon
<1>2. ASSUME NEW n \in Nat, P(n) PROVE P(n + 1)
  <2> SUFFICES ASSUME NEW t \in SUBSET (1..(n + 1)), t # {} PROVE \E x \in t : \A y \in t : x <= y
    OBVIOUS
  <2> DEFINE u == t \ {n + 1}
  <2>1. u \in SUBSET (1..n)
    OBVIOUS
  <2>2. CASE u = {}
    <3>1. t = {n + 1}
      BY <2>2
    <3> QED BY <3>1
  <2>3. CASE u # {}
    <3> HIDE DEF u
    <3>1. PICK x \in u : \A y \in u : x <= y
      BY <1>2, <2>1, <2>3
    <3>2. x <= n + 1 /\ x \in t
      BY <2>1, <3>1 DEF u
    <3> QED BY <3>1, <3>2 DEF u
  <2> QED BY <2>2, <2>3
<1>3. P(m)
  <2> HIDE DEF P
  <2>1. 0 \in S /\ \A n \in Nat : n \in S => n + 1 \in S
    BY <1>1, <1>2
  <2>2. Nat \subseteq S
    <3> HIDE DEF S
    <3> QED BY <2>1, NatInd
  <2> QED BY <2>2
<1> QED BY <1>3 DEF IsMin

\* A later sample does not change who made an entry.
LEMMA CreatorAppend ==
    ASSUME NEW Z, NEW s \in Seq(Z), NEW x \in Z, NEW k
    PROVE  /\ k \in KeysOf(s) => Creator(Append(s, x), k) = Creator(s, k)
           /\ k \notin KeysOf(s) /\ x.key = k => Creator(Append(s, x), k) = x.type
<1> DEFINE r == Append(s, x)
<1> DEFINE N == Len(s)
<1> DEFINE F == {i \in DOMAIN s : s[i].key = k}
<1> DEFINE H == {i \in DOMAIN r : r[i].key = k}
<1>1. /\ N \in Nat /\ DOMAIN s = 1..N /\ DOMAIN r = (1..N) \cup {N + 1}
      /\ r[N + 1] = x /\ \A i \in 1..N : r[i] = s[i]
    OBVIOUS
<1>2. Creator(s, k) = s[Min(F)].type /\ Creator(r, k) = r[Min(H)].type
    BY DEF Creator
<1> HIDE DEF r, N
<1>3. F \in SUBSET (1..N) /\ F \in SUBSET Int /\ H \in SUBSET Int
    BY <1>1
<1>4. H = F \cup (IF x.key = k THEN {N + 1} ELSE {})
    BY <1>1
<1>5. F # {} <=> k \in KeysOf(s)
    BY DEF KeysOf
<1> HIDE DEF F, H
<1>6. ASSUME k \in KeysOf(s) PROVE Creator(r, k) = Creator(s, k)
  <2>1. PICK m : IsMin(m, F)
    BY <1>1, <1>3, <1>5, <1>6, MinPosition
  <2>2. m \in 1..N /\ m \in F /\ \A d \in F : m <= d
    BY <1>3, <2>1 DEF IsMin
  <2>3. IsMin(m, H)
    <3>1. m <= N + 1
      BY <1>1, <2>2
    <3> QED BY <1>4, <2>2, <3>1 DEF IsMin
  <2>4. Min(F) = m /\ Min(H) = m
    BY <1>3, <2>1, <2>3, MinIs
  <2> QED BY <1>1, <1>2, <2>2, <2>4
<1>7. ASSUME k \notin KeysOf(s), x.key = k PROVE Creator(r, k) = x.type
  <2>1. H = {N + 1}
    BY <1>4, <1>5, <1>7
  <2>2. IsMin(N + 1, H)
    BY <1>1, <2>1 DEF IsMin
  <2>3. Min(H) = N + 1
    BY <1>3, <2>2, MinIs
  <2> QED BY <1>1, <1>2, <2>3
<1> QED BY <1>6, <1>7 DEF r

\* The entry of k after a sample x of k.
LEMMA EntryAdd ==
    ASSUME NEW s \in Seq(Samples), NEW x \in Samples, x.type \in Types, NEW old, NEW cs,
           \/ x.key \in KeysOf(s) /\ EntryGood(old, s, x.key) /\ cs = old[x.type]
           \/ x.key \notin KeysOf(s) /\ old = [u \in Types |-> Zero] /\ cs = Initial
    PROVE  EntryGood([old EXCEPT ![x.type] = cdb_comm_stat_add(cs, x.time)], Append(s, x), x.key)
<1> DEFINE r == Append(s, x)
<1> DEFINE k == x.key
<1> DEFINE t == x.type
<1> DEFINE e == cdb_comm_stat_add(cs, x.time)
<1> DEFINE new == [old EXCEPT ![t] = e]
<1>1. x.time \in Nat
    BY CommStatAssumption DEF Samples
<1>2. DOMAIN old = Types
    BY DEF EntryGood
<1>3. DOMAIN new = Types /\ new[t] = e /\ \A u \in Types : u # t => new[u] = old[u]
  <2> HIDE DEF e
  <2> QED BY <1>2
<1>4. Zero.min = 0 /\ Initial.min = DBL_MAX
    BY DEF Zero, Initial
<1>5. ASSUME NEW u \in Types
      PROVE  Tells(IF u = t THEN cs ELSE old[u], s, k, u)
  <2>1. CASE k \in KeysOf(s)
    BY <2>1 DEF EntryGood
  <2>2. CASE k \notin KeysOf(s)
    <3>1. Tells(Zero, s, k, u) /\ Tells(Initial, s, k, u)
      BY <2>2, NothingTold, SamplesTimed
    <3> QED BY <2>2, <3>1
  <2> QED BY <2>1, <2>2
<1>6. ASSUME NEW u \in Types, u # t
      PROVE  /\ Tells(new[u], r, k, u)
             /\ IF u = Creator(r, k) THEN IsMin(new[u].min, Times(r, k, u)) ELSE new[u].min = 0
  <2>1. new[u] = old[u] /\ Tells(old[u], s, k, u)
    BY <1>3, <1>5, <1>6
  <2>2. Tells(old[u], r, k, u)
    BY <1>6, <2>1, OthersUntouched, SamplesTimed
  <2>3. Times(r, k, u) = Times(s, k, u)
    BY <1>6, OwnAppend
  <2>4. CASE k \in KeysOf(s)
    <3>1. Creator(r, k) = Creator(s, k)
      BY <2>4, CreatorAppend
    <3>2. IF u = Creator(s, k) THEN IsMin(old[u].min, Times(s, k, u)) ELSE old[u].min = 0
      BY <2>4 DEF EntryGood
    <3> HIDE DEF new, r, k
    <3> QED BY <2>1, <2>2, <2>3, <3>1, <3>2
  <2>5. CASE k \notin KeysOf(s)
    <3>1. Creator(r, k) = t
      BY <2>5, CreatorAppend
    <3>2. old[u] = Zero
      BY <2>5
    <3> HIDE DEF new, r, k, t
    <3> QED BY <1>4, <1>6, <2>1, <2>2, <3>1, <3>2
  <2> QED BY <2>4, <2>5
<1>7. /\ Tells(new[t], r, k, t)
      /\ IF t = Creator(r, k) THEN IsMin(new[t].min, Times(r, k, t)) ELSE new[t].min = 0
  <2>1. Tells(cs, s, k, t)
    BY <1>5
  <2>2. Tells(e, r, k, t)
    BY <2>1, AddTells, SamplesTimed
  <2>3. CASE k \in KeysOf(s)
    <3>1. Creator(r, k) = Creator(s, k)
      BY <2>3, CreatorAppend
    <3>2. IF t = Creator(s, k) THEN IsMin(cs.min, Times(s, k, t)) ELSE cs.min = 0
      BY <2>3 DEF EntryGood
    <3>3. CASE t = Creator(s, k)
      <4>1. IsMin(cs.min, Times(s, k, t))
        BY <3>2, <3>3
      <4>2. IsMin(e.min, Times(r, k, t))
        BY <4>1, AddMin, SamplesTimed
      <4> HIDE DEF new, r, k, t, e
      <4> QED BY <1>3, <2>2, <3>1, <3>3, <4>2
    <3>4. CASE t # Creator(s, k)
      <4>1. cs.min = 0
        BY <3>2, <3>4
      <4>2. e.min = 0
        <5>1. e.min = IF x.time < cs.min THEN x.time ELSE cs.min
          BY DEF cdb_comm_stat_add
        <5> HIDE DEF e
        <5> QED BY <1>1, <4>1, <5>1
      <4> HIDE DEF new, r, k, t, e
      <4> QED BY <1>3, <2>2, <3>1, <3>4, <4>2
    <3> QED BY <3>3, <3>4
  <2>4. CASE k \notin KeysOf(s)
    <3>1. Creator(r, k) = t
      BY <2>4, CreatorAppend
    <3>2. cs.min = DBL_MAX /\ Times(s, k, t) = {}
      BY <1>4, <2>4, NothingTold, SamplesTimed
    <3>3. IsMin(e.min, Times(r, k, t))
      BY <3>2, AddMin, SamplesTimed
    <3> HIDE DEF new, r, k, t, e
    <3> QED BY <1>3, <2>2, <3>1, <3>3
  <2> QED BY <2>3, <2>4
<1> HIDE DEF new, r, k, t
<1>8. EntryGood(new, r, k)
    BY <1>3, <1>6, <1>7 DEF EntryGood
<1> QED BY <1>8 DEF new, r, k, t

\* cdb_tab_dml_add keeps the pool of tables true to its samples.
LEMMA TabAddGood ==
    ASSUME samples["tab"] \in Seq(Samples), KeysOf(samples["tab"]) \subseteq TabKeys,
           TabGood(pool["tab"], samples["tab"]), NEW st \in Statements
    PROVE  LET r == tab_add(collect(st), st.type, st.time)
           IN  /\ TabGood(r.pool, r.samples)
               /\ r.samples \in Seq(Samples) /\ KeysOf(r.samples) \subseteq TabKeys
<1> DEFINE k == collect(st)
<1> DEFINE t == st.type
<1> DEFINE v == st.time
<1> DEFINE b == marshal_key(k)
<1> DEFINE m == pool["tab"]
<1> DEFINE s == samples["tab"]
<1> DEFINE x == [key |-> k, type |-> t, time |-> v]
<1> DEFINE r == Append(s, x)
<1> DEFINE found == b \in DOMAIN m
<1> DEFINE old == IF found THEN m[b].stats ELSE [u \in Types |-> Zero]
<1> DEFINE cs == IF found THEN old[t] ELSE Initial
<1> DEFINE stats == [old EXCEPT ![t] = cdb_comm_stat_add(cs, v)]
<1> DEFINE e == [size |-> marshal_size(k), stats |-> stats]
<1> DEFINE w == With(m, b, e)
<1> DEFINE res == tab_add(k, t, v)
<1>1. t \in Types /\ v \in 0..(DBL_MAX - 1) /\ k \in TabKeys /\ LegalKey(k)
    BY TabStatsAssumption, CollectLegal DEF TabKeys
<1>2. x \in Samples /\ x.key = k /\ x.type = t /\ x.time = v
    BY <1>1 DEF Samples, SampleKeys
<1>3. \A j \in TabKeys : LegalKey(j)
    BY CollectLegal DEF TabKeys
<1>4. CASE ~Accepts("tab", b)
  <2>1. res.pool = m /\ res.samples = s
    BY <1>4 DEF tab_add, Result
  <2> QED BY <2>1
<1>5. CASE Accepts("tab", b)
  <2>1. res.pool = w /\ res.samples = r
    BY <1>5 DEF tab_add, Result, Present
  <2> HIDE DEF x, m, s, k, t, v, b
  <2>2. s \in Seq(Samples) /\ KeysOf(s) \subseteq TabKeys /\ TabGood(m, s) /\ r \in Seq(Samples)
    BY <1>2 DEF m, s
  <2>3. KeysOf(r) = KeysOf(s) \cup {k}
    BY <1>2, <2>2, OwnAppend
  <2>4. DOMAIN m = {marshal_key(j) : j \in KeysOf(s)} /\ \A c \in DOMAIN m : Len(c) = m[c].size
    BY <2>2 DEF TabGood
  <2>5. e.size = marshal_size(k) /\ e.stats = stats
    OBVIOUS
  <2>6. /\ DOMAIN w = DOMAIN m \cup {b} /\ w[b] = e
        /\ \A c \in DOMAIN m : c # b => w[c] = m[c]
    <3> HIDE DEF e
    <3> QED BY DEF With
  <2> HIDE DEF w, e, r
  <2>7. DOMAIN w = {marshal_key(j) : j \in KeysOf(r)}
    BY <2>3, <2>4, <2>6 DEF b
  <2>8. \A c \in DOMAIN w : Len(c) = w[c].size
    <3>1. Len(b) = e.size
      BY <1>1, <2>5, KeyLength DEF LegalKey, b
    <3> TAKE c \in DOMAIN w
    <3>2. CASE c = b
      BY <2>6, <3>1, <3>2
    <3>3. CASE c # b
      <4>1. c \in DOMAIN m /\ w[c] = m[c]
        BY <2>6, <3>3
      <4> QED BY <2>4, <4>1
    <3> QED BY <3>2, <3>3
  <2>9. ASSUME \A j \in KeysOf(r) : ShortKey(j), NEW j \in KeysOf(r)
        PROVE  EntryGood(w[marshal_key(j)].stats, r, j)
    <3>1. (\A i \in KeysOf(s) : ShortKey(i)) /\ ShortKey(k)
      BY <2>3, <2>9
    <3>2. \A i \in KeysOf(s) : EntryGood(m[marshal_key(i)].stats, s, i)
      BY <2>2, <3>1 DEF TabGood
    <3>3. \A i \in KeysOf(s) : marshal_key(i) = b => i = k
      <4> TAKE i \in KeysOf(s)
      <4>1. LegalKey(i) /\ ShortKey(i)
        BY <1>3, <2>2, <3>1
      <4> QED BY <1>1, <3>1, <4>1, ShortKeysDiffer DEF b
    <3>4. CASE j = k
      <4>1. found <=> k \in KeysOf(s)
        BY <2>4, <3>3 DEF b
      <4>2. \/ k \in KeysOf(s) /\ EntryGood(old, s, k) /\ cs = old[t]
            \/ k \notin KeysOf(s) /\ old = [u \in Types |-> Zero] /\ cs = Initial
        <5>1. CASE k \in KeysOf(s)
          <6>1. old = m[b].stats /\ cs = old[t]
            BY <4>1, <5>1
          <6>2. EntryGood(m[b].stats, s, k)
            BY <3>2, <5>1 DEF b
          <6> HIDE DEF old, cs
          <6> QED BY <5>1, <6>1, <6>2
        <5>2. CASE k \notin KeysOf(s)
          BY <4>1, <5>2
        <5> QED BY <5>1, <5>2
      <4> HIDE DEF old, cs
      <4>3. EntryGood(stats, r, k)
        BY <1>1, <1>2, <2>2, <4>2, EntryAdd DEF r
      <4> HIDE DEF stats
      <4> QED BY <2>5, <2>6, <3>4, <4>3 DEF b
    <3>5. CASE j # k
      <4>1. j \in KeysOf(s) /\ marshal_key(j) # b
        BY <2>3, <3>3, <3>5
      <4>2. marshal_key(j) \in DOMAIN m
        BY <2>4, <4>1
      <4>3. w[marshal_key(j)] = m[marshal_key(j)]
        BY <2>6, <4>1, <4>2
      <4> DEFINE o == m[marshal_key(j)].stats
      <4>4. EntryGood(o, s, j)
        BY <3>2, <4>1
      <4> HIDE DEF o
      <4>5. Creator(r, j) = Creator(s, j)
        BY <1>2, <2>2, <4>1, CreatorAppend DEF r
      <4>6. ASSUME NEW u \in Types
            PROVE  /\ Tells(o[u], r, j, u)
                   /\ IF u = Creator(r, j) THEN IsMin(o[u].min, Times(r, j, u)) ELSE o[u].min = 0
        <5>1. /\ Tells(o[u], s, j, u)
              /\ IF u = Creator(s, j) THEN IsMin(o[u].min, Times(s, j, u)) ELSE o[u].min = 0
          BY <4>4 DEF EntryGood
        <5>2. Tells(o[u], r, j, u)
          BY <1>2, <2>2, <3>5, <5>1, OthersUntouched, SamplesTimed DEF r
        <5>3. Times(r, j, u) = Times(s, j, u)
          BY <1>2, <2>2, <3>5, OwnAppend DEF r
        <5> QED BY <4>5, <5>1, <5>2, <5>3
      <4>7. EntryGood(o, r, j)
        BY <4>4, <4>6 DEF EntryGood
      <4> QED BY <4>3, <4>7 DEF o
    <3> QED BY <3>4, <3>5
  <2>10. TabGood(w, r)
    BY <2>7, <2>8, <2>9 DEF TabGood
  <2>11. KeysOf(r) \subseteq TabKeys
    BY <1>1, <2>2, <2>3
  <2> HIDE DEF res
  <2>12. TabGood(res.pool, res.samples)
         /\ res.samples \in Seq(Samples) /\ KeysOf(res.samples) \subseteq TabKeys
    BY <2>1, <2>2, <2>10, <2>11
  <2> QED BY <2>12 DEF res, k, t, v
<1> QED BY <1>4, <1>5

\* So does a reset.
LEMMA EmptyGood ==
    KeysOf(<<>>) = {} /\ InsGood(<<>>, <<>>) /\ TabGood(<<>>, <<>>) /\ <<>> \in Seq(Samples)
<1>1. KeysOf(<<>>) = {} /\ DOMAIN <<>> = {}
    BY DEF KeysOf
<1> QED BY <1>1 DEF InsGood, TabGood

\* In every state, every pool is what its samples make of it.
THEOREM Invariance == Spec => []Inv
<1>1. Init => Inv
  <2> SUFFICES ASSUME Init PROVE Inv
    OBVIOUS
  <2>1. \A p \in Pools : pool[p] = <<>> /\ samples[p] = <<>>
    BY DEF Init
  <2>2. "tab" \in Pools /\ InsPools \subseteq Pools
    BY DEF Pools
  <2>3. TypeInv
    <3>1. pool = [p \in Pools |-> pool[p]] /\ samples \in [Pools -> Seq(Samples)]
      BY EmptyGood DEF Init
    <3>2. KeysOf(samples["tab"]) = {}
      BY <2>1, <2>2, EmptyGood
    <3> QED BY <3>1, <3>2 DEF TypeInv
  <2>4. \A p \in InsPools : InsGood(pool[p], samples[p])
    BY <2>1, <2>2, EmptyGood
  <2>5. TabGood(pool["tab"], samples["tab"])
    BY <2>1, <2>2, EmptyGood
  <2> QED BY <2>3, <2>4, <2>5 DEF Inv
<1>2. Inv /\ [Next]_vars => Inv'
  <2> SUFFICES ASSUME Inv, [Next]_vars PROVE Inv'
    OBVIOUS
  <2>1. /\ pool = [p \in Pools |-> pool[p]] /\ samples \in [Pools -> Seq(Samples)]
        /\ KeysOf(samples["tab"]) \subseteq TabKeys
        /\ \A p \in InsPools : InsGood(pool[p], samples[p])
        /\ TabGood(pool["tab"], samples["tab"])
    BY DEF Inv, TypeInv
  <2>2. /\ Pools = {"dml", "client", "conn", "tab"} /\ InsPools = {"dml", "client", "conn"}
        /\ \A p \in Pools : samples[p] \in Seq(Samples)
    BY <2>1 DEF Pools, InsPools
  <2>3. ASSUME \E f, h : /\ pool' = [p \in Pools |-> f[p]] /\ samples' = [p \in Pools |-> h[p]]
                         /\ \A p \in Pools : h[p] \in Seq(Samples)
                         /\ KeysOf(h["tab"]) \subseteq TabKeys
                         /\ \A p \in InsPools : InsGood(f[p], h[p])
                         /\ TabGood(f["tab"], h["tab"])
        PROVE  Inv'
    <3>1. PICK f, h : /\ pool' = [p \in Pools |-> f[p]] /\ samples' = [p \in Pools |-> h[p]]
                      /\ \A p \in Pools : h[p] \in Seq(Samples)
                      /\ KeysOf(h["tab"]) \subseteq TabKeys
                      /\ \A p \in InsPools : InsGood(f[p], h[p])
                      /\ TabGood(f["tab"], h["tab"])
      BY <2>3
    <3>2. \A p \in Pools : pool'[p] = f[p] /\ samples'[p] = h[p]
      BY <3>1
    <3>3. "tab" \in Pools /\ InsPools \subseteq Pools
      BY <2>2
    <3>4. pool' = [p \in Pools |-> pool'[p]] /\ samples' \in [Pools -> Seq(Samples)]
      BY <3>1
    <3>5. KeysOf(samples'["tab"]) \subseteq TabKeys /\ TabGood(pool'["tab"], samples'["tab"])
      BY <3>1, <3>2, <3>3
    <3>6. \A p \in InsPools : InsGood(pool'[p], samples'[p])
      BY <3>1, <3>2, <3>3
    <3> QED BY <3>4, <3>5, <3>6 DEF Inv, TypeInv
  <2>4. ASSUME NEW st \in Statements, Statement(st) PROVE Inv'
    <3> DEFINE a == ins_add("dml", [type |-> st.type, result |-> st.result], st.time)
    <3> DEFINE c == ins_add("client", [ip |-> st.ip, type |-> st.type], st.time)
    <3> DEFINE d == [pool |-> pool["conn"], samples |-> samples["conn"]]
    <3> DEFINE e == IF st.open = <<>> THEN [pool |-> pool["tab"], samples |-> samples["tab"]]
                    ELSE tab_add(collect(st), st.type, st.time)
    <3> DEFINE r == [dml |-> a, client |-> c, conn |-> d, tab |-> e]
    <3> DEFINE f == [p \in Pools |-> r[p].pool]
    <3> DEFINE h == [p \in Pools |-> r[p].samples]
    <3>1. pool' = f /\ samples' = h
      BY <2>4 DEF Statement
    <3>2. st.time \in 0..(DBL_MAX - 1)
      BY TabStatsAssumption
    <3>3. InsGood(a.pool, a.samples) /\ a.samples \in Seq(Samples)
      <4>1. [type |-> st.type, result |-> st.result] \in SampleKeys
        BY DEF SampleKeys
      <4>2. samples["dml"] \in Seq(Samples) /\ InsGood(pool["dml"], samples["dml"])
        BY <2>1, <2>2
      <4> QED BY <3>2, <4>1, <4>2, InsAddGood
    <3>4. InsGood(c.pool, c.samples) /\ c.samples \in Seq(Samples)
      <4>1. [ip |-> st.ip, type |-> st.type] \in SampleKeys
        BY DEF SampleKeys
      <4>2. samples["client"] \in Seq(Samples) /\ InsGood(pool["client"], samples["client"])
        BY <2>1, <2>2
      <4> QED BY <3>2, <4>1, <4>2, InsAddGood
    <3>5. InsGood(d.pool, d.samples) /\ d.samples \in Seq(Samples)
      BY <2>1, <2>2
    <3>6. /\ TabGood(e.pool, e.samples) /\ e.samples \in Seq(Samples)
          /\ KeysOf(e.samples) \subseteq TabKeys
      <4>1. CASE st.open = <<>>
        BY <2>1, <2>2, <4>1
      <4>2. CASE st.open # <<>>
        <5>1. e = tab_add(collect(st), st.type, st.time)
          BY <4>2
        <5>2. samples["tab"] \in Seq(Samples)
          BY <2>2
        <5> HIDE DEF e
        <5> QED BY <2>1, <5>1, <5>2, TabAddGood
      <4> QED BY <4>1, <4>2
    <3> HIDE DEF a, c, d, e
    <3>7. r["dml"] = a /\ r["client"] = c /\ r["conn"] = d /\ r["tab"] = e
      OBVIOUS
    <3> HIDE DEF r
    <3>8. /\ f["dml"] = a.pool /\ f["client"] = c.pool /\ f["conn"] = d.pool /\ f["tab"] = e.pool
          /\ h["dml"] = a.samples /\ h["client"] = c.samples
          /\ h["conn"] = d.samples /\ h["tab"] = e.samples
      BY <2>2, <3>7
    <3>9. pool' = [p \in Pools |-> f[p]] /\ samples' = [p \in Pools |-> h[p]]
      BY <3>1
    <3> HIDE DEF f, h
    <3>10. /\ \A p \in Pools : h[p] \in Seq(Samples)
           /\ KeysOf(h["tab"]) \subseteq TabKeys
           /\ \A p \in InsPools : InsGood(f[p], h[p])
           /\ TabGood(f["tab"], h["tab"])
      BY <2>2, <3>3, <3>4, <3>5, <3>6, <3>8
    <3> QED BY <2>3, <3>9, <3>10
  <2>5. ASSUME NEW c \in Connections, Connect(c) PROVE Inv'
    <3> DEFINE r == ins_add("conn", [ip |-> c.ip, result |-> c.result], c.time)
    <3> DEFINE f == [pool EXCEPT !["conn"] = r.pool]
    <3> DEFINE h == [samples EXCEPT !["conn"] = r.samples]
    <3>1. pool' = f /\ samples' = h
      BY <2>5 DEF Connect
    <3>2. InsGood(r.pool, r.samples) /\ r.samples \in Seq(Samples)
      <4>1. [ip |-> c.ip, result |-> c.result] \in SampleKeys
        BY DEF SampleKeys
      <4>2. samples["conn"] \in Seq(Samples) /\ InsGood(pool["conn"], samples["conn"])
        BY <2>1, <2>2
      <4>3. c.time \in 0..(DBL_MAX - 1)
        BY TabStatsAssumption
      <4> QED BY <4>1, <4>2, <4>3, InsAddGood
    <3> HIDE DEF r
    <3>3. pool' = [p \in Pools |-> f[p]] /\ samples' = [p \in Pools |-> h[p]]
      BY <2>1, <3>1
    <3>4. \A p \in Pools : /\ f[p] = IF p = "conn" THEN r.pool ELSE pool[p]
                           /\ h[p] = IF p = "conn" THEN r.samples ELSE samples[p]
      BY <2>1
    <3> HIDE DEF f, h
    <3>5. /\ \A p \in Pools : h[p] \in Seq(Samples)
          /\ KeysOf(h["tab"]) \subseteq TabKeys
          /\ \A p \in InsPools : InsGood(f[p], h[p])
          /\ TabGood(f["tab"], h["tab"])
      BY <2>1, <2>2, <3>2, <3>4
    <3> QED BY <2>3, <3>3, <3>5
  <2>6. ASSUME NEW q \in Pools, Reset(q) PROVE Inv'
    <3> DEFINE f == [pool EXCEPT ![q] = <<>>]
    <3> DEFINE h == [samples EXCEPT ![q] = <<>>]
    <3>1. pool' = f /\ samples' = h
      BY <2>6 DEF Reset
    <3>2. pool' = [p \in Pools |-> f[p]] /\ samples' = [p \in Pools |-> h[p]]
      BY <2>1, <3>1
    <3>3. \A p \in Pools : /\ f[p] = IF p = q THEN <<>> ELSE pool[p]
                           /\ h[p] = IF p = q THEN <<>> ELSE samples[p]
      BY <2>1
    <3> HIDE DEF f, h
    <3>4. /\ \A p \in Pools : h[p] \in Seq(Samples)
          /\ KeysOf(h["tab"]) \subseteq TabKeys
          /\ \A p \in InsPools : InsGood(f[p], h[p])
          /\ TabGood(f["tab"], h["tab"])
      BY <2>1, <2>2, <3>3, EmptyGood
    <3> QED BY <2>3, <3>2, <3>4
  <2>7. CASE UNCHANGED vars
    BY <2>7 DEF Inv, TypeInv, vars
  <2> QED BY <2>4, <2>5, <2>6, <2>7 DEF Next
<1> QED BY <1>1, <1>2, PTL DEF Spec

\* Every instance entry has the count, sum, smallest, largest and buckets of the
\* samples of its key since the reset.
THEOREM InsCorrect == Spec => []InsStatsDescribeSamples
<1>1. Inv => InsStatsDescribeSamples
  <2> SUFFICES ASSUME Inv, NEW p \in InsPools
               PROVE  /\ DOMAIN pool[p] = KeysOf(samples[p])
                      /\ \A k \in KeysOf(samples[p]) :
                            /\ Describes(pool[p][k], samples[p], k, 0)
                            /\ pool[p][k].min = Min(Times(samples[p], k, 0))
    BY DEF InsStatsDescribeSamples
  <2>1. samples[p] \in Seq(Samples) /\ InsGood(pool[p], samples[p])
    BY DEF Inv, TypeInv, Pools
  <2>2. DOMAIN pool[p] = KeysOf(samples[p])
    BY <2>1 DEF InsGood
  <2>3. ASSUME NEW k \in KeysOf(samples[p])
        PROVE  /\ Describes(pool[p][k], samples[p], k, 0)
               /\ pool[p][k].min = Min(Times(samples[p], k, 0))
    <3>1. Tells(pool[p][k], samples[p], k, 0) /\ IsMin(pool[p][k].min, Times(samples[p], k, 0))
      BY <2>1 DEF InsGood
    <3>2. Times(samples[p], k, 0) \in SUBSET Int
      BY <2>1, TimesType, SamplesTimed
    <3>3. Min(Times(samples[p], k, 0)) = pool[p][k].min
      BY <3>1, <3>2, MinIs
    <3> QED BY <2>1, <3>1, <3>3, TellsDescribes, SamplesTimed
  <2> QED BY <2>2, <2>3
<1> QED BY <1>1, Invariance, PTL

\* marshal_key fills exactly the buffer that marshal_size asked for.
THEOREM BufferCorrect == Spec => []FillsBuffer
<1>1. Inv => FillsBuffer
    BY DEF Inv, TabGood, FillsBuffer
<1> QED BY <1>1, Invariance, PTL

\* The dump of the table statistics shows what the samples say, unless a name of Half
\* bytes or more ends it.
THEOREM DumpCorrect == Spec => []TabDumpDescribesSamples
<1>1. Inv => TabDumpDescribesSamples
  <2> SUFFICES ASSUME Inv PROVE TabDumpDescribesSamples
    OBVIOUS
  <2> DEFINE m == pool["tab"]
  <2> DEFINE s == samples["tab"]
  <2> DEFINE long == \E k \in KeysOf(s) : \E i \in DOMAIN k._names :
                        Len(k._names[i]._db) >= Half \/ Len(k._names[i]._table) >= Half
  <2> DEFINE entry(k) == [key |-> k, stats |-> m[marshal_key(k)].stats]
  <2>1. s \in Seq(Samples) /\ KeysOf(s) \subseteq TabKeys /\ TabGood(m, s)
    BY DEF Inv, TypeInv, Pools
  <2>2. \A k \in KeysOf(s) : LegalKey(k)
    BY <2>1, CollectLegal DEF TabKeys
  <2>3. \A k \in KeysOf(s) : /\ ShortKey(k) => /\ de_marshal_key(marshal_key(k)).ok = TRUE
                                               /\ de_marshal_key(marshal_key(k)).key = k
                             /\ ~ShortKey(k) => de_marshal_key(marshal_key(k)).ok = FALSE
    BY <2>2, ReadBack, Zenon
  <2>4. long <=> \E k \in KeysOf(s) : ~ShortKey(k)
    <3>1. \A k \in KeysOf(s) : \A i \in DOMAIN k._names :
              ~ShortName(k._names[i]) <=> Len(k._names[i]._db) >= Half
                                          \/ Len(k._names[i]._table) >= Half
      <4> TAKE k \in KeysOf(s)
      <4> TAKE i \in DOMAIN k._names
      <4>1. Len(k._names[i]._db) \in 0..(2 * Half - 1)
            /\ Len(k._names[i]._table) \in 0..(2 * Half - 1)
        BY <2>2 DEF LegalKey, LegalName
      <4>2. Half \in Nat
        BY TabDmlAssumption
      <4> QED BY <4>1, <4>2 DEF ShortName
    <3> QED BY <3>1, Zenon DEF ShortKey
  <2>5. DOMAIN m = {marshal_key(k) : k \in KeysOf(s)}
    BY <2>1 DEF TabGood
  <2>6. /\ dump_tab_dml.ended = \E b \in DOMAIN m : ~de_marshal_key(b).ok
        /\ dump_tab_dml.shown =
             {[key |-> de_marshal_key(b).key, stats |-> m[b].stats] : b \in DOMAIN m}
    BY DEF dump_tab_dml
  <2>7. dump_tab_dml.ended <=> long
    <3>1. dump_tab_dml.ended <=> \E k \in KeysOf(s) : ~de_marshal_key(marshal_key(k)).ok
      BY <2>5, <2>6
    <3> QED BY <2>3, <2>4, <3>1
  <2>8. ASSUME ~long
        PROVE  /\ {e.key : e \in dump_tab_dml.shown} = KeysOf(s)
               /\ \A e \in dump_tab_dml.shown : \A t \in Types :
                     /\ Describes(e.stats[t], s, e.key, t)
                     /\ e.stats[t].min = IF t = Creator(s, e.key) THEN Min(Times(s, e.key, t))
                                                                  ELSE 0
    <3>1. \A k \in KeysOf(s) : ShortKey(k) /\ de_marshal_key(marshal_key(k)).key = k
      BY <2>3, <2>4, <2>8
    <3>2. dump_tab_dml.shown = {entry(k) : k \in KeysOf(s)}
      <4>1. dump_tab_dml.shown = {[key |-> de_marshal_key(marshal_key(k)).key,
                                   stats |-> m[marshal_key(k)].stats] : k \in KeysOf(s)}
        <5> HIDE DEF m, s
        <5> QED BY <2>5, <2>6
      <4> HIDE DEF m, s
      <4> QED BY <3>1, <4>1
    <3>3. {e.key : e \in dump_tab_dml.shown} = KeysOf(s)
      <4> DEFINE D == dump_tab_dml.shown
      <4>1. \A k \in KeysOf(s) : entry(k) \in D /\ entry(k).key = k
        BY <3>2
      <4>2. \A e \in D : e.key \in KeysOf(s)
        BY <3>2
      <4> HIDE DEF D, s, entry
      <4>3. \A k \in KeysOf(s) : k \in {e.key : e \in D}
        BY <4>1
      <4>4. \A k \in {e.key : e \in D} : k \in KeysOf(s)
        BY <4>2
      <4> QED BY <4>3, <4>4, Zenon DEF D
    <3>4. \A k \in KeysOf(s) : EntryGood(m[marshal_key(k)].stats, s, k)
      BY <2>1, <3>1 DEF TabGood
    <3>5. ASSUME NEW e \in dump_tab_dml.shown, NEW t \in Types
          PROVE  /\ Describes(e.stats[t], s, e.key, t)
                 /\ e.stats[t].min = IF t = Creator(s, e.key) THEN Min(Times(s, e.key, t)) ELSE 0
      <4>1. PICK k \in KeysOf(s) : e.key = k /\ e.stats = m[marshal_key(k)].stats
        BY <3>2
      <4> HIDE DEF s, m
      <4>2. /\ Tells(e.stats[t], s, k, t)
            /\ IF t = Creator(s, k) THEN IsMin(e.stats[t].min, Times(s, k, t))
                                    ELSE e.stats[t].min = 0
        BY <3>4, <4>1 DEF EntryGood
      <4>3. Describes(e.stats[t], s, k, t)
        BY <2>1, <4>2, TellsDescribes, SamplesTimed
      <4>4. Times(s, k, t) \in SUBSET Int
        BY <2>1, TimesType, SamplesTimed
      <4>5. t = Creator(s, k) => Min(Times(s, k, t)) = e.stats[t].min
        BY <4>2, <4>4, MinIs
      <4> QED BY <4>1, <4>2, <4>3, <4>5
    <3> QED BY <3>3, <3>5
  <2> HIDE DEF long
  <2> QED BY <2>7, <2>8 DEF TabDumpDescribesSamples, long
<1> QED BY <1>1, Invariance, PTL
=============================================================================
