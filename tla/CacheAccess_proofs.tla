------------------------- MODULE CacheAccess_proofs -------------------------
(***************************************************************************)
(* Proofs about one pool (CacheAccess, HashMap, ChunkAlloc) for every      *)
(* number of nodes, chunks, buckets and keys and every chunk size.         *)
(*                                                                         *)
(* A pool is links in memory; the properties are about the lists the links *)
(* make.  The invariant WF says that such lists exist: A (the add list), B *)
(* (one list per bucket), F (the free nodes), C (one chain of chunks per   *)
(* used node) and G (the free chunks), with Shape(pool, A, B, F, C, G).    *)
(* The parts, in order: lists and what a store through a link does to      *)
(* them; the nodes' lists; the chunks' chains, with the loops of malloc    *)
(* and free; the operations of the map and of CacheAccess, with their      *)
(* loops; the invariant; and what the properties of the runs say of a pool *)
(* that has a shape.                                                       *)
(***************************************************************************)
EXTENDS CacheAccess, FiniteSetTheorems, FunctionTheorems, SequenceTheorems, TLAPS

-----------------------------------------------------------------------------
(* Induction and lists.                                                    *)

\* Induction over the natural numbers, stated of a set.
LEMMA NatInd ==
    ASSUME NEW S, 0 \in S, \A n \in Nat : n \in S => n + 1 \in S
    PROVE  Nat \subseteq S
<1> SUFFICES ASSUME NEW m \in Nat, m \notin S PROVE FALSE
    OBVIOUS
<1> DEFINE T == {i \in 0..m : i \notin S}
<1> DEFINE f == [i \in T |-> i - 1]
<1>1. IsFiniteSet(T) /\ m \in T
  <2>1. IsFiniteSet(0..m) BY FS_Interval
  <2>2. T \subseteq 0..m OBVIOUS
  <2> QED BY <2>1, <2>2, FS_Subset
<1>2. \A i \in T : i - 1 \in T \ {m}
  <2> TAKE i \in T
  <2>1. i \in Nat /\ i # 0 /\ i <= m OBVIOUS
  <2>2. i - 1 \in Nat /\ i - 1 + 1 = i /\ i - 1 < m BY <2>1
  <2>3. i - 1 \notin S BY <2>2
  <2> QED BY <2>2, <2>3
<1>3. f \in Injection(T, T \ {m})
  <2>1. f \in [T -> T \ {m}] BY <1>2
  <2>2. \A i, j \in T : f[i] = f[j] => i = j OBVIOUS
  <2> QED BY <2>1, <2>2 DEF Injection, IsInjective
<1>4. IsFiniteSet(T \ {m}) /\ Cardinality(T \ {m}) = Cardinality(T) - 1
  BY <1>1, FS_RemoveElement
<1>5. Cardinality(T) <= Cardinality(T \ {m})
  <2> HIDE DEF f, T
  <2> QED BY <1>3, <1>4, FS_Injection DEF ExistsInjection
<1>6. Cardinality(T) \in Nat BY <1>1, FS_CardinalityType
<1> HIDE DEF T
<1> QED BY <1>4, <1>5, <1>6

\* The same for the numbers up to N.
LEMMA BoundedInd ==
    ASSUME NEW N \in Nat, NEW S, 0 \in S, \A n \in 0..(N - 1) : n \in S => n + 1 \in S
    PROVE  \A n \in 0..N : n \in S
<1> DEFINE T == {n \in Nat : n <= N => n \in S}
<1>1. 0 \in T
    OBVIOUS
<1>2. ASSUME NEW n \in Nat, n \in T PROVE n + 1 \in T
  <2> SUFFICES ASSUME n + 1 <= N PROVE n + 1 \in S
    OBVIOUS
  <2>1. n \in 0..(N - 1) /\ n <= N
    OBVIOUS
  <2>2. n \in S
    BY <1>2, <2>1
  <2> QED BY <2>1, <2>2
<1>3. Nat \subseteq T
  <2> HIDE DEF T
  <2> QED BY <1>1, <1>2, NatInd
<1> TAKE n \in 0..N
<1>4. n \in Nat /\ n <= N
    OBVIOUS
<1> QED BY <1>3, <1>4

-----------------------------------------------------------------------------
(* Folds.                                                                  *)

\* A choice of an element for each non-empty subset of S.
IsChoice(ch, S) == \A s \in SUBSET S : s # {} => ch[s] \in s

\* X holds the empty set and, with a set less the chosen element, the set.
Inductive(X, S, ch) ==
    /\ {} \in X
    /\ \A s \in SUBSET S : s # {} /\ s \ {ch[s]} \in X => s \in X

\* Induction over the subsets of a finite set, along a choice.
LEMMA SubsetInd ==
    ASSUME NEW S, IsFiniteSet(S), NEW ch, IsChoice(ch, S), NEW X, Inductive(X, S, ch)
    PROVE  SUBSET S \subseteq X
<1>x. /\ {} \in X
      /\ \A s \in SUBSET S : s # {} /\ s \ {ch[s]} \in X => s \in X
    BY DEF Inductive
<1> DEFINE P(n) == \A s \in SUBSET S : Cardinality(s) = n => s \in X
<1> DEFINE T == {n \in Nat : P(n)}
<1>1. \A s \in SUBSET S : IsFiniteSet(s) /\ Cardinality(s) \in Nat
    BY FS_Subset, FS_CardinalityType
<1>2. P(0)
  <2> SUFFICES ASSUME NEW s \in SUBSET S, Cardinality(s) = 0 PROVE s \in X
    OBVIOUS
  <2>1. s = {}
    BY <1>1, FS_EmptySet
  <2> QED BY <1>x, <2>1
<1>3. ASSUME NEW n \in Nat, P(n) PROVE P(n + 1)
  <2> SUFFICES ASSUME NEW s \in SUBSET S, Cardinality(s) = n + 1 PROVE s \in X
    OBVIOUS
  <2>1. s # {}
    BY FS_EmptySet
  <2>2. ch[s] \in s
    BY <2>1 DEF IsChoice
  <2>3. Cardinality(s \ {ch[s]}) = n
    <3>1. IsFiniteSet(s)
      BY <1>1
    <3>2. Cardinality(s \ {ch[s]}) = Cardinality(s) - 1
      BY <2>2, <3>1, FS_RemoveElement
    <3> QED BY <3>2
  <2>4. s \ {ch[s]} \in SUBSET S
    OBVIOUS
  <2> QED BY <1>3, <1>x, <2>1, <2>3, <2>4
<1>4. Nat \subseteq T
  <2> HIDE DEF P
  <2>1. 0 \in T /\ \A n \in Nat : n \in T => n + 1 \in T
    BY <1>2, <1>3
  <2> HIDE DEF T
  <2> QED BY <2>1, NatInd
<1> QED BY <1>1, <1>4

\* h folds G over the subsets of S.
IsFold(h, S, ch, b, G) ==
    /\ h = [s \in SUBSET S |-> h[s]]
    /\ \A s \in SUBSET S : h[s] = IF s = {} THEN b ELSE G[<<ch[s], h[s \ {ch[s]}]>>]

\* A fold over a finite set exists: the recursive definition has a solution.
LEMMA FoldExists ==
    ASSUME NEW S, IsFiniteSet(S), NEW ch, IsChoice(ch, S), NEW b, NEW G
    PROVE  \E h : IsFold(h, S, ch, b, G)
<1> DEFINE Sub(n) == {s \in SUBSET S : Cardinality(s) <= n}
<1> DEFINE Solves(h, n) == \A s \in Sub(n) : h[s] = IF s = {} THEN b ELSE G[<<ch[s], h[s \ {ch[s]}]>>]
<1> DEFINE P(n) == \E h : Solves(h, n)
<1> DEFINE T == {n \in Nat : P(n)}
<1>1. \A s \in SUBSET S : IsFiniteSet(s) /\ Cardinality(s) \in Nat
    BY FS_Subset, FS_CardinalityType
<1>2. \A s \in SUBSET S : s # {} => /\ s \ {ch[s]} \in SUBSET S
                                    /\ Cardinality(s \ {ch[s]}) = Cardinality(s) - 1
    BY <1>1, FS_RemoveElement DEF IsChoice
<1>3. P(0)
  <2> DEFINE h == [s \in SUBSET S |-> b]
  <2>1. \A s \in Sub(0) : s = {}
    BY <1>1, FS_EmptySet
  <2>2. Solves(h, 0)
    BY <2>1
  <2> QED BY <2>2
<1>4. ASSUME NEW n \in Nat, P(n) PROVE P(n + 1)
  <2>1. PICK g : Solves(g, n)
    BY <1>4
  <2> DEFINE h == [s \in SUBSET S |-> IF s = {} THEN b ELSE G[<<ch[s], g[s \ {ch[s]}]>>]]
  <2>2. \A s \in Sub(n) : h[s] = g[s]
    BY <2>1
  <2>3. ASSUME NEW s \in Sub(n + 1), s # {} PROVE s \ {ch[s]} \in Sub(n)
    BY <1>1, <1>2, <2>3
  <2>4. Solves(h, n + 1)
    <3> SUFFICES ASSUME NEW s \in Sub(n + 1)
                 PROVE  h[s] = IF s = {} THEN b ELSE G[<<ch[s], h[s \ {ch[s]}]>>]
      OBVIOUS
    <3>1. s \in SUBSET S
      OBVIOUS
    <3>2. CASE s = {}
      BY <3>1, <3>2
    <3>3. CASE s # {}
      <4>1. h[s \ {ch[s]}] = g[s \ {ch[s]}]
        BY <2>2, <2>3, <3>3, Zenon
      <4>2. h[s] = G[<<ch[s], g[s \ {ch[s]}]>>]
        BY <3>1, <3>3
      <4> HIDE DEF h
      <4> QED BY <3>3, <4>1, <4>2
    <3> QED BY <3>2, <3>3
  <2> HIDE DEF Solves, h
  <2> QED BY <2>4
<1>5. Cardinality(S) \in Nat /\ P(Cardinality(S))
  <2> HIDE DEF P
  <2>1. 0 \in T /\ \A n \in Nat : n \in T => n + 1 \in T
    BY <1>3, <1>4
  <2>2. Nat \subseteq T
    <3> HIDE DEF T
    <3> QED BY <2>1, NatInd
  <2> QED BY <2>2, FS_CardinalityType
<1>6. PICK g : Solves(g, Cardinality(S))
    BY <1>5
<1>7. \A s \in SUBSET S : s \in Sub(Cardinality(S))
    BY FS_Subset
<1> DEFINE h == [s \in SUBSET S |-> g[s]]
<1>8. h = [s \in SUBSET S |-> h[s]]
    OBVIOUS
<1>9. ASSUME NEW s \in SUBSET S PROVE h[s] = IF s = {} THEN b ELSE G[<<ch[s], h[s \ {ch[s]}]>>]
  <2>1. h[s] = g[s] /\ h[s \ {ch[s]}] = g[s \ {ch[s]}]
    <3>1. s \ {ch[s]} \in SUBSET S
      OBVIOUS
    <3> QED BY <3>1
  <2>2. g[s] = IF s = {} THEN b ELSE G[<<ch[s], g[s \ {ch[s]}]>>]
    BY <1>6, <1>7
  <2> HIDE DEF h
  <2> QED BY <2>1, <2>2
<1> HIDE DEF h
<1> QED BY <1>8, <1>9 DEF IsFold

-----------------------------------------------------------------------------
(* Walks along next pointers.                                              *)

\* w[i] walks the pointers nx from a handle of D, for at most i steps.
IsWalk(w, D, nx, N, e, G) ==
    /\ w = [i \in 0..N |-> [p \in D \cup {Nil} |-> w[i][p]]]
    /\ \A i \in 0..N : \A p \in D \cup {Nil} :
           w[i][p] = IF p = Nil \/ i = 0 THEN e ELSE G[<<p, w[i - 1][nx[p]]>>]

\* Such a walk exists.
LEMMA WalkExists ==
    ASSUME NEW D, Nil \notin D, NEW nx \in [D -> D \cup {Nil}], NEW N \in Nat, NEW e, NEW G
    PROVE  \E w : IsWalk(w, D, nx, N, e, G)
<1> DEFINE E == D \cup {Nil}
<1> DEFINE Solves(w, n) == \A i \in 0..n : \A p \in E :
               w[i][p] = IF p = Nil \/ i = 0 THEN e ELSE G[<<p, w[i - 1][nx[p]]>>]
<1> DEFINE P(n) == \E w : Solves(w, n)
<1> DEFINE T == {n \in Nat : P(n)}
<1>1. P(0)
  <2> DEFINE w == [i \in {0} |-> [p \in E |-> e]]
  <2>1. Solves(w, 0)
    OBVIOUS
  <2> QED BY <2>1
<1>2. ASSUME NEW n \in Nat, P(n) PROVE P(n + 1)
  <2>1. PICK g : Solves(g, n)
    BY <1>2
  <2> DEFINE w == [i \in 0..(n + 1) |-> [p \in E |->
                     IF p = Nil \/ i = 0 THEN e ELSE G[<<p, g[i - 1][nx[p]]>>]]]
  <2>2. \A i \in 0..n : \A p \in E : w[i][p] = g[i][p]
    BY <2>1
  <2>3. Solves(w, n + 1)
    <3> SUFFICES ASSUME NEW i \in 0..(n + 1), NEW p \in E
                 PROVE  w[i][p] = IF p = Nil \/ i = 0 THEN e ELSE G[<<p, w[i - 1][nx[p]]>>]
      OBVIOUS
    <3>1. w[i][p] = IF p = Nil \/ i = 0 THEN e ELSE G[<<p, g[i - 1][nx[p]]>>]
      OBVIOUS
    <3>2. CASE p = Nil \/ i = 0
      BY <3>1, <3>2
    <3>3. CASE ~(p = Nil \/ i = 0)
      <4>1. nx[p] \in E /\ i - 1 \in 0..n
        BY <3>3
      <4>2. w[i - 1][nx[p]] = g[i - 1][nx[p]]
        BY <2>2, <4>1, Zenon
      <4> HIDE DEF w
      <4> QED BY <3>1, <3>3, <4>2
    <3> QED BY <3>2, <3>3
  <2> HIDE DEF Solves, w
  <2> QED BY <2>3
<1>3. P(N)
  <2> HIDE DEF P
  <2>1. 0 \in T /\ \A n \in Nat : n \in T => n + 1 \in T
    BY <1>1, <1>2
  <2>2. Nat \subseteq T
    <3> HIDE DEF T
    <3> QED BY <2>1, NatInd
  <2> QED BY <2>2
<1>4. PICK g : Solves(g, N)
    BY <1>3
<1> DEFINE w == [i \in 0..N |-> [p \in E |-> g[i][p]]]
<1>5. \A i \in 0..N : \A p \in E : w[i][p] = g[i][p]
    OBVIOUS
<1>6. w = [i \in 0..N |-> [p \in E |-> w[i][p]]]
    OBVIOUS
<1>7. ASSUME NEW i \in 0..N, NEW p \in E
      PROVE  w[i][p] = IF p = Nil \/ i = 0 THEN e ELSE G[<<p, w[i - 1][nx[p]]>>]
  <2>1. g[i][p] = IF p = Nil \/ i = 0 THEN e ELSE G[<<p, g[i - 1][nx[p]]>>]
    BY <1>4
  <2>2. CASE p = Nil \/ i = 0
    BY <1>5, <2>1, <2>2
  <2>3. CASE ~(p = Nil \/ i = 0)
    <3>1. nx[p] \in E /\ i - 1 \in 0..N
      BY <2>3
    <3>2. w[i - 1][nx[p]] = g[i - 1][nx[p]] /\ w[i][p] = g[i][p]
      BY <1>5, <3>1, Zenon
    <3> HIDE DEF w
    <3> QED BY <2>1, <2>3, <3>2
  <2> QED BY <2>2, <2>3
<1> HIDE DEF w
<1> QED BY <1>6, <1>7 DEF IsWalk

-----------------------------------------------------------------------------
(* Lists.                                                                  *)

\* The members of a sequence.
Ran(s) == {s[i] : i \in 1..Len(s)}

\* The list from head along nx is the sequence s, without repetition.
IsList(D, nx, head, s) ==
    /\ s \in Seq(D)
    /\ \A i, j \in 1..Len(s) : s[i] = s[j] => i = j
    /\ head = IF Len(s) = 0 THEN Nil ELSE s[1]
    /\ \A i \in 1..Len(s) : nx[s[i]] = IF i = Len(s) THEN Nil ELSE s[i + 1]

\* The pointers pv lead back.
IsBack(pv, s) == \A i \in 1..Len(s) : pv[s[i]] = IF i = 1 THEN Nil ELSE s[i - 1]

\* A list in a finite set is not longer than the set is large.
LEMMA ListBound ==
    ASSUME NEW D, IsFiniteSet(D), NEW nx, NEW head, NEW s, IsList(D, nx, head, s)
    PROVE  /\ Len(s) \in Nat /\ Len(s) <= Cardinality(D) /\ Cardinality(D) \in Nat
           /\ IsFiniteSet(Ran(s)) /\ Cardinality(Ran(s)) = Len(s) /\ Ran(s) \subseteq D
<1>1. s \in Seq(D) /\ Len(s) \in Nat /\ DOMAIN s = 1..Len(s) /\ \A i \in 1..Len(s) : s[i] \in D
    BY DEF IsList
<1>2. s \in [1..Len(s) -> Ran(s)] /\ Ran(s) \subseteq D
    BY <1>1 DEF Ran
<1>3. s \in Injection(1..Len(s), Ran(s))
    BY <1>2 DEF Injection, IsInjective, IsList
<1>4. s \in Surjection(1..Len(s), Ran(s))
    BY <1>2 DEF Surjection, Ran
<1>5. IsFiniteSet(1..Len(s)) /\ Cardinality(1..Len(s)) = Len(s)
  <2>1. 1 \in Int /\ Len(s) \in Int
    BY <1>1
  <2>2. IsFiniteSet(1..Len(s)) /\ Cardinality(1..Len(s)) = IF 1 > Len(s) THEN 0 ELSE Len(s) - 1 + 1
    BY <2>1, FS_Interval
  <2> QED BY <1>1, <2>2
<1>6. IsFiniteSet(Ran(s)) /\ Cardinality(Ran(s)) = Cardinality(1..Len(s))
    BY <1>3, <1>4, <1>5, FS_Surjection
<1>7. Cardinality(Ran(s)) <= Cardinality(D)
    BY <1>2, FS_Subset
<1> QED BY <1>1, <1>2, <1>5, <1>6, <1>7, FS_CardinalityType

\* The walk of Chain.
IsChainWalk(h, D, nx, N) ==
    h = [i \in 0..N |-> [p \in D \cup {Nil} |->
            IF p = Nil \/ i = 0 THEN <<>> ELSE <<p>> \o h[i - 1][nx[p]]]]

\* Such a walk exists.
LEMMA ChainWalkExists ==
    ASSUME NEW D, Nil \notin D, NEW nx \in [D -> D \cup {Nil}], NEW N \in Nat
    PROVE  \E h : IsChainWalk(h, D, nx, N)
<1> DEFINE E == D \cup {Nil}
<1> DEFINE V == Seq(D)
<1> DEFINE G == [q \in D \X V |-> <<q[1]>> \o q[2]]
<1>1. PICK w : IsWalk(w, D, nx, N, <<>>, G)
  <2> HIDE DEF G
  <2> QED BY WalkExists
<1>2. \A i \in 0..N : \A p \in E : w[i][p] = IF p = Nil \/ i = 0 THEN <<>> ELSE G[<<p, w[i - 1][nx[p]]>>]
    BY <1>1, Zenon DEF IsWalk
<1>3. \A p \in D : \A v \in V : G[<<p, v>>] = <<p>> \o v
    OBVIOUS
<1>4. \A p \in D : \A v \in V : <<p>> \o v \in V
    OBVIOUS
<1> HIDE DEF G
<1> DEFINE X == {i \in 0..N : \A p \in E : w[i][p] \in V}
<1>5. 0 \in X
  <2>1. 0 \in 0..N /\ <<>> \in V
    OBVIOUS
  <2>2. \A p \in E : w[0][p] = <<>>
    BY <1>2, <2>1, Zenon
  <2> QED BY <2>1, <2>2, Zenon
<1>6. ASSUME NEW n \in 0..(N - 1), n \in X PROVE n + 1 \in X
  <2>1. n + 1 \in 0..N /\ n + 1 # 0 /\ (n + 1) - 1 = n /\ <<>> \in V
    OBVIOUS
  <2>2. ASSUME NEW p \in E PROVE w[n + 1][p] \in V
    <3>0. w[n + 1][p] = IF p = Nil \/ n + 1 = 0 THEN <<>> ELSE G[<<p, w[(n + 1) - 1][nx[p]]>>]
      BY <1>2, <2>1, Zenon
    <3>1. CASE p = Nil
      BY <3>0, <2>1, <3>1, Zenon
    <3>2. CASE p # Nil
      <4>1. p \in D /\ nx[p] \in E
        BY <3>2
      <4>2. w[n][nx[p]] \in V
        BY <1>6, <4>1, Zenon
      <4>3. w[n + 1][p] = G[<<p, w[n][nx[p]]>>]
        BY <2>1, <3>0, <3>2, Zenon
      <4> DEFINE v == w[n][nx[p]]
      <4> HIDE DEF V, v
      <4>4. G[<<p, v>>] = <<p>> \o v /\ <<p>> \o v \in V
        BY <1>3, <1>4, <4>1, <4>2, Zenon DEF v
      <4>5. G[<<p, v>>] \in V
        BY <4>4
      <4> QED BY <4>3, <4>5, Zenon DEF v
    <3> QED BY <3>1, <3>2
  <2> QED BY <2>1, <2>2, Zenon
<1>7. \A n \in 0..N : n \in X
  <2> HIDE DEF X
  <2> QED BY <1>5, <1>6, BoundedInd
<1>8. ASSUME NEW i \in 0..N, NEW p \in E
      PROVE  w[i][p] = IF p = Nil \/ i = 0 THEN <<>> ELSE <<p>> \o w[i - 1][nx[p]]
  <2>1. CASE p = Nil \/ i = 0
    BY <1>2, <2>1
  <2>2. CASE ~(p = Nil \/ i = 0)
    <3>1. p \in D /\ nx[p] \in E /\ i - 1 \in 0..N
      BY <2>2
    <3>2. w[i - 1][nx[p]] \in V
      BY <1>7, <3>1, Zenon
    <3> DEFINE v == w[i - 1][nx[p]]
    <3>3. w[i][p] = G[<<p, v>>]
      BY <1>2, <2>2
    <3> HIDE DEF V, v
    <3>4. G[<<p, v>>] = <<p>> \o v
      BY <1>3, <3>1, <3>2, Zenon DEF v
    <3>5. w[i][p] = <<p>> \o v
      BY <3>3, <3>4, Zenon
    <3> QED BY <2>2, <3>5, Zenon DEF v
  <2> QED BY <2>1, <2>2
<1>9. w = [i \in 0..N |-> [p \in E |-> w[i][p]]]
    BY <1>1 DEF IsWalk
<1>10. [i \in 0..N |-> [p \in E |-> w[i][p]]] =
       [i \in 0..N |-> [p \in E |-> IF p = Nil \/ i = 0 THEN <<>> ELSE <<p>> \o w[i - 1][nx[p]]]]
    BY <1>8, Zenon
<1> QED BY <1>9, <1>10, Zenon DEF IsChainWalk

\* The chain is what the walk says from its head.
LEMMA ChainByWalk ==
    ASSUME NEW D, IsFiniteSet(D), Nil \notin D, NEW nx \in [D -> D \cup {Nil}], NEW head
    PROVE  \E h : /\ IsChainWalk(h, D, nx, Cardinality(D) + 1)
                  /\ Chain(nx, head) = h[Cardinality(D) + 1][head]
<1> DEFINE N == Cardinality(DOMAIN nx) + 1
<1> DEFINE h == CHOOSE w : w = [i \in 0..N |-> [p \in DOMAIN nx \cup {Nil} |->
                     IF p = Nil \/ i = 0 THEN <<>> ELSE <<p>> \o w[i - 1][nx[p]]]]
<1>1. DOMAIN nx = D
    OBVIOUS
<1>2. N \in Nat /\ N = Cardinality(D) + 1
    BY <1>1, FS_CardinalityType
<1>3. Chain(nx, head) = h[N][head]
    BY DEF Chain
<1>4. h = CHOOSE w : IsChainWalk(w, D, nx, N)
  <2> HIDE DEF N
  <2> QED BY <1>1 DEF IsChainWalk
<1> HIDE DEF N, h
<1>5. \E w : IsChainWalk(w, D, nx, N)
    BY <1>2, ChainWalkExists
<1>6. IsChainWalk(h, D, nx, N)
    BY <1>4, <1>5, Zenon
<1> QED BY <1>2, <1>3, <1>6

\* The chain from the head of a list is the list.
LEMMA ChainIs ==
    ASSUME NEW D, IsFiniteSet(D), Nil \notin D, NEW nx \in [D -> D \cup {Nil}],
           NEW head, NEW s, IsList(D, nx, head, s)
    PROVE  Chain(nx, head) = s
<1> DEFINE N == Cardinality(D) + 1
<1> DEFINE L == Len(s)
<1> DEFINE E == D \cup {Nil}
<1>1. N \in Nat /\ L \in Nat /\ L < N
    BY ListBound
<1>2. PICK h : IsChainWalk(h, D, nx, N) /\ Chain(nx, head) = h[N][head]
    BY ChainByWalk
<1> HIDE DEF N
<1>3. \A i \in 0..N : \A p \in E : h[i][p] = IF p = Nil \/ i = 0 THEN <<>> ELSE <<p>> \o h[i - 1][nx[p]]
  <2> DEFINE Body(i, p) == IF p = Nil \/ i = 0 THEN <<>> ELSE <<p>> \o h[i - 1][nx[p]]
  <2>1. h = [i \in 0..N |-> [p \in E |-> Body(i, p)]]
    BY <1>2 DEF IsChainWalk
  <2> HIDE DEF Body
  <2>2. \A i \in 0..N : \A p \in E : h[i][p] = Body(i, p)
    BY <2>1
  <2> QED BY <2>2 DEF Body
<1>4. \A i \in 0..N : h[i][Nil] = <<>>
    BY <1>3
<1>5. \A i \in 1..N : \A p \in D : h[i][p] = <<p>> \o h[i - 1][nx[p]]
  <2> TAKE i \in 1..N
  <2> TAKE p \in D
  <2>1. i \in 0..N /\ i # 0 /\ p # Nil /\ p \in E
    BY <1>1
  <2> QED BY <1>3, <2>1, Zenon
<1>6. /\ \A i \in 1..L : s[i] \in D /\ nx[s[i]] = IF i = L THEN Nil ELSE s[i + 1]
      /\ head = IF L = 0 THEN Nil ELSE s[1]
      /\ s \in Seq(D)
    BY DEF IsList
<1> DEFINE Q(k) == h[N - (L - k)][s[L - k + 1]] = SubSeq(s, L - k + 1, L)
<1> DEFINE X == {k \in 0..L : k = 0 \/ Q(k)}
<1> HIDE DEF L
<1>7. 0 \in X
    BY <1>1
<1>8. ASSUME NEW k \in 0..(L - 1), k \in X PROVE k + 1 \in X
  <2>1. PICK j \in 1..L : j = L - k
    BY <1>1
  <2>2. PICK i \in 1..N : i = N - (L - (k + 1))
    BY <1>1
  <2>3. k + 1 \in 0..L /\ L - (k + 1) + 1 = j
    BY <1>1, <2>1
  <2>4. s[j] \in D
    BY <1>6
  <2>5. h[i][s[j]] = <<s[j]>> \o h[i - 1][nx[s[j]]]
    BY <1>5, <2>4
  <2>6. i - 1 \in 0..N
    BY <1>1
  <2>7. h[i][s[j]] = SubSeq(s, j, L)
    <3>1. CASE k = 0
      <4>1. j = L /\ nx[s[j]] = Nil
        BY <1>1, <1>6, <2>1, <3>1
      <4>2. h[i - 1][nx[s[j]]] = <<>>
        BY <1>4, <2>6, <4>1, Zenon
      <4>3. SubSeq(s, L, L) = <<s[L]>> \o <<>>
        <5>1. L \in 1..Len(s) /\ s[L] \in D
          BY <1>6, <2>1, <2>4, <4>1 DEF L
        <5>2. L \in L..Len(s)
          BY <5>1
        <5>3. SubSeq(s, L, L) = <<s[L]>> \o SubSeq(s, L + 1, L)
          BY <1>6, <5>1, <5>2, SubSeqRecursiveFirst
        <5>4. SubSeq(s, L + 1, L) = <<>>
          BY <1>1, SubSeqEmpty
        <5> QED BY <5>3, <5>4
      <4> QED BY <2>5, <4>1, <4>2, <4>3, Zenon
    <3>2. CASE k # 0
      <4>1. j # L /\ j + 1 = L - k + 1 /\ i - 1 = N - (L - k) /\ j + 1 \in 1..L
        BY <1>1, <2>1, <2>2, <3>2
      <4>2. nx[s[j]] = s[j + 1]
        BY <1>6, <4>1
      <4>3. Q(k)
        BY <1>8, <3>2
      <4>4. h[i - 1][s[j + 1]] = SubSeq(s, j + 1, L)
        BY <4>1, <4>3, Zenon
      <4>5. SubSeq(s, j, L) = <<s[j]>> \o SubSeq(s, j + 1, L)
        BY <1>1, <1>6, <4>1 DEF L
      <4> QED BY <2>5, <4>2, <4>4, <4>5, Zenon
    <3> QED BY <3>1, <3>2
  <2>8. Q(k + 1)
    BY <2>2, <2>3, <2>7, Zenon
  <2> QED BY <2>3, <2>8, Zenon
<1>9. \A k \in 0..L : k \in X
  <2> HIDE DEF X
  <2> QED BY <1>1, <1>7, <1>8, BoundedInd
<1>10. CASE L = 0
  <2>1. s = <<>> /\ head = Nil
    BY <1>6, <1>10 DEF L
  <2>2. h[N][Nil] = <<>>
    <3>1. N \in 0..N
      BY <1>1
    <3> QED BY <1>4, <3>1
  <2> QED BY <1>2, <2>1, <2>2
<1>11. CASE L # 0
  <2>1. L \in 0..L /\ L - L + 1 = 1 /\ N - (L - L) = N /\ head = s[1]
    BY <1>1, <1>6, <1>11
  <2>2. Q(L)
    BY <1>9, <1>11, <2>1
  <2>3. h[N][s[1]] = SubSeq(s, 1, L)
    BY <2>1, <2>2, Zenon
  <2>4. SubSeq(s, 1, L) = s
    BY <1>1, <1>6 DEF L
  <2> QED BY <1>2, <2>1, <2>3, <2>4
<1> QED BY <1>10, <1>11

\* The walk that looks for a handle of T.
IsFindWalk(h, D, nx, N, T) ==
    h = [i \in 0..N |-> [p \in D \cup {Nil} |->
            IF p = Nil \/ i = 0 THEN Nil ELSE IF p \in T THEN p ELSE h[i - 1][nx[p]]]]

\* Such a walk exists.
LEMMA FindWalkExists ==
    ASSUME NEW D, Nil \notin D, NEW nx \in [D -> D \cup {Nil}], NEW N \in Nat, NEW T
    PROVE  \E h : IsFindWalk(h, D, nx, N, T)
<1> DEFINE E == D \cup {Nil}
<1> DEFINE G == [q \in D \X E |-> IF q[1] \in T THEN q[1] ELSE q[2]]
<1>1. PICK w : IsWalk(w, D, nx, N, Nil, G)
  <2> HIDE DEF G
  <2> QED BY WalkExists
<1>2. \A i \in 0..N : \A p \in E : w[i][p] = IF p = Nil \/ i = 0 THEN Nil ELSE G[<<p, w[i - 1][nx[p]]>>]
    BY <1>1, Zenon DEF IsWalk
<1>3. \A p \in D : \A v \in E : G[<<p, v>>] = IF p \in T THEN p ELSE v
    OBVIOUS
<1> HIDE DEF G
<1> DEFINE X == {i \in 0..N : \A p \in E : w[i][p] \in E}
<1>5. 0 \in X
  <2>1. 0 \in 0..N /\ Nil \in E
    OBVIOUS
  <2>2. \A p \in E : w[0][p] = Nil
    BY <1>2, <2>1, Zenon
  <2> QED BY <2>1, <2>2
<1>6. ASSUME NEW n \in 0..(N - 1), n \in X PROVE n + 1 \in X
  <2>1. n + 1 \in 0..N /\ n + 1 # 0 /\ (n + 1) - 1 = n /\ Nil \in E
    OBVIOUS
  <2>2. ASSUME NEW p \in E PROVE w[n + 1][p] \in E
    <3>0. w[n + 1][p] = IF p = Nil \/ n + 1 = 0 THEN Nil ELSE G[<<p, w[(n + 1) - 1][nx[p]]>>]
      BY <1>2, <2>1, Zenon
    <3>1. CASE p = Nil
      BY <3>0, <2>1, <3>1, Zenon
    <3>2. CASE p # Nil
      <4>1. p \in D /\ nx[p] \in E
        BY <3>2
      <4>2. w[n][nx[p]] \in E
        BY <1>6, <4>1, Zenon
      <4>3. w[n + 1][p] = G[<<p, w[n][nx[p]]>>]
        BY <2>1, <3>0, <3>2, Zenon
      <4>4. G[<<p, w[n][nx[p]]>>] = IF p \in T THEN p ELSE w[n][nx[p]]
        BY <1>3, <4>1, <4>2, Zenon
      <4> QED BY <4>1, <4>2, <4>3, <4>4, Zenon
    <3> QED BY <3>1, <3>2
  <2> QED BY <2>1, <2>2, Zenon
<1>7. \A n \in 0..N : n \in X
  <2> HIDE DEF X
  <2> QED BY <1>5, <1>6, BoundedInd
<1>8. ASSUME NEW i \in 0..N, NEW p \in E
      PROVE  w[i][p] = IF p = Nil \/ i = 0 THEN Nil ELSE IF p \in T THEN p ELSE w[i - 1][nx[p]]
  <2>1. CASE p = Nil \/ i = 0
    BY <1>2, <2>1
  <2>2. CASE ~(p = Nil \/ i = 0)
    <3>1. p \in D /\ nx[p] \in E /\ i - 1 \in 0..N
      BY <2>2
    <3>2. w[i - 1][nx[p]] \in E
      BY <1>7, <3>1, Zenon
    <3>3. G[<<p, w[i - 1][nx[p]]>>] = IF p \in T THEN p ELSE w[i - 1][nx[p]]
      BY <1>3, <3>1, <3>2, Zenon
    <3>4. w[i][p] = G[<<p, w[i - 1][nx[p]]>>]
      BY <1>2, <2>2
    <3> QED BY <2>2, <3>3, <3>4
  <2> QED BY <2>1, <2>2
<1>9. w = [i \in 0..N |-> [p \in E |-> w[i][p]]]
    BY <1>1 DEF IsWalk
<1>10. [i \in 0..N |-> [p \in E |-> w[i][p]]] =
       [i \in 0..N |-> [p \in E |-> IF p = Nil \/ i = 0 THEN Nil ELSE IF p \in T THEN p ELSE w[i - 1][nx[p]]]]
    BY <1>8, ZenonT(40)
<1> QED BY <1>9, <1>10, Zenon DEF IsFindWalk

\* r is the first of s[j], .., s[L] that is in T, or Nil.
IsFirst(r, s, j, L, T) ==
    \/ r = Nil /\ \A i \in j..L : s[i] \notin T
    \/ \E i \in j..L : r = s[i] /\ s[i] \in T /\ \A m \in j..(i - 1) : s[m] \notin T

\* The walk finds the first handle of a list that is in T.
LEMMA FindIs ==
    ASSUME NEW D, Nil \notin D, NEW nx \in [D -> D \cup {Nil}], NEW N \in Nat, NEW T,
           NEW h, IsFindWalk(h, D, nx, N, T),
           NEW head, NEW s, IsList(D, nx, head, s), Len(s) <= N
    PROVE  IsFirst(h[N][head], s, 1, Len(s), T)
<1> DEFINE L == Len(s)
<1> DEFINE E == D \cup {Nil}
<1>1. L \in Nat /\ L <= N
    BY DEF IsList
<1>3. \A i \in 0..N : \A p \in E :
         h[i][p] = IF p = Nil \/ i = 0 THEN Nil ELSE IF p \in T THEN p ELSE h[i - 1][nx[p]]
  <2> DEFINE Body(i, p) == IF p = Nil \/ i = 0 THEN Nil ELSE IF p \in T THEN p ELSE h[i - 1][nx[p]]
  <2>1. h = [i \in 0..N |-> [p \in E |-> Body(i, p)]]
    BY DEF IsFindWalk
  <2> HIDE DEF Body
  <2>2. \A i \in 0..N : \A p \in E : h[i][p] = Body(i, p)
    BY <2>1
  <2> QED BY <2>2 DEF Body
<1>4. \A i \in 0..N : h[i][Nil] = Nil
    BY <1>3
<1>5. \A i \in 1..N : \A p \in D : h[i][p] = IF p \in T THEN p ELSE h[i - 1][nx[p]]
  <2> TAKE i \in 1..N
  <2> TAKE p \in D
  <2>1. i \in 0..N /\ i # 0 /\ p # Nil /\ p \in E
    OBVIOUS
  <2> QED BY <1>3, <2>1, Zenon
<1>6. /\ \A i \in 1..L : s[i] \in D /\ nx[s[i]] = IF i = L THEN Nil ELSE s[i + 1]
      /\ head = IF L = 0 THEN Nil ELSE s[1]
    BY DEF IsList
<1> DEFINE Q(k) == IsFirst(h[N - (L - k)][s[L - k + 1]], s, L - k + 1, L, T)
<1> DEFINE X == {k \in 0..L : k = 0 \/ Q(k)}
<1> HIDE DEF L
<1>7. 0 \in X
    BY <1>1
<1>8. ASSUME NEW k \in 0..(L - 1), k \in X PROVE k + 1 \in X
  <2>1. PICK j \in 1..L : j = L - k
    BY <1>1
  <2>2. PICK i \in 1..N : i = N - (L - (k + 1))
    BY <1>1
  <2>3. k + 1 \in 0..L /\ L - (k + 1) + 1 = j
    BY <1>1, <2>1
  <2>4. s[j] \in D
    BY <1>6
  <2>5. h[i][s[j]] = IF s[j] \in T THEN s[j] ELSE h[i - 1][nx[s[j]]]
    BY <1>5, <2>4
  <2>6. i - 1 \in 0..N
    BY <1>1
  <2>7. IsFirst(h[i][s[j]], s, j, L, T)
    <3>0. CASE s[j] \in T
      <4>1. h[i][s[j]] = s[j] /\ j \in j..L /\ j..(j - 1) = {}
        BY <2>5, <3>0, <1>1
      <4> QED BY <3>0, <4>1, Zenon DEF IsFirst
    <3>1. CASE s[j] \notin T /\ k = 0
      <4>1. j = L /\ nx[s[j]] = Nil
        BY <1>1, <1>6, <2>1, <3>1
      <4>2. h[i][s[j]] = Nil
        BY <1>4, <2>5, <2>6, <3>1, <4>1, Zenon
      <4>3. \A m \in j..L : m = j
        BY <4>1, <1>1
      <4> QED BY <3>1, <4>2, <4>3, Zenon DEF IsFirst
    <3>2. CASE s[j] \notin T /\ k # 0
      <4>1. j # L /\ j + 1 = L - k + 1 /\ i - 1 = N - (L - k) /\ j + 1 \in 1..L
        BY <1>1, <2>1, <2>2, <3>2
      <4>2. nx[s[j]] = s[j + 1]
        BY <1>6, <4>1
      <4>3. Q(k)
        BY <1>8, <3>2
      <4>4. IsFirst(h[i - 1][s[j + 1]], s, j + 1, L, T)
        BY <4>1, <4>3, Zenon
      <4>5. h[i][s[j]] = h[i - 1][s[j + 1]]
        BY <2>5, <3>2, <4>2, Zenon
      <4>6. \A m \in j..L : m = j \/ m \in (j + 1)..L
        OBVIOUS
      <4>7. \A m \in (j + 1)..L : m \in j..L /\ \A q \in j..(m - 1) : q = j \/ q \in (j + 1)..(m - 1)
        OBVIOUS
      <4>8. CASE h[i][s[j]] = Nil /\ \A m \in (j + 1)..L : s[m] \notin T
        BY <3>2, <4>6, <4>8, Zenon DEF IsFirst
      <4>9. CASE \E m \in (j + 1)..L : h[i][s[j]] = s[m] /\ s[m] \in T /\ \A q \in (j + 1)..(m - 1) : s[q] \notin T
        BY <3>2, <4>7, <4>9, Zenon DEF IsFirst
      <4> QED BY <4>4, <4>5, <4>8, <4>9, Zenon DEF IsFirst
    <3> QED BY <3>0, <3>1, <3>2
  <2>8. Q(k + 1)
    BY <2>2, <2>3, <2>7, Zenon
  <2> QED BY <2>3, <2>8, Zenon
<1>9. \A k \in 0..L : k \in X
  <2> HIDE DEF X
  <2> QED BY <1>1, <1>7, <1>8, BoundedInd
<1>10. CASE L = 0
  <2>1. head = Nil /\ 1..L = {}
    BY <1>6, <1>10
  <2>2. h[N][Nil] = Nil
    <3>1. N \in 0..N
      BY <1>1
    <3> QED BY <1>4, <3>1
  <2> QED BY <2>1, <2>2, Zenon DEF IsFirst, L
<1>11. CASE L # 0
  <2>1. L \in 0..L /\ L - L + 1 = 1 /\ N - (L - L) = N /\ head = s[1]
    BY <1>1, <1>6, <1>11
  <2>2. Q(L)
    BY <1>9, <1>11, <2>1
  <2> QED BY <2>1, <2>2, Zenon DEF L
<1> QED BY <1>10, <1>11

-----------------------------------------------------------------------------
(* Changes of a list.                                                      *)

\* s with n before it, without its first member, without its i-th member.
Push(s, n) == [j \in 1..(Len(s) + 1) |-> IF j = 1 THEN n ELSE s[j - 1]]
Pop(s) == [j \in 1..(Len(s) - 1) |-> s[j + 1]]
Cut(s, i) == [j \in 1..(Len(s) - 1) |-> IF j < i THEN s[j] ELSE s[j + 1]]
End(s) == IF Len(s) = 0 THEN Nil ELSE s[Len(s)]

\* The pointers of T are the same.
SameOn(T, ny, nx) == \A m \in T : ny[m] = nx[m]

\* A list in which the pointers of its members are the same is the same list.
LEMMA ListFrame ==
    ASSUME NEW D, NEW nx, NEW ny, NEW head, NEW s, IsList(D, nx, head, s), SameOn(Ran(s), ny, nx)
    PROVE  IsList(D, ny, head, s)
<1>1. \A i \in 1..Len(s) : s[i] \in Ran(s) /\ ny[s[i]] = nx[s[i]]
    BY DEF Ran, SameOn
<1> QED BY <1>1 DEF IsList

\* Neither do the pointers back, when those of the members are the same.
LEMMA BackFrame ==
    ASSUME NEW pv, NEW py, NEW s, IsBack(pv, s), SameOn(Ran(s), py, pv)
    PROVE  IsBack(py, s)
<1>1. \A i \in 1..Len(s) : s[i] \in Ran(s) /\ py[s[i]] = pv[s[i]]
    BY DEF Ran, SameOn
<1> QED BY <1>1 DEF IsBack

\* A new head.
LEMMA ListPush ==
    ASSUME NEW D, Nil \notin D, NEW nx, NEW ny, NEW head, NEW s, IsList(D, nx, head, s),
           NEW n \in D, n \notin Ran(s), ny[n] = head, SameOn(Ran(s), ny, nx)
    PROVE  /\ IsList(D, ny, n, Push(s, n)) /\ Len(Push(s, n)) = Len(s) + 1
           /\ Ran(Push(s, n)) = Ran(s) \cup {n}
           /\ End(Push(s, n)) = IF End(s) = Nil THEN n ELSE End(s)
<1> DEFINE t == Push(s, n)
<1> DEFINE L == Len(s)
<1>s. \A m \in Ran(s) : ny[m] = nx[m]
    BY DEF SameOn
<1>1. /\ L \in Nat /\ \A i \in 1..L : s[i] \in D /\ s[i] \in Ran(s)
      /\ s \in Seq(D)
    BY DEF IsList, Ran
<1>2. t \in Seq(D) /\ Len(t) = L + 1 /\ \A j \in 1..(L + 1) : t[j] = IF j = 1 THEN n ELSE s[j - 1]
  <2>1. \A j \in 1..(L + 1) : (IF j = 1 THEN n ELSE s[j - 1]) \in D
    BY <1>1
  <2>2. t \in [1..(L + 1) -> D]
    BY <2>1 DEF Push
  <2>3. L + 1 \in Nat
    BY <1>1
  <2>4. t \in Seq(D)
    BY <2>2, <2>3
  <2>5. Len(t) = L + 1
    BY <2>2, <2>3, <2>4
  <2> QED BY <2>4, <2>5 DEF Push
<1> HIDE DEF t, L
<1>3. \A i, j \in 1..(L + 1) : t[i] = t[j] => i = j
  <2> TAKE i, j \in 1..(L + 1)
  <2> HAVE t[i] = t[j]
  <2>0. \A p, q \in 1..L : s[p] = s[q] => p = q
    BY DEF IsList, L
  <2>1. CASE i = 1 \/ j = 1
    BY <1>1, <1>2, <2>1
  <2>2. CASE i # 1 /\ j # 1
    <3>1. i - 1 \in 1..L /\ j - 1 \in 1..L /\ s[i - 1] = s[j - 1]
      BY <1>1, <1>2, <2>2
    <3>2. i - 1 = j - 1
      BY <2>0, <3>1
    <3> QED BY <1>1, <3>2
  <2> QED BY <2>1, <2>2
<1>4. \A i \in 1..(L + 1) : ny[t[i]] = IF i = L + 1 THEN Nil ELSE t[i + 1]
  <2> TAKE i \in 1..(L + 1)
  <2>0. \A q \in 1..L : nx[s[q]] = IF q = L THEN Nil ELSE s[q + 1]
    BY DEF IsList, L
  <2>00. head = IF L = 0 THEN Nil ELSE s[1]
    BY DEF IsList, L
  <2>1. CASE i = 1
    <3>1. t[i] = n /\ ny[t[i]] = head
      BY <1>2, <2>1
    <3>2. CASE L = 0
      BY <2>00, <2>1, <3>1, <3>2
    <3>3. CASE L # 0
      <4>1. 2 \in 1..(L + 1) /\ t[2] = s[1] /\ i # L + 1
        BY <1>1, <1>2, <2>1, <3>3
      <4> QED BY <2>00, <2>1, <3>1, <3>3, <4>1
    <3> QED BY <3>2, <3>3
  <2>2. CASE i # 1
    <3>1. i - 1 \in 1..L /\ t[i] = s[i - 1] /\ (i - 1 = L <=> i = L + 1)
      BY <1>1, <1>2, <2>2
    <3>2. ny[t[i]] = nx[s[i - 1]]
      BY <1>1, <1>s, <3>1
    <3>3. i # L + 1 => t[i + 1] = s[(i - 1) + 1]
      BY <1>1, <1>2, <2>2
    <3> QED BY <2>0, <3>1, <3>2, <3>3
  <2> QED BY <2>1, <2>2
<1>5. t[1] = n /\ L + 1 # 0
    BY <1>1, <1>2
<1>6. IsList(D, ny, n, t)
    BY <1>2, <1>3, <1>4, <1>5 DEF IsList
<1>7. Ran(t) = Ran(s) \cup {n}
  <2>1. ASSUME NEW m \in Ran(t) PROVE m \in Ran(s) \cup {n}
    <3>1. PICK i \in 1..(L + 1) : m = t[i]
      BY <1>2 DEF Ran
    <3>2. i = 1 \/ i - 1 \in 1..L
      BY <1>1
    <3> QED BY <1>1, <1>2, <3>1, <3>2
  <2>2. ASSUME NEW m \in Ran(s) PROVE m \in Ran(t)
    <3>1. PICK i \in 1..L : m = s[i]
      BY DEF Ran, L
    <3>2. i + 1 \in 1..(L + 1) /\ t[i + 1] = m
      BY <1>1, <1>2, <3>1
    <3> QED BY <1>2, <3>2 DEF Ran
  <2>3. n \in Ran(t)
    <3>1. 1 \in 1..Len(t)
      BY <1>1, <1>2
    <3> QED BY <1>5, <3>1 DEF Ran
  <2> QED BY <2>1, <2>2, <2>3
<1>8. End(t) = IF End(s) = Nil THEN n ELSE End(s)
  <2>1. CASE L = 0
    BY <1>2, <1>5, <2>1 DEF End, L
  <2>2. CASE L # 0
    <3>1. t[L + 1] = s[L] /\ s[L] # Nil
      BY <1>1, <1>2, <2>2
    <3> QED BY <1>1, <1>2, <2>2, <3>1 DEF End, L
  <2> QED BY <2>1, <2>2
<1> QED BY <1>2, <1>6, <1>7, <1>8 DEF t, L

\* The pointers back when n is put before s.
PushedBack(s, n, head, pv, py) ==
    /\ py[n] = Nil
    /\ head # Nil => py[head] = n
    /\ \A m \in Ran(s) : m # head => py[m] = pv[m]

\* The pointers back after a new head.
LEMMA BackPush ==
    ASSUME NEW D, Nil \notin D, NEW nx, NEW pv, NEW py, NEW head, NEW s, IsList(D, nx, head, s),
           IsBack(pv, s), NEW n, PushedBack(s, n, head, pv, py)
    PROVE  IsBack(py, Push(s, n))
<1> DEFINE t == Push(s, n)
<1> DEFINE L == Len(s)
<1>1. /\ L \in Nat /\ \A i \in 1..L : s[i] \in D /\ s[i] \in Ran(s)
      /\ head = IF L = 0 THEN Nil ELSE s[1]
      /\ \A p, q \in 1..L : s[p] = s[q] => p = q
    BY DEF IsList, Ran
<1>2. DOMAIN t = 1..(L + 1) /\ \A j \in 1..(L + 1) : t[j] = IF j = 1 THEN n ELSE s[j - 1]
    BY DEF Push
<1>3. Len(t) = L + 1
  <2>1. L + 1 \in Nat
    BY <1>1
  <2> QED BY <2>1 DEF Push
<1> HIDE DEF t
<1>4. \A i \in 1..L : pv[s[i]] = IF i = 1 THEN Nil ELSE s[i - 1]
    BY DEF IsBack
<1> HIDE DEF L
<1>b. /\ py[n] = Nil /\ (head # Nil => py[head] = n)
      /\ \A m \in Ran(s) : m # head => py[m] = pv[m]
    BY DEF PushedBack
<1> SUFFICES ASSUME NEW i \in 1..(L + 1) PROVE py[t[i]] = IF i = 1 THEN Nil ELSE t[i - 1]
    BY <1>3 DEF IsBack, t
<1>5. CASE i = 1
    BY <1>2, <1>5, <1>b
<1>6. CASE i = 2
  <2>1. t[i] = s[1] /\ L # 0 /\ 1 \in 1..L /\ t[1] = n
    BY <1>1, <1>2, <1>6
  <2>2. i - 1 = 1 /\ i # 1
    BY <1>6
  <2>3. head = s[1] /\ head # Nil
    BY <1>1, <2>1
  <2>4. py[t[i]] = n
    BY <1>b, <2>1, <2>3
  <2> QED BY <2>1, <2>2, <2>4
<1>7. CASE i # 1 /\ i # 2
  <2>1. i - 1 \in 1..L /\ 1 \in 1..L /\ i - 1 # 1 /\ t[i] = s[i - 1] /\ t[i - 1] = s[(i - 1) - 1]
    BY <1>1, <1>2, <1>7
  <2>2. s[i - 1] # head
    BY <1>1, <2>1
  <2> QED BY <1>1, <1>4, <1>b, <2>1, <2>2
<1> QED BY <1>5, <1>6, <1>7

\* A list without its head.
LEMMA ListPop ==
    ASSUME NEW D, Nil \notin D, NEW nx, NEW ny, NEW head, NEW s, IsList(D, nx, head, s), head # Nil,
           SameOn(Ran(s) \ {head}, ny, nx)
    PROVE  /\ IsList(D, ny, nx[head], Pop(s)) /\ Len(Pop(s)) = Len(s) - 1 /\ Len(s) \in Nat /\ Len(s) # 0
           /\ head \in D /\ head \in Ran(s) /\ Ran(Pop(s)) = Ran(s) \ {head}
<1> DEFINE t == Pop(s)
<1> DEFINE L == Len(s)
<1>s. \A m \in Ran(s) : m # head => ny[m] = nx[m]
    BY DEF SameOn
<1>1. /\ L \in Nat /\ (\A i \in 1..L : s[i] \in D /\ s[i] \in Ran(s))
      /\ s \in Seq(D) /\ (\A p, q \in 1..L : s[p] = s[q] => p = q)
      /\ L # 0 /\ head = s[1] /\ (\A i \in 1..L : nx[s[i]] = IF i = L THEN Nil ELSE s[i + 1])
    BY DEF IsList, Ran
<1>2. t \in Seq(D) /\ Len(t) = L - 1 /\ \A j \in 1..(L - 1) : t[j] = s[j + 1]
  <2>1. \A j \in 1..(L - 1) : s[j + 1] \in D
    BY <1>1
  <2>2. t \in [1..(L - 1) -> D]
    BY <2>1 DEF Pop
  <2>3. L - 1 \in Nat
    BY <1>1
  <2>4. t \in Seq(D)
    BY <2>2, <2>3
  <2>5. Len(t) = L - 1
    BY <2>2, <2>3, <2>4
  <2> QED BY <2>4, <2>5 DEF Pop
<1> HIDE DEF t, L
<1>3. \A i \in 2..L : s[i] # head
    BY <1>1
<1>4. \A i, j \in 1..(L - 1) : t[i] = t[j] => i = j
  <2> TAKE i, j \in 1..(L - 1)
  <2> HAVE t[i] = t[j]
  <2>1. i + 1 \in 1..L /\ j + 1 \in 1..L /\ s[i + 1] = s[j + 1]
    BY <1>1, <1>2
  <2>2. i + 1 = j + 1
    BY <1>1, <2>1
  <2> QED BY <1>1, <2>2
<1>5. \A i \in 1..(L - 1) : ny[t[i]] = IF i = L - 1 THEN Nil ELSE t[i + 1]
  <2> TAKE i \in 1..(L - 1)
  <2>1. i + 1 \in 1..L /\ i + 1 \in 2..L /\ t[i] = s[i + 1] /\ (i = L - 1 <=> i + 1 = L)
    BY <1>1, <1>2
  <2>2. ny[t[i]] = nx[s[i + 1]]
    BY <1>1, <1>3, <1>s, <2>1
  <2>3. i # L - 1 => t[i + 1] = s[(i + 1) + 1]
    BY <1>1, <1>2
  <2> QED BY <1>1, <2>1, <2>2, <2>3
<1>6. nx[head] = IF L - 1 = 0 THEN Nil ELSE t[1]
  <2>1. 1 \in 1..L /\ nx[head] = IF 1 = L THEN Nil ELSE s[1 + 1]
    BY <1>1
  <2>2. L # 1 => t[1] = s[1 + 1]
    BY <1>1, <1>2
  <2> QED BY <1>1, <2>1, <2>2
<1>7. IsList(D, ny, nx[head], t)
    BY <1>2, <1>4, <1>5, <1>6 DEF IsList
<1>8. Ran(t) = Ran(s) \ {head}
  <2>1. ASSUME NEW m \in Ran(t) PROVE m \in Ran(s) \ {head}
    <3>1. PICK i \in 1..(L - 1) : m = t[i]
      BY <1>2 DEF Ran
    <3>2. i + 1 \in 2..L /\ i + 1 \in 1..L
      BY <1>1
    <3> QED BY <1>1, <1>2, <1>3, <3>1, <3>2
  <2>2. ASSUME NEW m \in Ran(s), m # head PROVE m \in Ran(t)
    <3>1. PICK i \in 1..L : m = s[i]
      BY DEF Ran, L
    <3>2. i # 1
      BY <1>1, <2>2, <3>1
    <3>3. i - 1 \in 1..(L - 1) /\ (i - 1) + 1 = i
      BY <1>1, <3>2
    <3>4. t[i - 1] = m
      BY <1>2, <3>1, <3>3
    <3> QED BY <1>2, <3>3, <3>4 DEF Ran
  <2> QED BY <2>1, <2>2
<1>9. head \in D /\ head \in Ran(s)
  <2>1. 1 \in 1..L
    BY <1>1
  <2> QED BY <1>1, <2>1
<1> QED BY <1>1, <1>2, <1>7, <1>8, <1>9 DEF t, L

\* The pointers that unlink n from s.
Unlinked(s, n, nx, pv, ny, py) ==
    \A m \in Ran(s) \ {n} : /\ ny[m] = IF m = pv[n] THEN nx[n] ELSE nx[m]
                            /\ py[m] = IF m = nx[n] THEN pv[n] ELSE pv[m]

\* n is the k-th member of s and is unlinked; hd is the head then.
Deleting(D, nx, pv, ny, py, head, hd, s, k, n) ==
    /\ IsList(D, nx, head, s) /\ IsBack(pv, s)
    /\ k \in 1..Len(s) /\ n = s[k] /\ Unlinked(s, n, nx, pv, ny, py)
    /\ hd = IF head = n THEN nx[n] ELSE head

\* What is left is the list t.
Deleted(D, ny, py, hd, s, t, p, n) ==
    /\ IsList(D, ny, hd, t) /\ IsBack(py, t)
    /\ Len(t) = Len(s) - 1 /\ Len(s) \in Nat
    /\ Ran(t) = Ran(s) \ {n}
    /\ End(t) = IF End(s) = n THEN p ELSE End(s)

\* A list from which a member is unlinked.
LEMMA ListDel ==
    ASSUME NEW D, Nil \notin D, NEW nx, NEW pv, NEW ny, NEW py, NEW head, NEW hd, NEW s, NEW k, NEW n,
           Deleting(D, nx, pv, ny, py, head, hd, s, k, n)
    PROVE  Deleted(D, ny, py, hd, s, Cut(s, k), pv[n], n)
<1>d. /\ IsList(D, nx, head, s) /\ IsBack(pv, s)
      /\ k \in 1..Len(s) /\ n = s[k] /\ Unlinked(s, n, nx, pv, ny, py)
      /\ hd = IF head = n THEN nx[n] ELSE head
    BY DEF Deleting
<1> DEFINE t == Cut(s, k)
<1> DEFINE L == Len(s)
<1>1. /\ L \in Nat /\ (\A i \in 1..L : s[i] \in D /\ s[i] \in Ran(s) /\ s[i] # Nil)
      /\ s \in Seq(D) /\ (\A p, q \in 1..L : s[p] = s[q] => p = q)
      /\ head = (IF L = 0 THEN Nil ELSE s[1])
      /\ (\A i \in 1..L : nx[s[i]] = IF i = L THEN Nil ELSE s[i + 1])
      /\ (\A i \in 1..L : pv[s[i]] = IF i = 1 THEN Nil ELSE s[i - 1])
    BY <1>d DEF IsList, IsBack, Ran
<1>2. t \in Seq(D) /\ Len(t) = L - 1 /\ \A j \in 1..(L - 1) : t[j] = IF j < k THEN s[j] ELSE s[j + 1]
  <2>1. \A j \in 1..(L - 1) : (IF j < k THEN s[j] ELSE s[j + 1]) \in D
    BY <1>1
  <2>2. t \in [1..(L - 1) -> D]
    BY <2>1 DEF Cut
  <2>3. L - 1 \in Nat
    BY <1>1, <1>d
  <2>4. t \in Seq(D)
    BY <2>2, <2>3
  <2>5. Len(t) = L - 1
    BY <2>2, <2>3, <2>4
  <2> QED BY <2>4, <2>5 DEF Cut
<1>k. k \in 1..L /\ n = s[k] /\ nx[n] = (IF k = L THEN Nil ELSE s[k + 1]) /\ pv[n] = (IF k = 1 THEN Nil ELSE s[k - 1])
    BY <1>1, <1>d
<1>ny. \A m \in Ran(s) \ {n} : ny[m] = IF m = pv[n] THEN nx[n] ELSE nx[m]
    BY <1>d DEF Unlinked
<1>py. \A m \in Ran(s) \ {n} : py[m] = IF m = nx[n] THEN pv[n] ELSE pv[m]
    BY <1>d DEF Unlinked
<1> HIDE DEF t, L
\* Position i of t is position o(i) of s.
<1> DEFINE o(j) == IF j < k THEN j ELSE j + 1
<1>3. \A j \in 1..(L - 1) : o(j) \in 1..L /\ o(j) # k /\ t[j] = s[o(j)] /\ t[j] \in Ran(s) \ {n}
  <2> TAKE j \in 1..(L - 1)
  <2>1. o(j) \in 1..L /\ o(j) # k
    BY <1>1, <1>k
  <2>2. t[j] = s[o(j)]
    BY <1>2
  <2>3. s[o(j)] \in Ran(s) /\ s[o(j)] # s[k]
    <3> HIDE DEF o
    <3> QED BY <1>1, <1>k, <2>1
  <2> QED BY <1>k, <2>1, <2>2, <2>3
<1>4. \A i \in 1..L : i # k => \E j \in 1..(L - 1) : o(j) = i
  <2> TAKE i \in 1..L
  <2> HAVE i # k
  <2>1. CASE i < k
    <3>1. i \in 1..(L - 1) /\ o(i) = i
      BY <1>1, <1>k, <2>1
    <3> QED BY <3>1
  <2>2. CASE i > k
    <3>1. i - 1 \in 1..(L - 1) /\ o(i - 1) = i
      BY <1>1, <1>k, <2>2
    <3> HIDE DEF o
    <3> QED BY <3>1
  <2> QED BY <1>k, <2>1, <2>2
<1>5. \A i, j \in 1..(L - 1) : t[i] = t[j] => i = j
  <2> TAKE i, j \in 1..(L - 1)
  <2> HAVE t[i] = t[j]
  <2>1. o(i) \in 1..L /\ o(j) \in 1..L /\ s[o(i)] = s[o(j)]
    BY <1>3
  <2>2. o(i) = o(j)
    <3> HIDE DEF o
    <3> QED BY <1>1, <2>1
  <2> QED BY <1>k, <2>2
<1>6. \A i \in 1..(L - 1) : ny[t[i]] = IF i = L - 1 THEN Nil ELSE t[i + 1]
  <2> TAKE i \in 1..(L - 1)
  <2>1. t[i] = s[o(i)] /\ t[i] \in Ran(s) \ {n} /\ o(i) \in 1..L /\ nx[s[o(i)]] = IF o(i) = L THEN Nil ELSE s[o(i) + 1]
    <3>1. t[i] = s[o(i)] /\ t[i] \in Ran(s) \ {n} /\ o(i) \in 1..L
      BY <1>3
    <3> HIDE DEF o
    <3> QED BY <1>1, <3>1
  <2>2. CASE i = k - 1
    <3>1. k # 1 /\ t[i] = pv[n] /\ i < k /\ t[i] = s[k - 1]
      BY <1>1, <1>k, <2>1, <2>2
    <3>2. ny[t[i]] = nx[n]
      BY <1>ny, <2>1, <3>1
    <3>3. i = L - 1 <=> k = L
      BY <1>1, <1>k, <2>2
    <3>4. k # L => t[i + 1] = s[k + 1]
      BY <1>1, <1>2, <1>k, <2>2
    <3> QED BY <1>k, <3>2, <3>3, <3>4
  <2>3. CASE i # k - 1
    <3>1. t[i] # pv[n]
      <4>1. CASE k = 1
        BY <1>k, <1>1, <2>1, <4>1
      <4>2. CASE k # 1
        <5>1. k - 1 \in 1..L /\ pv[n] = s[k - 1] /\ o(i) # k - 1
          BY <1>1, <1>k, <2>3, <4>2
        <5> HIDE DEF o
        <5> QED BY <1>1, <2>1, <5>1
      <4> QED BY <4>1, <4>2
    <3>2. ny[t[i]] = nx[s[o(i)]]
      BY <1>ny, <2>1, <3>1
    <3>3. o(i) = L <=> i = L - 1
      BY <1>1, <1>k, <2>3
    <3>4. i # L - 1 => t[i + 1] = s[o(i) + 1]
      <4> HAVE i # L - 1
      <4>1. i + 1 \in 1..(L - 1) /\ o(i + 1) = o(i) + 1
        BY <1>1, <1>k, <2>3
      <4> QED BY <1>2, <4>1
    <3> HIDE DEF o
    <3> QED BY <2>1, <3>2, <3>3, <3>4
  <2> QED BY <2>2, <2>3
<1>7. (IF head = n THEN nx[n] ELSE head) = IF L - 1 = 0 THEN Nil ELSE t[1]
  <2>1. head = s[1] /\ (head = n <=> k = 1) /\ L # 0
    BY <1>1, <1>k
  <2>2. CASE k = 1
    <3>1. L # 1 => t[1] = s[1 + 1]
      BY <1>1, <1>2, <2>2
    <3> QED BY <1>1, <1>k, <2>1, <2>2, <3>1
  <2>3. CASE k # 1
    <3>1. L # 1 /\ t[1] = s[1]
      BY <1>1, <1>2, <1>k, <2>3
    <3> QED BY <1>1, <2>1, <2>3, <3>1
  <2> QED BY <2>2, <2>3
<1>8. IsList(D, ny, hd, t)
  <2>1. hd = IF L - 1 = 0 THEN Nil ELSE t[1]
    BY <1>7, <1>d
  <2> QED BY <1>2, <1>5, <1>6, <2>1 DEF IsList
<1>9. \A i \in 1..(L - 1) : py[t[i]] = IF i = 1 THEN Nil ELSE t[i - 1]
  <2> TAKE i \in 1..(L - 1)
  <2>1. t[i] = s[o(i)] /\ t[i] \in Ran(s) \ {n} /\ o(i) \in 1..L /\ pv[s[o(i)]] = IF o(i) = 1 THEN Nil ELSE s[o(i) - 1]
    <3>1. t[i] = s[o(i)] /\ t[i] \in Ran(s) \ {n} /\ o(i) \in 1..L
      BY <1>3
    <3> HIDE DEF o
    <3> QED BY <1>1, <3>1
  <2>2. CASE i = k
    <3>1. k # L /\ t[i] = nx[n]
      BY <1>1, <1>k, <2>1, <2>2
    <3>2. py[t[i]] = pv[n]
      BY <1>py, <2>1, <3>1
    <3>3. k # 1 => t[i - 1] = s[k - 1]
      BY <1>1, <1>2, <1>k, <2>2
    <3> QED BY <1>k, <2>2, <3>2, <3>3
  <2>3. CASE i # k
    <3>1. t[i] # nx[n]
      <4>1. CASE k = L
        BY <1>k, <1>1, <2>1, <4>1
      <4>2. CASE k # L
        <5>1. k + 1 \in 1..L /\ nx[n] = s[k + 1] /\ o(i) # k + 1
          BY <1>1, <1>k, <2>3, <4>2
        <5> HIDE DEF o
        <5> QED BY <1>1, <2>1, <5>1
      <4> QED BY <4>1, <4>2
    <3>2. py[t[i]] = pv[s[o(i)]]
      BY <1>py, <2>1, <3>1
    <3>3. o(i) = 1 <=> i = 1
      BY <1>1, <1>k, <2>3
    <3>4. i # 1 => t[i - 1] = s[o(i) - 1]
      <4> HAVE i # 1
      <4>1. i - 1 \in 1..(L - 1) /\ o(i - 1) = o(i) - 1
        BY <1>1, <1>k, <2>3
      <4> QED BY <1>2, <4>1
    <3> HIDE DEF o
    <3> QED BY <2>1, <3>2, <3>3, <3>4
  <2> QED BY <2>2, <2>3
<1>10. IsBack(py, t)
    BY <1>2, <1>9 DEF IsBack
<1>11. Ran(t) = Ran(s) \ {n}
  <2>1. ASSUME NEW m \in Ran(t) PROVE m \in Ran(s) \ {n}
    <3>1. PICK i \in 1..(L - 1) : m = t[i]
      BY <1>2 DEF Ran
    <3> QED BY <1>3, <3>1
  <2>2. ASSUME NEW m \in Ran(s), m # n PROVE m \in Ran(t)
    <3>1. PICK i \in 1..L : m = s[i]
      BY DEF Ran, L
    <3>2. i # k
      BY <1>k, <2>2, <3>1
    <3>3. PICK j \in 1..(L - 1) : o(j) = i
      BY <1>4, <3>2
    <3>4. t[j] = m
      BY <1>3, <3>1, <3>3
    <3> QED BY <1>2, <3>4 DEF Ran
  <2> QED BY <2>1, <2>2
<1>12. End(t) = IF End(s) = n THEN pv[n] ELSE End(s)
  <2>1. End(s) = s[L] /\ (s[L] = n <=> k = L) /\ L # 0
    BY <1>1, <1>k DEF End, L
  <2>2. CASE k = L
    <3>1. L # 1 => t[L - 1] = s[L - 1]
      BY <1>1, <1>2, <2>2
    <3> QED BY <1>1, <1>2, <1>k, <2>1, <2>2, <3>1 DEF End
  <2>3. CASE k # L
    <3>1. L # 1 /\ t[L - 1] = s[L]
      BY <1>1, <1>2, <1>k, <2>3
    <3> QED BY <1>1, <1>2, <2>1, <2>3, <3>1 DEF End
  <2> QED BY <2>2, <2>3
<1> QED BY <1>1, <1>2, <1>8, <1>10, <1>11, <1>12 DEF t, L, Deleted

-----------------------------------------------------------------------------
(* The pool's memory.                                                      *)

NodePtr == Nodes \cup {Nil}
ChunkPtr == Chunks \cup {Nil}

NodeRec == [key_ : Keys \cup {0}, chunk_len_ : Nat, chunk_head_ : ChunkPtr, node_prev_ : NodePtr,
            node_next_ : NodePtr, add_prev_ : NodePtr, add_next_ : NodePtr, flag_ : Flags]

AllocRec == [next_ : [Chunks -> ChunkPtr], data_ : [Chunks -> [1..ChunkSize -> Nat]],
             free_list_ : ChunkPtr, free_total_ : Int]

PoolRec == [node : [Nodes -> NodeRec], bucket : [Buckets -> NodePtr], add_head_ : NodePtr,
            add_tail_ : NodePtr, free_list_ : NodePtr, used_node_num_ : Int, a : AllocRec]

node_prevs(h) == [n \in Nodes |-> h.node[n].node_prev_]

\* Parts of the pool that an operation leaves alone.
SameLinks(g, h) ==
    /\ \A m \in Nodes : /\ g.node[m].node_next_ = h.node[m].node_next_
                        /\ g.node[m].node_prev_ = h.node[m].node_prev_
    /\ g.bucket = h.bucket /\ g.free_list_ = h.free_list_ /\ g.used_node_num_ = h.used_node_num_
SameAdd(g, h) ==
    /\ \A m \in Nodes : /\ g.node[m].add_next_ = h.node[m].add_next_
                        /\ g.node[m].add_prev_ = h.node[m].add_prev_
    /\ g.add_head_ = h.add_head_ /\ g.add_tail_ = h.add_tail_
SameKeys(g, h) == \A m \in Nodes : g.node[m].key_ = h.node[m].key_
SameValues(g, h) ==
    /\ \A m \in Nodes : /\ g.node[m].chunk_len_ = h.node[m].chunk_len_
                        /\ g.node[m].chunk_head_ = h.node[m].chunk_head_
    /\ g.a = h.a
SameFlags(g, h) == \A m \in Nodes : g.node[m].flag_ = h.node[m].flag_

\* The constants' sets.
LEMMA Sets ==
    /\ Nil \notin Nodes /\ Nil \notin Chunks
    /\ IsFiniteSet(Nodes) /\ Cardinality(Nodes) = NodeTotal
    /\ IsFiniteSet(Chunks) /\ Cardinality(Chunks) = ChunkTotal
    /\ NodeTotal \in Nat /\ ChunkTotal \in Nat /\ ChunkSize \in Nat \ {0} /\ BucketSize \in Nat \ {0}
<1>1. NodeTotal \in Nat /\ ChunkTotal \in Nat /\ ChunkSize \in Nat \ {0} /\ BucketSize \in Nat \ {0}
    BY NodeAssumption, ChunkAssumption
<1>2. ASSUME NEW N \in Nat PROVE 0 \notin 1..N /\ IsFiniteSet(1..N) /\ Cardinality(1..N) = N
  <2>1. 1 \in Int /\ N \in Int
    OBVIOUS
  <2>2. IsFiniteSet(1..N) /\ Cardinality(1..N) = IF 1 > N THEN 0 ELSE N - 1 + 1
    BY <2>1, FS_Interval
  <2> QED BY <2>2
<1> QED BY <1>1, <1>2 DEF Nil, Nodes, Chunks

-----------------------------------------------------------------------------
(* Stores into a node.                                                     *)

\* What set_node_prev stores, and that it stores nothing else.
LEMMA SetNodePrev ==
    ASSUME NEW x \in [Nodes -> NodeRec], NEW n \in NodePtr, NEW v \in NodePtr,
           NEW y, y = set_node_prev(x, n, v)
    PROVE  /\ y \in [Nodes -> NodeRec]
           /\ \A m \in Nodes : y[m].node_prev_ = IF m = n THEN v ELSE x[m].node_prev_
           /\ \A m \in Nodes : y[m].key_ = x[m].key_
           /\ \A m \in Nodes : y[m].chunk_len_ = x[m].chunk_len_
           /\ \A m \in Nodes : y[m].chunk_head_ = x[m].chunk_head_
           /\ \A m \in Nodes : y[m].node_next_ = x[m].node_next_
           /\ \A m \in Nodes : y[m].add_prev_ = x[m].add_prev_
           /\ \A m \in Nodes : y[m].add_next_ = x[m].add_next_
           /\ \A m \in Nodes : y[m].flag_ = x[m].flag_
<1>1. CASE n = Nil
    BY <1>1, Sets DEF set_node_prev
<1>2. CASE n \in Nodes
    BY <1>2, Sets DEF set_node_prev, NodeRec
<1> QED BY <1>1, <1>2 DEF NodePtr

\* What set_node_next stores.
LEMMA SetNodeNext ==
    ASSUME NEW x \in [Nodes -> NodeRec], NEW n \in NodePtr, NEW v \in NodePtr,
           NEW y, y = set_node_next(x, n, v)
    PROVE  /\ y \in [Nodes -> NodeRec]
           /\ \A m \in Nodes : y[m].node_next_ = IF m = n THEN v ELSE x[m].node_next_
           /\ \A m \in Nodes : y[m].key_ = x[m].key_
           /\ \A m \in Nodes : y[m].chunk_len_ = x[m].chunk_len_
           /\ \A m \in Nodes : y[m].chunk_head_ = x[m].chunk_head_
           /\ \A m \in Nodes : y[m].node_prev_ = x[m].node_prev_
           /\ \A m \in Nodes : y[m].add_prev_ = x[m].add_prev_
           /\ \A m \in Nodes : y[m].add_next_ = x[m].add_next_
           /\ \A m \in Nodes : y[m].flag_ = x[m].flag_
<1>1. CASE n = Nil
    BY <1>1, Sets DEF set_node_next
<1>2. CASE n \in Nodes
    BY <1>2, Sets DEF set_node_next, NodeRec
<1> QED BY <1>1, <1>2 DEF NodePtr

\* What set_add_prev stores.
LEMMA SetAddPrev ==
    ASSUME NEW x \in [Nodes -> NodeRec], NEW n \in NodePtr, NEW v \in NodePtr,
           NEW y, y = set_add_prev(x, n, v)
    PROVE  /\ y \in [Nodes -> NodeRec]
           /\ \A m \in Nodes : y[m].add_prev_ = IF m = n THEN v ELSE x[m].add_prev_
           /\ \A m \in Nodes : y[m].key_ = x[m].key_
           /\ \A m \in Nodes : y[m].chunk_len_ = x[m].chunk_len_
           /\ \A m \in Nodes : y[m].chunk_head_ = x[m].chunk_head_
           /\ \A m \in Nodes : y[m].node_prev_ = x[m].node_prev_
           /\ \A m \in Nodes : y[m].node_next_ = x[m].node_next_
           /\ \A m \in Nodes : y[m].add_next_ = x[m].add_next_
           /\ \A m \in Nodes : y[m].flag_ = x[m].flag_
<1>1. CASE n = Nil
    BY <1>1, Sets DEF set_add_prev
<1>2. CASE n \in Nodes
    BY <1>2, Sets DEF set_add_prev, NodeRec
<1> QED BY <1>1, <1>2 DEF NodePtr

\* What set_add_next stores.
LEMMA SetAddNext ==
    ASSUME NEW x \in [Nodes -> NodeRec], NEW n \in NodePtr, NEW v \in NodePtr,
           NEW y, y = set_add_next(x, n, v)
    PROVE  /\ y \in [Nodes -> NodeRec]
           /\ \A m \in Nodes : y[m].add_next_ = IF m = n THEN v ELSE x[m].add_next_
           /\ \A m \in Nodes : y[m].key_ = x[m].key_
           /\ \A m \in Nodes : y[m].chunk_len_ = x[m].chunk_len_
           /\ \A m \in Nodes : y[m].chunk_head_ = x[m].chunk_head_
           /\ \A m \in Nodes : y[m].node_prev_ = x[m].node_prev_
           /\ \A m \in Nodes : y[m].node_next_ = x[m].node_next_
           /\ \A m \in Nodes : y[m].add_prev_ = x[m].add_prev_
           /\ \A m \in Nodes : y[m].flag_ = x[m].flag_
<1>1. CASE n = Nil
    BY <1>1, Sets DEF set_add_next
<1>2. CASE n \in Nodes
    BY <1>2, Sets DEF set_add_next, NodeRec
<1> QED BY <1>1, <1>2 DEF NodePtr

\* What the two stores into a node's bucket links change.
LEMMA SetNodeBoth ==
    ASSUME NEW x \in [Nodes -> NodeRec], NEW n \in Nodes, NEW v \in NodePtr, NEW w \in NodePtr,
           NEW y, y = [x EXCEPT ![n].node_next_ = v, ![n].node_prev_ = w]
    PROVE  /\ y \in [Nodes -> NodeRec]
           /\ \A m \in Nodes : y[m].node_next_ = IF m = n THEN v ELSE x[m].node_next_
           /\ \A m \in Nodes : y[m].node_prev_ = IF m = n THEN w ELSE x[m].node_prev_
           /\ \A m \in Nodes : y[m].key_ = x[m].key_
           /\ \A m \in Nodes : y[m].chunk_len_ = x[m].chunk_len_
           /\ \A m \in Nodes : y[m].chunk_head_ = x[m].chunk_head_
           /\ \A m \in Nodes : y[m].add_prev_ = x[m].add_prev_
           /\ \A m \in Nodes : y[m].add_next_ = x[m].add_next_
           /\ \A m \in Nodes : y[m].flag_ = x[m].flag_
    BY DEF NodeRec

\* What the two stores into a node's add links change.
LEMMA SetAddBoth ==
    ASSUME NEW x \in [Nodes -> NodeRec], NEW n \in Nodes, NEW v \in NodePtr, NEW w \in NodePtr,
           NEW y, y = [x EXCEPT ![n].add_next_ = v, ![n].add_prev_ = w]
    PROVE  /\ y \in [Nodes -> NodeRec]
           /\ \A m \in Nodes : y[m].add_next_ = IF m = n THEN v ELSE x[m].add_next_
           /\ \A m \in Nodes : y[m].add_prev_ = IF m = n THEN w ELSE x[m].add_prev_
           /\ \A m \in Nodes : y[m].key_ = x[m].key_
           /\ \A m \in Nodes : y[m].chunk_len_ = x[m].chunk_len_
           /\ \A m \in Nodes : y[m].chunk_head_ = x[m].chunk_head_
           /\ \A m \in Nodes : y[m].node_prev_ = x[m].node_prev_
           /\ \A m \in Nodes : y[m].node_next_ = x[m].node_next_
           /\ \A m \in Nodes : y[m].flag_ = x[m].flag_
    BY DEF NodeRec

-----------------------------------------------------------------------------
(* The add list.                                                           *)

AddShape(h, A) ==
    /\ IsList(Nodes, add_nexts(h), h.add_head_, A)
    /\ IsBack(add_prevs(h), A)
    /\ h.add_tail_ = End(A)
    /\ \A n \in Nodes \ Ran(A) : h.node[n].add_next_ = Nil /\ h.node[n].add_prev_ = Nil

\* The add list of a pool whose add links are the same.
LEMMA AddSame ==
    ASSUME NEW h, NEW g, NEW A, AddShape(h, A), SameAdd(g, h)
    PROVE  AddShape(g, A)
<1>1. add_nexts(g) = add_nexts(h) /\ add_prevs(g) = add_prevs(h)
    BY DEF add_nexts, add_prevs, SameAdd
<1> QED BY <1>1 DEF AddShape, SameAdd

\* What delete_from_add_list writes.
LEMMA DelAddEffect ==
    ASSUME NEW h \in PoolRec, NEW n \in Nodes
    PROVE  LET g == delete_from_add_list(h, n)
               next == h.node[n].add_next_
               prev == h.node[n].add_prev_
               out == next = Nil /\ prev = Nil /\ h.add_head_ # n /\ h.add_tail_ # n
           IN  /\ g \in PoolRec /\ SameLinks(g, h) /\ SameKeys(g, h) /\ SameValues(g, h) /\ SameFlags(g, h)
               /\ out => g = h
               /\ ~out => /\ \A m \in Nodes : /\ g.node[m].add_next_ = IF m = n THEN Nil ELSE IF m = prev THEN next ELSE h.node[m].add_next_
                                              /\ g.node[m].add_prev_ = IF m = n THEN Nil ELSE IF m = next THEN prev ELSE h.node[m].add_prev_
                          /\ g.add_head_ = IF h.add_head_ = n THEN next ELSE h.add_head_
                          /\ g.add_tail_ = IF h.add_tail_ = n THEN prev ELSE h.add_tail_
<1> DEFINE g == delete_from_add_list(h, n)
<1> DEFINE next == h.node[n].add_next_
<1> DEFINE prev == h.node[n].add_prev_
<1> DEFINE n1 == set_add_next(h.node, prev, next)
<1> DEFINE n2 == set_add_prev(n1, next, prev)
<1> DEFINE n3 == [n2 EXCEPT ![n].add_next_ = Nil, ![n].add_prev_ = Nil]
<1> DEFINE out == next = Nil /\ prev = Nil /\ h.add_head_ # n /\ h.add_tail_ # n
<1>0. h.node \in [Nodes -> NodeRec] /\ next \in NodePtr /\ prev \in NodePtr /\ Nil \in NodePtr
    BY DEF PoolRec, NodeRec, NodePtr
<1>4. g = IF out THEN h ELSE [h EXCEPT !.node = n3, !.add_head_ = IF h.add_head_ = n THEN next ELSE h.add_head_,
                                       !.add_tail_ = IF h.add_tail_ = n THEN prev ELSE h.add_tail_]
    BY DEF delete_from_add_list
<1> HIDE DEF g
<1>5. CASE out
    BY <1>4, <1>5 DEF SameLinks, SameKeys, SameValues, SameFlags, g
<1>6. CASE ~out
  <2> HIDE DEF n1, n2, n3, next, prev, out
  <2>n1. n1 = set_add_next(h.node, prev, next)
    BY DEF n1
  <2>n2. n2 = set_add_prev(n1, next, prev)
    BY DEF n2
  <2>n3. n3 = [n2 EXCEPT ![n].add_next_ = Nil, ![n].add_prev_ = Nil]
    BY DEF n3
  <2>1. n1 \in [Nodes -> NodeRec]
    BY <1>0, <2>n1, SetAddNext
  <2>2. n2 \in [Nodes -> NodeRec]
    BY <1>0, <2>1, <2>n2, SetAddPrev
  <2>3. n3 \in [Nodes -> NodeRec]
    BY <1>0, <2>2, <2>n3, ZenonT(40) DEF NodeRec
  <2>4. /\ g \in PoolRec /\ g.node = n3 /\ g.bucket = h.bucket /\ g.free_list_ = h.free_list_
        /\ g.used_node_num_ = h.used_node_num_ /\ g.a = h.a
        /\ g.add_head_ = (IF h.add_head_ = n THEN next ELSE h.add_head_)
        /\ g.add_tail_ = (IF h.add_tail_ = n THEN prev ELSE h.add_tail_)
    BY <1>0, <2>3, <1>4, <1>6 DEF PoolRec
  <2>5. \A m \in Nodes : /\ n3[m].add_next_ = IF m = n THEN Nil ELSE IF m = prev THEN next ELSE h.node[m].add_next_
                         /\ n3[m].add_prev_ = IF m = n THEN Nil ELSE IF m = next THEN prev ELSE h.node[m].add_prev_
    <3>1. \A m \in Nodes : n1[m].add_next_ = (IF m = prev THEN next ELSE h.node[m].add_next_) /\ n1[m].add_prev_ = h.node[m].add_prev_
      BY <1>0, <2>n1, SetAddNext
    <3>2. \A m \in Nodes : n2[m].add_prev_ = (IF m = next THEN prev ELSE n1[m].add_prev_) /\ n2[m].add_next_ = n1[m].add_next_
      BY <1>0, <2>1, <2>n2, SetAddPrev
    <3>3. \A m \in Nodes : n3[m].add_next_ = (IF m = n THEN Nil ELSE n2[m].add_next_) /\ n3[m].add_prev_ = (IF m = n THEN Nil ELSE n2[m].add_prev_)
      BY <1>0, <2>2, <2>n3, SetAddBoth
    <3> QED BY <3>1, <3>2, <3>3
  <2>6. \A m \in Nodes : /\ n3[m].node_next_ = h.node[m].node_next_ /\ n3[m].node_prev_ = h.node[m].node_prev_
                         /\ n3[m].key_ = h.node[m].key_ /\ n3[m].chunk_len_ = h.node[m].chunk_len_
                         /\ n3[m].chunk_head_ = h.node[m].chunk_head_ /\ n3[m].flag_ = h.node[m].flag_
    <3>1. \A m \in Nodes : /\ n1[m].node_next_ = h.node[m].node_next_ /\ n1[m].node_prev_ = h.node[m].node_prev_
                           /\ n1[m].key_ = h.node[m].key_ /\ n1[m].chunk_len_ = h.node[m].chunk_len_
                           /\ n1[m].chunk_head_ = h.node[m].chunk_head_ /\ n1[m].flag_ = h.node[m].flag_
      BY <1>0, <2>n1, SetAddNext
    <3>2. \A m \in Nodes : /\ n2[m].node_next_ = n1[m].node_next_ /\ n2[m].node_prev_ = n1[m].node_prev_
                           /\ n2[m].key_ = n1[m].key_ /\ n2[m].chunk_len_ = n1[m].chunk_len_
                           /\ n2[m].chunk_head_ = n1[m].chunk_head_ /\ n2[m].flag_ = n1[m].flag_
      BY <1>0, <2>1, <2>n2, SetAddPrev
    <3>3. \A m \in Nodes : /\ n3[m].node_next_ = n2[m].node_next_ /\ n3[m].node_prev_ = n2[m].node_prev_
                           /\ n3[m].key_ = n2[m].key_ /\ n3[m].chunk_len_ = n2[m].chunk_len_
                           /\ n3[m].chunk_head_ = n2[m].chunk_head_ /\ n3[m].flag_ = n2[m].flag_
      BY <1>0, <2>2, <2>n3, SetAddBoth
    <3> QED BY <3>1, <3>2, <3>3
  <2> QED BY <1>6, <2>4, <2>5, <2>6 DEF SameLinks, SameKeys, SameValues, SameFlags, g, next, prev, out
<1> QED BY <1>5, <1>6 DEF g

\* s without n; s with n moved, or put, to its head.
Without(s, n) == IF n \in Ran(s) THEN Cut(s, CHOOSE k \in 1..Len(s) : s[k] = n) ELSE s
Touch(s, n) == Push(Without(s, n), n)

\* Only the add list differs.
OnlyAdd(g, h) == SameLinks(g, h) /\ SameKeys(g, h) /\ SameValues(g, h) /\ SameFlags(g, h)

\* delete_from_add_list takes the node out of the add list, if it is there.
LEMMA DelAdd ==
    ASSUME NEW h \in PoolRec, NEW n \in Nodes, NEW A, AddShape(h, A)
    PROVE  /\ delete_from_add_list(h, n) \in PoolRec
           /\ OnlyAdd(delete_from_add_list(h, n), h)
           /\ AddShape(delete_from_add_list(h, n), Without(A, n))
           /\ Ran(Without(A, n)) = Ran(A) \ {n}
           /\ Len(Without(A, n)) = IF n \in Ran(A) THEN Len(A) - 1 ELSE Len(A)
<1> DEFINE g == delete_from_add_list(h, n)
<1> DEFINE next == h.node[n].add_next_
<1> DEFINE prev == h.node[n].add_prev_
<1> DEFINE out == next = Nil /\ prev = Nil /\ h.add_head_ # n /\ h.add_tail_ # n
<1>1. /\ g \in PoolRec /\ OnlyAdd(g, h)
      /\ out => g = h
      /\ ~out => /\ \A m \in Nodes : /\ g.node[m].add_next_ = IF m = n THEN Nil ELSE IF m = prev THEN next ELSE h.node[m].add_next_
                                     /\ g.node[m].add_prev_ = IF m = n THEN Nil ELSE IF m = next THEN prev ELSE h.node[m].add_prev_
                 /\ g.add_head_ = IF h.add_head_ = n THEN next ELSE h.add_head_
                 /\ g.add_tail_ = IF h.add_tail_ = n THEN prev ELSE h.add_tail_
    BY DelAddEffect DEF OnlyAdd
<1> HIDE DEF g
<1>2. /\ IsList(Nodes, add_nexts(h), h.add_head_, A) /\ IsBack(add_prevs(h), A) /\ h.add_tail_ = End(A)
      /\ \A m \in Nodes \ Ran(A) : h.node[m].add_next_ = Nil /\ h.node[m].add_prev_ = Nil
    BY DEF AddShape
<1>3. /\ \A m \in Nodes : add_nexts(h)[m] = h.node[m].add_next_ /\ add_prevs(h)[m] = h.node[m].add_prev_
      /\ \A m \in Nodes : add_nexts(g)[m] = g.node[m].add_next_ /\ add_prevs(g)[m] = g.node[m].add_prev_
    BY DEF add_nexts, add_prevs
<1>4. A \in Seq(Nodes) /\ Len(A) \in Nat /\ (\A i \in 1..Len(A) : A[i] \in Ran(A) /\ A[i] \in Nodes) /\ Ran(A) \subseteq Nodes
    BY <1>2 DEF IsList, Ran
<1>5. CASE n \notin Ran(A)
  <2>1. h.add_head_ # n /\ h.add_tail_ # n
    BY <1>2, <1>4, <1>5, Sets DEF IsList, End
  <2>2. out
    BY <1>2, <1>5, <2>1
  <2>3. Without(A, n) = A
    BY <1>5 DEF Without
  <2> QED BY <1>1, <1>5, <2>2, <2>3 DEF g
<1>6. CASE n \in Ran(A)
  <2> DEFINE k == CHOOSE i \in 1..Len(A) : A[i] = n
  <2>1. k \in 1..Len(A) /\ A[k] = n
    BY <1>6 DEF Ran
  <2>2. Without(A, n) = Cut(A, k)
    BY <1>6 DEF Without
  <2> HIDE DEF k
  <2>3. ~out
    <3>1. /\ next = (IF k = Len(A) THEN Nil ELSE A[k + 1])
          /\ h.add_tail_ = A[Len(A)]
      BY <1>2, <1>3, <1>4, <2>1 DEF IsList, End
    <3>2. CASE k = Len(A)
      BY <2>1, <3>1, <3>2
    <3>3. CASE k # Len(A)
      <4>1. k + 1 \in 1..Len(A)
        BY <1>4, <2>1, <3>3
      <4>2. A[k + 1] \in Nodes
        BY <1>4, <4>1
      <4> QED BY <3>1, <3>3, <4>2, Sets
    <3> QED BY <3>2, <3>3
  <2>4. /\ \A m \in Nodes : /\ g.node[m].add_next_ = IF m = n THEN Nil ELSE IF m = prev THEN next ELSE h.node[m].add_next_
                           /\ g.node[m].add_prev_ = IF m = n THEN Nil ELSE IF m = next THEN prev ELSE h.node[m].add_prev_
        /\ g.add_head_ = IF h.add_head_ = n THEN next ELSE h.add_head_
        /\ g.add_tail_ = IF h.add_tail_ = n THEN prev ELSE h.add_tail_
    BY <1>1, <2>3
  <2> HIDE DEF out
  <2>5. Unlinked(A, n, add_nexts(h), add_prevs(h), add_nexts(g), add_prevs(g))
    BY <1>3, <1>4, <2>4 DEF Unlinked
  <2>6. g.add_head_ = IF h.add_head_ = n THEN add_nexts(h)[n] ELSE h.add_head_
    BY <1>3, <2>4
  <2>7. /\ IsList(Nodes, add_nexts(g), g.add_head_, Cut(A, k))
        /\ IsBack(add_prevs(g), Cut(A, k))
        /\ Len(Cut(A, k)) = Len(A) - 1
        /\ Ran(Cut(A, k)) = Ran(A) \ {n}
        /\ End(Cut(A, k)) = IF End(A) = n THEN add_prevs(h)[n] ELSE End(A)
    <3>1. Deleting(Nodes, add_nexts(h), add_prevs(h), add_nexts(g), add_prevs(g), h.add_head_, g.add_head_, A, k, n)
      BY <1>2, <2>1, <2>5, <2>6 DEF Deleting
    <3>2. Deleted(Nodes, add_nexts(g), add_prevs(g), g.add_head_, A, Cut(A, k), add_prevs(h)[n], n)
      BY <3>1, ListDel, Sets
    <3> QED BY <3>2 DEF Deleted
  <2>8. End(Cut(A, k)) = g.add_tail_
    BY <1>2, <1>3, <2>4, <2>7
  <2>9. \A m \in Nodes \ (Ran(A) \ {n}) : g.node[m].add_next_ = Nil /\ g.node[m].add_prev_ = Nil
    <3> TAKE m \in Nodes \ (Ran(A) \ {n})
    <3>1. CASE m = n
      BY <2>4, <3>1
    <3>2. CASE m # n
      <4>1. m \in Nodes \ Ran(A) /\ m # Nil
        BY <3>2, Sets
      <4>2. next \in Ran(A) \cup {Nil}
        <5>1. add_nexts(h)[A[k]] = IF k = Len(A) THEN Nil ELSE A[k + 1]
          BY <1>2, <2>1 DEF IsList
        <5>2. k # Len(A) => k + 1 \in 1..Len(A)
          BY <1>4, <2>1
        <5> QED BY <1>3, <1>4, <2>1, <5>1, <5>2
      <4>3. prev \in Ran(A) \cup {Nil}
        <5>1. add_prevs(h)[A[k]] = IF k = 1 THEN Nil ELSE A[k - 1]
          BY <1>2, <2>1 DEF IsBack
        <5>2. k # 1 => k - 1 \in 1..Len(A)
          BY <1>4, <2>1
        <5> QED BY <1>3, <1>4, <2>1, <5>1, <5>2
      <4> QED BY <1>2, <2>4, <3>2, <4>1, <4>2, <4>3
    <3> QED BY <3>1, <3>2
  <2>10. AddShape(g, Cut(A, k))
    BY <2>7, <2>8, <2>9 DEF AddShape
  <2> QED BY <1>1, <1>6, <2>2, <2>7, <2>10 DEF g
<1> QED BY <1>5, <1>6

\* insert_add_list_head moves the node to the head of the add list.
LEMMA InsAdd ==
    ASSUME NEW h0 \in PoolRec, NEW n \in Nodes, NEW A, AddShape(h0, A)
    PROVE  /\ insert_add_list_head(h0, n) \in PoolRec
           /\ OnlyAdd(insert_add_list_head(h0, n), h0)
           /\ AddShape(insert_add_list_head(h0, n), Touch(A, n))
           /\ Ran(Touch(A, n)) = Ran(A) \cup {n}
           /\ Len(Touch(A, n)) = IF n \in Ran(A) THEN Len(A) ELSE Len(A) + 1
<1> DEFINE h == delete_from_add_list(h0, n)
<1> DEFINE W == Without(A, n)
<1> DEFINE next == h.add_head_
<1> DEFINE n1 == [h.node EXCEPT ![n].add_next_ = next, ![n].add_prev_ = Nil]
<1> DEFINE n2 == set_add_prev(n1, next, n)
<1> DEFINE g == insert_add_list_head(h0, n)
<1>1. /\ h \in PoolRec /\ OnlyAdd(h, h0) /\ AddShape(h, W) /\ Ran(W) = Ran(A) \ {n}
      /\ Len(W) = IF n \in Ran(A) THEN Len(A) - 1 ELSE Len(A)
    BY DelAdd
<1>2. g = [h EXCEPT !.node = n2, !.add_head_ = n, !.add_tail_ = IF h.add_tail_ = Nil THEN n ELSE h.add_tail_]
    BY DEF insert_add_list_head
<1>3. n1 = [h.node EXCEPT ![n].add_next_ = next, ![n].add_prev_ = Nil]
    OBVIOUS
<1>3b. n2 = set_add_prev(n1, next, n)
    OBVIOUS
<1> HIDE DEF h, W, n1, n2, g, next
<1>4. /\ h.node \in [Nodes -> NodeRec] /\ next \in NodePtr /\ h.add_tail_ \in NodePtr
      /\ Nil \in NodePtr /\ n \in NodePtr
    BY <1>1 DEF PoolRec, NodePtr, next
<1>5. n1 \in [Nodes -> NodeRec]
    BY <1>3, <1>4 DEF NodeRec
<1>6. n2 \in [Nodes -> NodeRec]
    BY <1>3b, <1>4, <1>5, SetAddPrev
<1>7. /\ g \in PoolRec /\ g.node = n2 /\ g.bucket = h.bucket /\ g.free_list_ = h.free_list_
      /\ g.used_node_num_ = h.used_node_num_ /\ g.a = h.a
      /\ g.add_head_ = n
      /\ g.add_tail_ = (IF h.add_tail_ = Nil THEN n ELSE h.add_tail_)
    BY <1>1, <1>2, <1>4, <1>6 DEF PoolRec
<1>8. \A m \in Nodes : /\ n2[m].add_next_ = IF m = n THEN next ELSE h.node[m].add_next_
                       /\ n2[m].add_prev_ = IF m = next THEN n ELSE IF m = n THEN Nil ELSE h.node[m].add_prev_
  <2>1. \A m \in Nodes : n1[m].add_next_ = (IF m = n THEN next ELSE h.node[m].add_next_) /\ n1[m].add_prev_ = (IF m = n THEN Nil ELSE h.node[m].add_prev_)
    BY <1>3, <1>4, SetAddBoth
  <2>2. \A m \in Nodes : n2[m].add_prev_ = (IF m = next THEN n ELSE n1[m].add_prev_) /\ n2[m].add_next_ = n1[m].add_next_
    BY <1>3b, <1>4, <1>5, SetAddPrev
  <2> QED BY <2>1, <2>2
<1>9. \A m \in Nodes : /\ n2[m].node_next_ = h.node[m].node_next_ /\ n2[m].node_prev_ = h.node[m].node_prev_
                       /\ n2[m].key_ = h.node[m].key_ /\ n2[m].chunk_len_ = h.node[m].chunk_len_
                       /\ n2[m].chunk_head_ = h.node[m].chunk_head_ /\ n2[m].flag_ = h.node[m].flag_
  <2>1. \A m \in Nodes : /\ n1[m].node_next_ = h.node[m].node_next_ /\ n1[m].node_prev_ = h.node[m].node_prev_
                         /\ n1[m].key_ = h.node[m].key_ /\ n1[m].chunk_len_ = h.node[m].chunk_len_
                         /\ n1[m].chunk_head_ = h.node[m].chunk_head_ /\ n1[m].flag_ = h.node[m].flag_
    BY <1>3, <1>4, SetAddBoth
  <2>2. \A m \in Nodes : /\ n2[m].node_next_ = n1[m].node_next_ /\ n2[m].node_prev_ = n1[m].node_prev_
                         /\ n2[m].key_ = n1[m].key_ /\ n2[m].chunk_len_ = n1[m].chunk_len_
                         /\ n2[m].chunk_head_ = n1[m].chunk_head_ /\ n2[m].flag_ = n1[m].flag_
    BY <1>3b, <1>4, <1>5, SetAddPrev
  <2> QED BY <2>1, <2>2
<1>10. OnlyAdd(g, h0)
    BY <1>1, <1>7, <1>9 DEF OnlyAdd, SameLinks, SameKeys, SameValues, SameFlags
<1>11. /\ IsList(Nodes, add_nexts(h), next, W) /\ IsBack(add_prevs(h), W) /\ h.add_tail_ = End(W)
       /\ \A m \in Nodes \ Ran(W) : h.node[m].add_next_ = Nil /\ h.node[m].add_prev_ = Nil
    BY <1>1 DEF AddShape, next
<1>12. /\ \A m \in Nodes : add_nexts(h)[m] = h.node[m].add_next_ /\ add_prevs(h)[m] = h.node[m].add_prev_
       /\ \A m \in Nodes : add_nexts(g)[m] = g.node[m].add_next_ /\ add_prevs(g)[m] = g.node[m].add_prev_
    BY DEF add_nexts, add_prevs
<1>13. Ran(W) \subseteq Nodes /\ n \notin Ran(W) /\ (next # Nil => next \in Ran(W) /\ next # n) /\ Len(W) \in Nat
  <2>1. W \in Seq(Nodes) /\ Len(W) \in Nat /\ \A i \in 1..Len(W) : W[i] \in Nodes
    BY <1>11 DEF IsList
  <2>2. next = IF Len(W) = 0 THEN Nil ELSE W[1]
    BY <1>11 DEF IsList
  <2>3. Len(W) # 0 => 1 \in 1..Len(W)
    BY <2>1
  <2> QED BY <1>1, <2>1, <2>2, <2>3 DEF Ran
<1>14. add_nexts(g)[n] = next /\ SameOn(Ran(W), add_nexts(g), add_nexts(h))
    BY <1>7, <1>8, <1>12, <1>13 DEF SameOn
<1>15. /\ IsList(Nodes, add_nexts(g), n, Push(W, n)) /\ Len(Push(W, n)) = Len(W) + 1
       /\ Ran(Push(W, n)) = Ran(W) \cup {n}
       /\ End(Push(W, n)) = IF End(W) = Nil THEN n ELSE End(W)
    BY <1>11, <1>13, <1>14, ListPush, Sets
<1>16. PushedBack(W, n, next, add_prevs(h), add_prevs(g))
    BY <1>7, <1>8, <1>12, <1>13, Sets DEF PushedBack
<1>17. IsBack(add_prevs(g), Push(W, n))
    BY <1>11, <1>16, BackPush, Sets
<1>18. \A m \in Nodes \ (Ran(W) \cup {n}) : g.node[m].add_next_ = Nil /\ g.node[m].add_prev_ = Nil
    BY <1>7, <1>8, <1>11, <1>13, Sets
<1>19. g.add_tail_ = End(Push(W, n))
    BY <1>7, <1>11, <1>15
<1>20. AddShape(g, Push(W, n))
    BY <1>7, <1>15, <1>17, <1>18, <1>19 DEF AddShape
<1>21. Touch(A, n) = Push(W, n)
    BY DEF Touch, W
<1>22. Ran(A) \cup {n} = Ran(W) \cup {n}
    BY <1>1
<1>23. Len(Push(W, n)) = IF n \in Ran(A) THEN Len(A) ELSE Len(A) + 1
  <2>1. Len(A) \in Nat
    BY DEF AddShape, IsList
  <2> QED BY <1>1, <1>15, <2>1
<1> QED BY <1>7, <1>10, <1>15, <1>20, <1>21, <1>22, <1>23 DEF g

-----------------------------------------------------------------------------
(* The bucket lists and the free list of nodes.                            *)

\* The nodes U are in the lists B of their keys' buckets, the free list is F.
LinkShape(h, U, B, F) ==
    /\ U \subseteq Nodes /\ B \in [Buckets -> Seq(Nodes)]
    /\ \A b \in Buckets : /\ IsList(Nodes, node_nexts(h), h.bucket[b], B[b])
                          /\ IsBack(node_prevs(h), B[b])
                          /\ Ran(B[b]) = {n \in U : get_bucket_id(h.node[n].key_) = b}
    /\ IsList(Nodes, node_nexts(h), h.free_list_, F)
    /\ U \cap Ran(F) = {}

\* Only the links of the nodes and the count of used ones differ.
OnlyLinks(g, h) == SameAdd(g, h) /\ SameKeys(g, h) /\ SameValues(g, h) /\ SameFlags(g, h)

\* A key's bucket is one of the buckets.
LEMMA BucketOf ==
    ASSUME NEW k \in Nat
    PROVE  get_bucket_id(k) \in Buckets
    BY Sets DEF get_bucket_id, Buckets

\* The bucket and free lists of a pool whose node links are the same.
LEMMA LinkSame ==
    ASSUME NEW h, NEW g, NEW U, NEW B, NEW F, LinkShape(h, U, B, F), SameLinks(g, h),
           \A n \in U : g.node[n].key_ = h.node[n].key_
    PROVE  LinkShape(g, U, B, F)
<1>1. node_nexts(g) = node_nexts(h) /\ node_prevs(g) = node_prevs(h)
    BY DEF node_nexts, node_prevs, SameLinks
<1>2. \A b \in Buckets : {n \in U : get_bucket_id(g.node[n].key_) = b} = {n \in U : get_bucket_id(h.node[n].key_) = b}
    OBVIOUS
<1> QED BY <1>1, <1>2 DEF LinkShape, SameLinks

\* The four columns of links, read at a node.
LEMMA NodeCols ==
    ASSUME NEW h
    PROVE  \A m \in Nodes : /\ node_nexts(h)[m] = h.node[m].node_next_ /\ node_prevs(h)[m] = h.node[m].node_prev_
                            /\ add_nexts(h)[m] = h.node[m].add_next_ /\ add_prevs(h)[m] = h.node[m].add_prev_
    BY DEF node_nexts, node_prevs, add_nexts, add_prevs

\* The facts of a shape, without the definition.
LEMMA LinkFacts ==
    ASSUME NEW h \in PoolRec, NEW U, NEW B, NEW F, LinkShape(h, U, B, F)
    PROVE  /\ U \subseteq Nodes /\ Ran(F) \subseteq Nodes /\ U \cap Ran(F) = {}
           /\ \A b \in Buckets : Ran(B[b]) \subseteq U
           /\ \A b \in Buckets : IsList(Nodes, node_nexts(h), h.bucket[b], B[b])
           /\ \A b \in Buckets : IsBack(node_prevs(h), B[b])
           /\ \A b \in Buckets : \A n \in U : n \in Ran(B[b]) <=> get_bucket_id(h.node[n].key_) = b
           /\ IsList(Nodes, node_nexts(h), h.free_list_, F)
           /\ \A n \in Nodes : h.node[n].key_ \in Nat /\ get_bucket_id(h.node[n].key_) \in Buckets
           /\ B \in [Buckets -> Seq(Nodes)]
<1>1. \A n \in Nodes : h.node[n].key_ \in Nat
  <2>1. \A n \in Nodes : h.node[n].key_ \in Keys \cup {0}
    BY DEF PoolRec, NodeRec
  <2>2. Keys \cup {0} \subseteq Nat
    BY NodeAssumption
  <2> QED BY <2>1, <2>2
<1>2. Ran(F) \subseteq Nodes
    BY DEF LinkShape, IsList, Ran
<1>3. \A n \in Nodes : get_bucket_id(h.node[n].key_) \in Buckets
    BY <1>1, BucketOf
<1>4. \A b \in Buckets : Ran(B[b]) = {n \in U : get_bucket_id(h.node[n].key_) = b}
    BY DEF LinkShape
<1>5. \A b \in Buckets : Ran(B[b]) \subseteq U /\ \A n \in U : n \in Ran(B[b]) <=> get_bucket_id(h.node[n].key_) = b
    BY <1>4
<1> QED BY <1>1, <1>2, <1>3, <1>5 DEF LinkShape

\* free_list_remove takes the head of the free list.
LEMMA FreeRemove ==
    ASSUME NEW h \in PoolRec, NEW U, NEW B, NEW F, LinkShape(h, U, B, F), NEW n, n = h.free_list_, n # Nil,
           NEW g, g = free_list_remove(h, n)
    PROVE  /\ g \in PoolRec /\ OnlyLinks(g, h) /\ g.used_node_num_ = h.used_node_num_
           /\ LinkShape(g, U, B, Pop(F)) /\ Ran(Pop(F)) = Ran(F) \ {n} /\ Len(Pop(F)) = Len(F) - 1
           /\ n \in Ran(F) /\ n \in Nodes
<1>1. n \in Nodes /\ h.node \in [Nodes -> NodeRec] /\ h.node[n].node_next_ \in NodePtr /\ Nil \in NodePtr
    BY DEF PoolRec, NodePtr, NodeRec
<1>2. g.node = [h.node EXCEPT ![n].node_next_ = Nil] /\ g.free_list_ = h.node[n].node_next_
      /\ g.bucket = h.bucket /\ g.add_head_ = h.add_head_ /\ g.add_tail_ = h.add_tail_ /\ g.a = h.a
      /\ g.used_node_num_ = h.used_node_num_
    BY DEF free_list_remove, PoolRec
<1>3. g.node \in [Nodes -> NodeRec]
    BY <1>1, <1>2 DEF NodeRec
<1>4. g \in PoolRec
    BY <1>1, <1>2, <1>3 DEF free_list_remove, PoolRec
<1>5. \A m \in Nodes : g.node[m].node_next_ = (IF m = n THEN Nil ELSE h.node[m].node_next_) /\ g.node[m].node_prev_ = h.node[m].node_prev_
    BY <1>1, <1>2 DEF NodeRec
<1>6. OnlyLinks(g, h)
    BY <1>1, <1>2 DEF NodeRec, OnlyLinks, SameAdd, SameKeys, SameValues, SameFlags
<1>f. /\ U \subseteq Nodes /\ Ran(F) \subseteq Nodes /\ U \cap Ran(F) = {} /\ B \in [Buckets -> Seq(Nodes)]
      /\ \A b \in Buckets : Ran(B[b]) \subseteq U
      /\ \A b \in Buckets : IsList(Nodes, node_nexts(h), h.bucket[b], B[b]) /\ IsBack(node_prevs(h), B[b])
      /\ IsList(Nodes, node_nexts(h), n, F)
    BY LinkFacts
<1>7. SameOn(Ran(F) \ {n}, node_nexts(g), node_nexts(h))
    BY <1>5, <1>f, NodeCols DEF SameOn
<1>8. /\ IsList(Nodes, node_nexts(g), node_nexts(h)[n], Pop(F)) /\ Len(Pop(F)) = Len(F) - 1
      /\ n \in Ran(F) /\ Ran(Pop(F)) = Ran(F) \ {n}
    BY <1>7, <1>f, ListPop, Sets
<1>9. node_nexts(h)[n] = g.free_list_
    BY <1>1, <1>2, NodeCols
<1>10. ASSUME NEW b \in Buckets
       PROVE  /\ IsList(Nodes, node_nexts(g), g.bucket[b], B[b]) /\ IsBack(node_prevs(g), B[b])
              /\ Ran(B[b]) = {m \in U : get_bucket_id(g.node[m].key_) = b}
  <2>1. SameOn(Ran(B[b]), node_nexts(g), node_nexts(h)) /\ SameOn(Ran(B[b]), node_prevs(g), node_prevs(h))
    BY <1>5, <1>8, <1>f, NodeCols DEF SameOn
  <2>2. IsList(Nodes, node_nexts(g), h.bucket[b], B[b])
    BY <1>f, <2>1, ListFrame
  <2>3. IsBack(node_prevs(g), B[b])
    BY <1>f, <2>1, BackFrame
  <2>4. Ran(B[b]) = {m \in U : get_bucket_id(g.node[m].key_) = b}
    BY <1>6, <1>f DEF LinkShape, OnlyLinks, SameKeys
  <2> QED BY <1>2, <2>2, <2>3, <2>4
<1>11. LinkShape(g, U, B, Pop(F))
    BY <1>8, <1>9, <1>10, <1>f DEF LinkShape
<1> QED BY <1>1, <1>2, <1>4, <1>6, <1>8, <1>11

\* free_list_insert puts a node that is in no list at the head of the free list.
LEMMA FreeInsert ==
    ASSUME NEW h \in PoolRec, NEW U, NEW B, NEW F, LinkShape(h, U, B, F), NEW n \in Nodes,
           n \notin U, n \notin Ran(F), NEW g, g = free_list_insert(h, n)
    PROVE  /\ g \in PoolRec /\ OnlyLinks(g, h) /\ g.used_node_num_ = h.used_node_num_
           /\ LinkShape(g, U, B, Push(F, n)) /\ Ran(Push(F, n)) = Ran(F) \cup {n} /\ Len(Push(F, n)) = Len(F) + 1
<1>1. h.node \in [Nodes -> NodeRec] /\ h.free_list_ \in NodePtr /\ n \in NodePtr
    BY DEF PoolRec, NodePtr, NodeRec
<1>2. g.node = [h.node EXCEPT ![n].node_next_ = h.free_list_] /\ g.free_list_ = n
      /\ g.bucket = h.bucket /\ g.add_head_ = h.add_head_ /\ g.add_tail_ = h.add_tail_ /\ g.a = h.a
      /\ g.used_node_num_ = h.used_node_num_
    BY DEF free_list_insert, PoolRec
<1>3. g.node \in [Nodes -> NodeRec]
    BY <1>1, <1>2 DEF NodeRec
<1>4. g \in PoolRec
    BY <1>1, <1>2, <1>3 DEF free_list_insert, PoolRec
<1>5. \A m \in Nodes : g.node[m].node_next_ = (IF m = n THEN h.free_list_ ELSE h.node[m].node_next_) /\ g.node[m].node_prev_ = h.node[m].node_prev_
    BY <1>1, <1>2 DEF NodeRec
<1>6. OnlyLinks(g, h)
    BY <1>1, <1>2 DEF NodeRec, OnlyLinks, SameAdd, SameKeys, SameValues, SameFlags
<1>f. /\ U \subseteq Nodes /\ Ran(F) \subseteq Nodes /\ U \cap Ran(F) = {} /\ B \in [Buckets -> Seq(Nodes)]
      /\ \A b \in Buckets : Ran(B[b]) \subseteq U
      /\ \A b \in Buckets : IsList(Nodes, node_nexts(h), h.bucket[b], B[b]) /\ IsBack(node_prevs(h), B[b])
      /\ IsList(Nodes, node_nexts(h), h.free_list_, F)
    BY LinkFacts
<1>7. node_nexts(g)[n] = h.free_list_ /\ SameOn(Ran(F), node_nexts(g), node_nexts(h))
    BY <1>5, <1>f, NodeCols DEF SameOn
<1>8. /\ IsList(Nodes, node_nexts(g), n, Push(F, n)) /\ Len(Push(F, n)) = Len(F) + 1
      /\ Ran(Push(F, n)) = Ran(F) \cup {n}
    BY <1>7, <1>f, ListPush, Sets
<1>10. ASSUME NEW b \in Buckets
       PROVE  /\ IsList(Nodes, node_nexts(g), g.bucket[b], B[b]) /\ IsBack(node_prevs(g), B[b])
              /\ Ran(B[b]) = {m \in U : get_bucket_id(g.node[m].key_) = b}
  <2>1. SameOn(Ran(B[b]), node_nexts(g), node_nexts(h)) /\ SameOn(Ran(B[b]), node_prevs(g), node_prevs(h))
    BY <1>5, <1>f, NodeCols DEF SameOn
  <2>2. IsList(Nodes, node_nexts(g), h.bucket[b], B[b])
    BY <1>f, <2>1, ListFrame
  <2>3. IsBack(node_prevs(g), B[b])
    BY <1>f, <2>1, BackFrame
  <2>4. Ran(B[b]) = {m \in U : get_bucket_id(g.node[m].key_) = b}
    BY <1>6, <1>f DEF LinkShape, OnlyLinks, SameKeys
  <2> QED BY <1>2, <2>2, <2>3, <2>4
<1>11. LinkShape(g, U, B, Push(F, n))
    BY <1>2, <1>8, <1>10, <1>f DEF LinkShape
<1> QED BY <1>2, <1>4, <1>6, <1>8, <1>11

\* insert_node_list puts a node that is in no list at the head of its key's bucket.
LEMMA BucketInsert ==
    ASSUME NEW h \in PoolRec, NEW U, NEW B, NEW F, LinkShape(h, U, B, F), NEW n \in Nodes,
           n \notin U, n \notin Ran(F), NEW g, g = insert_node_list(h, n)
    PROVE  /\ g \in PoolRec /\ OnlyLinks(g, h) /\ g.used_node_num_ = h.used_node_num_ + 1
           /\ \E B2 : LinkShape(g, U \cup {n}, B2, F)
<1> DEFINE b == get_bucket_id(h.node[n].key_)
<1> DEFINE next == h.bucket[b]
<1> DEFINE n1 == [h.node EXCEPT ![n].node_next_ = next, ![n].node_prev_ = Nil]
<1> DEFINE n2 == set_node_prev(n1, next, n)
<1>f. /\ U \subseteq Nodes /\ Ran(F) \subseteq Nodes /\ U \cap Ran(F) = {} /\ B \in [Buckets -> Seq(Nodes)]
      /\ \A c \in Buckets : Ran(B[c]) \subseteq U
      /\ \A c \in Buckets : IsList(Nodes, node_nexts(h), h.bucket[c], B[c]) /\ IsBack(node_prevs(h), B[c])
      /\ \A c \in Buckets : \A m \in U : m \in Ran(B[c]) <=> get_bucket_id(h.node[m].key_) = c
      /\ IsList(Nodes, node_nexts(h), h.free_list_, F)
      /\ b \in Buckets
    BY LinkFacts
<1>g. g = [h EXCEPT !.node = n2, !.bucket[b] = n, !.used_node_num_ = h.used_node_num_ + 1]
    BY DEF insert_node_list
<1>b. b = get_bucket_id(h.node[n].key_)
    OBVIOUS
<1>x. next = h.bucket[b]
    OBVIOUS
<1>n1. n1 = [h.node EXCEPT ![n].node_next_ = next, ![n].node_prev_ = Nil]
    OBVIOUS
<1>n2. n2 = set_node_prev(n1, next, n)
    OBVIOUS
<1> HIDE DEF b, next, n1, n2
<1>1. /\ h.node \in [Nodes -> NodeRec] /\ next \in NodePtr /\ n \in NodePtr /\ Nil \in NodePtr
      /\ h.used_node_num_ \in Int /\ h.bucket \in [Buckets -> NodePtr]
    BY <1>f, <1>x DEF PoolRec, NodePtr
<1>2. n1 \in [Nodes -> NodeRec]
    BY <1>1, <1>n1 DEF NodeRec
<1>3. n2 \in [Nodes -> NodeRec]
    BY <1>1, <1>2, <1>n2, SetNodePrev
<1>4. /\ g.node = n2 /\ g.bucket = [h.bucket EXCEPT ![b] = n] /\ g.used_node_num_ = h.used_node_num_ + 1
      /\ g.free_list_ = h.free_list_ /\ g.add_head_ = h.add_head_ /\ g.add_tail_ = h.add_tail_ /\ g.a = h.a
    BY <1>g DEF PoolRec
<1>5. g \in PoolRec
  <2>0. [h.bucket EXCEPT ![b] = n] \in [Buckets -> NodePtr]
    BY <1>1
  <2>1. h.used_node_num_ + 1 \in Int
    BY <1>1
  <2>2. g = [h EXCEPT !.node = n2, !.bucket = [h.bucket EXCEPT ![b] = n], !.used_node_num_ = h.used_node_num_ + 1]
    BY <1>g DEF PoolRec
  <2> QED BY <1>3, <2>0, <2>1, <2>2 DEF PoolRec
<1>6. \A m \in Nodes : /\ g.node[m].node_next_ = IF m = n THEN next ELSE h.node[m].node_next_
                       /\ g.node[m].node_prev_ = IF m = next THEN n ELSE IF m = n THEN Nil ELSE h.node[m].node_prev_
  <2>1. \A m \in Nodes : n1[m].node_next_ = (IF m = n THEN next ELSE h.node[m].node_next_) /\ n1[m].node_prev_ = (IF m = n THEN Nil ELSE h.node[m].node_prev_)
    BY <1>n1, <1>1, SetNodeBoth
  <2>2. \A m \in Nodes : n2[m].node_prev_ = (IF m = next THEN n ELSE n1[m].node_prev_) /\ n2[m].node_next_ = n1[m].node_next_
    BY <1>n2, <1>1, <1>2, SetNodePrev
  <2> QED BY <1>4, <2>1, <2>2
<1>7. OnlyLinks(g, h)
  <2>1. \A m \in Nodes : /\ n1[m].add_next_ = h.node[m].add_next_ /\ n1[m].add_prev_ = h.node[m].add_prev_
                         /\ n1[m].key_ = h.node[m].key_ /\ n1[m].chunk_len_ = h.node[m].chunk_len_
                         /\ n1[m].chunk_head_ = h.node[m].chunk_head_ /\ n1[m].flag_ = h.node[m].flag_
    BY <1>n1, <1>1, SetNodeBoth
  <2>2. \A m \in Nodes : /\ n2[m].add_next_ = n1[m].add_next_ /\ n2[m].add_prev_ = n1[m].add_prev_
                         /\ n2[m].key_ = n1[m].key_ /\ n2[m].chunk_len_ = n1[m].chunk_len_
                         /\ n2[m].chunk_head_ = n1[m].chunk_head_ /\ n2[m].flag_ = n1[m].flag_
    BY <1>n2, <1>1, <1>2, SetNodePrev
  <2> QED BY <1>4, <2>1, <2>2 DEF OnlyLinks, SameAdd, SameKeys, SameValues, SameFlags
<1> DEFINE B2 == [B EXCEPT ![b] = Push(B[b], n)]
<1>8. IsList(Nodes, node_nexts(h), next, B[b]) /\ IsBack(node_prevs(h), B[b]) /\ Ran(B[b]) \subseteq U
    BY <1>f, <1>x
<1>9. next # Nil => next \in Ran(B[b])
  <2>1. next = (IF Len(B[b]) = 0 THEN Nil ELSE B[b][1]) /\ Len(B[b]) \in Nat
    BY <1>8 DEF IsList
  <2>2. Len(B[b]) # 0 => 1 \in 1..Len(B[b])
    BY <2>1
  <2> QED BY <2>1, <2>2 DEF Ran
<1>10. node_nexts(g)[n] = next /\ SameOn(Ran(B[b]), node_nexts(g), node_nexts(h))
    BY <1>6, <1>8, <1>f, NodeCols DEF SameOn
<1>11. IsList(Nodes, node_nexts(g), n, Push(B[b], n)) /\ Ran(Push(B[b], n)) = Ran(B[b]) \cup {n}
  <2>1. n \notin Ran(B[b])
    BY <1>8
  <2> QED BY <1>8, <1>10, <2>1, ListPush, Sets
<1>12. IsBack(node_prevs(g), Push(B[b], n))
  <2>1. PushedBack(B[b], n, next, node_prevs(h), node_prevs(g))
    BY <1>6, <1>8, <1>9, <1>f, NodeCols, Sets DEF PushedBack
  <2> QED BY <1>8, <2>1, BackPush, Sets
<1>13. B2 \in [Buckets -> Seq(Nodes)] /\ B2[b] = Push(B[b], n) /\ \A c \in Buckets : c # b => B2[c] = B[c]
  <2>1. Push(B[b], n) \in Seq(Nodes)
    BY <1>11 DEF IsList
  <2> QED BY <1>f, <2>1
<1> HIDE DEF B2
<1>14. ASSUME NEW c \in Buckets
       PROVE  /\ IsList(Nodes, node_nexts(g), g.bucket[c], B2[c]) /\ IsBack(node_prevs(g), B2[c])
              /\ Ran(B2[c]) = {m \in U \cup {n} : get_bucket_id(g.node[m].key_) = c}
  <2>0. \A m \in Nodes : g.node[m].key_ = h.node[m].key_
    BY <1>7 DEF OnlyLinks, SameKeys
  <2>1. CASE c = b
    <3>1. \A m \in U \cup {n} : get_bucket_id(g.node[m].key_) = b <=> m \in Ran(B[b]) \cup {n}
      BY <1>b, <1>f, <2>0
    <3>2. Ran(B2[c]) = {m \in U \cup {n} : get_bucket_id(g.node[m].key_) = c}
      BY <1>8, <1>11, <1>13, <2>1, <3>1
    <3>3. g.bucket[c] = n
      BY <1>1, <1>4, <1>f, <2>1
    <3> QED BY <1>11, <1>12, <1>13, <2>1, <3>2, <3>3
  <2>2. CASE c # b
    <3>1. Ran(B[c]) \subseteq U /\ Ran(B[c]) \cap Ran(B[b]) = {} /\ n \notin Ran(B[c])
      BY <1>f, <2>2
    <3>2. SameOn(Ran(B[c]), node_nexts(g), node_nexts(h)) /\ SameOn(Ran(B[c]), node_prevs(g), node_prevs(h))
      <4>1. \A m \in Ran(B[c]) : m \in Nodes /\ m # n /\ m # next
        BY <1>9, <1>f, <3>1, Sets
      <4> QED BY <1>6, <4>1, NodeCols DEF SameOn
    <3>3. IsList(Nodes, node_nexts(g), h.bucket[c], B[c])
      BY <1>f, <3>2, ListFrame
    <3>4. IsBack(node_prevs(g), B[c])
      BY <1>f, <3>2, BackFrame
    <3>5. \A m \in U \cup {n} : get_bucket_id(g.node[m].key_) = c <=> m \in Ran(B[c])
      BY <1>b, <1>f, <2>0, <2>2, <3>1
    <3>6. Ran(B[c]) = {m \in U \cup {n} : get_bucket_id(g.node[m].key_) = c}
      BY <3>1, <3>5
    <3>7. g.bucket[c] = h.bucket[c]
      BY <1>1, <1>4, <1>f, <2>2
    <3> QED BY <1>13, <2>2, <3>3, <3>4, <3>6, <3>7
  <2> QED BY <2>1, <2>2
<1>15. IsList(Nodes, node_nexts(g), g.free_list_, F)
  <2>1. SameOn(Ran(F), node_nexts(g), node_nexts(h))
    BY <1>6, <1>f, NodeCols DEF SameOn
  <2> QED BY <1>4, <1>f, <2>1, ListFrame
<1>16. LinkShape(g, U \cup {n}, B2, F)
    BY <1>13, <1>14, <1>15, <1>f DEF LinkShape
<1> QED BY <1>4, <1>5, <1>7, <1>16

\* delete_from_node_list takes a node out of its key's bucket.
LEMMA BucketDelete ==
    ASSUME NEW h \in PoolRec, NEW U, NEW B, NEW F, LinkShape(h, U, B, F), NEW n \in U,
           NEW g, g = delete_from_node_list(h, n)
    PROVE  /\ g \in PoolRec /\ OnlyLinks(g, h) /\ g.used_node_num_ = h.used_node_num_ - 1
           /\ g.node[n].node_next_ = Nil /\ g.node[n].node_prev_ = Nil
           /\ \E B2 : LinkShape(g, U \ {n}, B2, F)
<1> DEFINE b == get_bucket_id(h.node[n].key_)
<1> DEFINE next == h.node[n].node_next_
<1> DEFINE prev == h.node[n].node_prev_
<1> DEFINE n1 == set_node_next(h.node, prev, next)
<1> DEFINE n2 == set_node_prev(n1, next, prev)
<1> DEFINE n3 == [n2 EXCEPT ![n].node_next_ = Nil, ![n].node_prev_ = Nil]
<1>f. /\ U \subseteq Nodes /\ Ran(F) \subseteq Nodes /\ U \cap Ran(F) = {} /\ B \in [Buckets -> Seq(Nodes)]
      /\ \A c \in Buckets : Ran(B[c]) \subseteq U
      /\ \A c \in Buckets : IsList(Nodes, node_nexts(h), h.bucket[c], B[c]) /\ IsBack(node_prevs(h), B[c])
      /\ \A c \in Buckets : \A m \in U : m \in Ran(B[c]) <=> get_bucket_id(h.node[m].key_) = c
      /\ IsList(Nodes, node_nexts(h), h.free_list_, F)
      /\ \A m \in Nodes : get_bucket_id(h.node[m].key_) \in Buckets
    BY LinkFacts
<1>n. n \in Nodes /\ b \in Buckets
    BY <1>f
<1>g. g = [h EXCEPT !.node = n3, !.bucket[b] = IF h.bucket[b] = n THEN next ELSE h.bucket[b], !.used_node_num_ = h.used_node_num_ - 1]
    BY DEF delete_from_node_list
<1>b. b = get_bucket_id(h.node[n].key_)
    OBVIOUS
<1>x. next = h.node[n].node_next_ /\ prev = h.node[n].node_prev_
    OBVIOUS
<1>n1. n1 = set_node_next(h.node, prev, next)
    OBVIOUS
<1>n2. n2 = set_node_prev(n1, next, prev)
    OBVIOUS
<1>n3. n3 = [n2 EXCEPT ![n].node_next_ = Nil, ![n].node_prev_ = Nil]
    OBVIOUS
<1> HIDE DEF b, next, prev, n1, n2, n3
<1>1. /\ h.node \in [Nodes -> NodeRec] /\ next \in NodePtr /\ prev \in NodePtr /\ Nil \in NodePtr
      /\ h.used_node_num_ \in Int /\ h.bucket \in [Buckets -> NodePtr]
    BY <1>n, <1>x DEF PoolRec, NodePtr, NodeRec
<1>2. n1 \in [Nodes -> NodeRec]
    BY <1>1, <1>n1, SetNodeNext
<1>3. n2 \in [Nodes -> NodeRec]
    BY <1>1, <1>2, <1>n2, SetNodePrev
<1>3a. n3 \in [Nodes -> NodeRec]
  <2>1. n \in Nodes /\ Nil \in NodePtr
    BY <1>1, <1>n
  <2> QED BY <1>3, <2>1, <1>n3, ZenonT(40) DEF NodeRec
<1>4. /\ g.node = n3 /\ g.bucket = [h.bucket EXCEPT ![b] = IF h.bucket[b] = n THEN next ELSE h.bucket[b]]
      /\ g.used_node_num_ = h.used_node_num_ - 1
      /\ g.free_list_ = h.free_list_ /\ g.add_head_ = h.add_head_ /\ g.add_tail_ = h.add_tail_ /\ g.a = h.a
    BY <1>g DEF PoolRec
<1>5. g \in PoolRec
  <2> DEFINE hd == IF h.bucket[b] = n THEN next ELSE h.bucket[b]
  <2>0. hd \in NodePtr
    BY <1>1, <1>n
  <2> HIDE DEF hd
  <2>1. [h.bucket EXCEPT ![b] = hd] \in [Buckets -> NodePtr]
    BY <1>1, <2>0
  <2>1a. h.used_node_num_ - 1 \in Int
    BY <1>1
  <2>2. g = [h EXCEPT !.node = n3, !.bucket = [h.bucket EXCEPT ![b] = hd], !.used_node_num_ = h.used_node_num_ - 1]
    BY <1>g DEF PoolRec, hd
  <2> QED BY <1>3a, <2>1, <2>1a, <2>2 DEF PoolRec
<1>6. \A m \in Nodes : /\ g.node[m].node_next_ = IF m = n THEN Nil ELSE IF m = prev THEN next ELSE h.node[m].node_next_
                       /\ g.node[m].node_prev_ = IF m = n THEN Nil ELSE IF m = next THEN prev ELSE h.node[m].node_prev_
  <2>1. \A m \in Nodes : n1[m].node_next_ = (IF m = prev THEN next ELSE h.node[m].node_next_) /\ n1[m].node_prev_ = h.node[m].node_prev_
    BY <1>n1, <1>1, SetNodeNext
  <2>2. \A m \in Nodes : n2[m].node_prev_ = (IF m = next THEN prev ELSE n1[m].node_prev_) /\ n2[m].node_next_ = n1[m].node_next_
    <3>1. next \in NodePtr /\ prev \in NodePtr
      BY <1>1
    <3> QED BY <1>n2, <1>2, <3>1, SetNodePrev
  <2>3. \A m \in Nodes : n3[m].node_prev_ = (IF m = n THEN Nil ELSE n2[m].node_prev_) /\ n3[m].node_next_ = (IF m = n THEN Nil ELSE n2[m].node_next_)
    BY <1>n3, <1>n, <1>1, <1>3, SetNodeBoth
  <2> QED BY <1>4, <2>1, <2>2, <2>3
<1>7. OnlyLinks(g, h)
  <2>1. \A m \in Nodes : /\ n1[m].add_next_ = h.node[m].add_next_ /\ n1[m].add_prev_ = h.node[m].add_prev_
                         /\ n1[m].key_ = h.node[m].key_ /\ n1[m].chunk_len_ = h.node[m].chunk_len_
                         /\ n1[m].chunk_head_ = h.node[m].chunk_head_ /\ n1[m].flag_ = h.node[m].flag_
    BY <1>n1, <1>1, SetNodeNext
  <2>2. \A m \in Nodes : /\ n2[m].add_next_ = n1[m].add_next_ /\ n2[m].add_prev_ = n1[m].add_prev_
                         /\ n2[m].key_ = n1[m].key_ /\ n2[m].chunk_len_ = n1[m].chunk_len_
                         /\ n2[m].chunk_head_ = n1[m].chunk_head_ /\ n2[m].flag_ = n1[m].flag_
    <3>1. next \in NodePtr /\ prev \in NodePtr
      BY <1>1
    <3>2. \A m \in Nodes : /\ n2[m].add_next_ = n1[m].add_next_ /\ n2[m].add_prev_ = n1[m].add_prev_
                           /\ n2[m].key_ = n1[m].key_
      BY <1>n2, <1>2, <3>1, SetNodePrev
    <3>3. \A m \in Nodes : /\ n2[m].chunk_len_ = n1[m].chunk_len_ /\ n2[m].chunk_head_ = n1[m].chunk_head_
                           /\ n2[m].flag_ = n1[m].flag_
      BY <1>n2, <1>2, <3>1, SetNodePrev
    <3> QED BY <3>2, <3>3
  <2>3. \A m \in Nodes : /\ n3[m].add_next_ = n2[m].add_next_ /\ n3[m].add_prev_ = n2[m].add_prev_
                         /\ n3[m].key_ = n2[m].key_ /\ n3[m].chunk_len_ = n2[m].chunk_len_
                         /\ n3[m].chunk_head_ = n2[m].chunk_head_ /\ n3[m].flag_ = n2[m].flag_
    BY <1>n3, <1>n, <1>1, <1>3, SetNodeBoth
  <2> QED BY <1>4, <2>1, <2>2, <2>3 DEF OnlyLinks, SameAdd, SameKeys, SameValues, SameFlags
<1>8. IsList(Nodes, node_nexts(h), h.bucket[b], B[b]) /\ IsBack(node_prevs(h), B[b]) /\ Ran(B[b]) \subseteq U /\ n \in Ran(B[b])
    BY <1>f, <1>n, <1>b
<1>9. PICK k \in 1..Len(B[b]) : n = B[b][k]
    BY <1>8 DEF Ran
<1>10. next \in Ran(B[b]) \cup {Nil} /\ prev \in Ran(B[b]) \cup {Nil}
  <2>1. /\ next = IF k = Len(B[b]) THEN Nil ELSE B[b][k + 1]
        /\ prev = IF k = 1 THEN Nil ELSE B[b][k - 1]
        /\ Len(B[b]) \in Nat
    BY <1>8, <1>9, <1>n, <1>x, NodeCols DEF IsList, IsBack
  <2>2. (k # Len(B[b]) => k + 1 \in 1..Len(B[b])) /\ (k # 1 => k - 1 \in 1..Len(B[b]))
    BY <2>1
  <2> QED BY <2>1, <2>2 DEF Ran
<1> DEFINE B2 == [B EXCEPT ![b] = Cut(B[b], k)]
<1>11. Deleted(Nodes, node_nexts(g), node_prevs(g), g.bucket[b], B[b], Cut(B[b], k), node_prevs(h)[n], n)
  <2>0. \A m \in Ran(B[b]) : m \in Nodes
    BY <1>8, <1>f
  <2>0a. /\ node_nexts(h)[n] = next /\ node_prevs(h)[n] = prev
         /\ \A m \in Nodes : node_nexts(h)[m] = h.node[m].node_next_ /\ node_prevs(h)[m] = h.node[m].node_prev_
         /\ \A m \in Nodes : node_nexts(g)[m] = g.node[m].node_next_ /\ node_prevs(g)[m] = g.node[m].node_prev_
    BY <1>n, <1>x, NodeCols
  <2>1. Unlinked(B[b], n, node_nexts(h), node_prevs(h), node_nexts(g), node_prevs(g))
    BY <1>6, <2>0, <2>0a DEF Unlinked
  <2>2. g.bucket[b] = IF h.bucket[b] = n THEN node_nexts(h)[n] ELSE h.bucket[b]
    BY <1>1, <1>4, <1>n, <1>x, NodeCols
  <2>3. Deleting(Nodes, node_nexts(h), node_prevs(h), node_nexts(g), node_prevs(g), h.bucket[b], g.bucket[b], B[b], k, n)
    BY <1>8, <1>9, <2>1, <2>2 DEF Deleting
  <2> QED BY <2>3, ListDel, Sets
<1>12. IsList(Nodes, node_nexts(g), g.bucket[b], Cut(B[b], k)) /\ IsBack(node_prevs(g), Cut(B[b], k)) /\ Ran(Cut(B[b], k)) = Ran(B[b]) \ {n}
    BY <1>11 DEF Deleted
<1>13. B2 \in [Buckets -> Seq(Nodes)] /\ B2[b] = Cut(B[b], k) /\ \A c \in Buckets : c # b => B2[c] = B[c]
  <2>1. Cut(B[b], k) \in Seq(Nodes)
    BY <1>12 DEF IsList
  <2> QED BY <1>f, <1>n, <2>1
<1> HIDE DEF B2
<1>14. ASSUME NEW c \in Buckets
       PROVE  /\ IsList(Nodes, node_nexts(g), g.bucket[c], B2[c]) /\ IsBack(node_prevs(g), B2[c])
              /\ Ran(B2[c]) = {m \in U \ {n} : get_bucket_id(g.node[m].key_) = c}
  <2>0. \A m \in Nodes : g.node[m].key_ = h.node[m].key_
    BY <1>7 DEF OnlyLinks, SameKeys
  <2>1. CASE c = b
    <3>1. \A m \in U \ {n} : get_bucket_id(g.node[m].key_) = b <=> m \in Ran(B[b]) \ {n}
      BY <1>n, <1>f, <2>0
    <3>2. Ran(B2[c]) = {m \in U \ {n} : get_bucket_id(g.node[m].key_) = c}
      BY <1>8, <1>12, <1>13, <2>1, <3>1
    <3> QED BY <1>12, <1>13, <2>1, <3>2
  <2>2. CASE c # b
    <3>1. Ran(B[c]) \subseteq U /\ Ran(B[c]) \cap Ran(B[b]) = {} /\ n \notin Ran(B[c])
      BY <1>f, <1>n, <1>8, <2>2
    <3>2. SameOn(Ran(B[c]), node_nexts(g), node_nexts(h)) /\ SameOn(Ran(B[c]), node_prevs(g), node_prevs(h))
      <4>1. \A m \in Ran(B[c]) : m \in Nodes /\ m # n /\ m # next /\ m # prev
        BY <1>10, <1>f, <3>1, Sets
      <4> QED BY <1>6, <4>1, NodeCols DEF SameOn
    <3>3. IsList(Nodes, node_nexts(g), h.bucket[c], B[c])
      BY <1>f, <3>2, ListFrame
    <3>4. IsBack(node_prevs(g), B[c])
      BY <1>f, <3>2, BackFrame
    <3>5. \A m \in U \ {n} : get_bucket_id(g.node[m].key_) = c <=> m \in Ran(B[c])
      BY <1>f, <2>0, <2>2, <3>1
    <3>6. Ran(B[c]) = {m \in U \ {n} : get_bucket_id(g.node[m].key_) = c}
      BY <3>1, <3>5
    <3>7. g.bucket[c] = h.bucket[c]
      BY <1>1, <1>4, <1>f, <2>2
    <3> QED BY <1>13, <2>2, <3>3, <3>4, <3>6, <3>7
  <2> QED BY <2>1, <2>2
<1>15. IsList(Nodes, node_nexts(g), g.free_list_, F)
  <2>0. n \notin Ran(F) /\ Ran(B[b]) \cap Ran(F) = {}
    BY <1>f, <1>8
  <2>1. SameOn(Ran(F), node_nexts(g), node_nexts(h))
    <3>1. \A m \in Ran(F) : m \in Nodes /\ m # n /\ m # next /\ m # prev
      BY <1>10, <1>f, <2>0, Sets
    <3> QED BY <1>6, <3>1, NodeCols DEF SameOn
  <2> QED BY <1>4, <1>f, <2>1, ListFrame
<1>16. LinkShape(g, U \ {n}, B2, F)
    BY <1>13, <1>14, <1>15, <1>f DEF LinkShape
<1>17. g.node[n].node_next_ = Nil /\ g.node[n].node_prev_ = Nil
    BY <1>6, <1>n
<1> QED BY <1>4, <1>5, <1>7, <1>16, <1>17

-----------------------------------------------------------------------------
(* Folds along a sequence.                                                 *)

\* What Max of a non-empty set of positions is.
LEMMA MaxPosition ==
    ASSUME NEW m \in Nat, NEW s \in SUBSET (1..m), s # {}
    PROVE  Max(s) \in s /\ \A y \in s : y <= Max(s)
<1> DEFINE P(n) == \A t \in SUBSET (1..n) : t # {} => \E x \in t : \A y \in t : x >= y
<1> DEFINE S == {n \in Nat : P(n)}
<1>1. P(0)
  <2>1. 1..0 = {}
    OBVIOUS
  <2> QED BY <2>1, Zenon
<1>2. ASSUME NEW n \in Nat, P(n) PROVE P(n + 1)
  <2> SUFFICES ASSUME NEW t \in SUBSET (1..(n + 1)), t # {} PROVE \E x \in t : \A y \in t : x >= y
    OBVIOUS
  <2>1. CASE n + 1 \in t
    BY <2>1
  <2>2. CASE n + 1 \notin t
    <3>1. t \in SUBSET (1..n) BY <2>2
    <3> QED BY <1>2, <3>1
  <2> QED BY <2>1, <2>2
<1>3. P(m)
  <2> HIDE DEF P
  <2>1. 0 \in S /\ \A n \in Nat : n \in S => n + 1 \in S
    BY <1>1, <1>2
  <2>2. Nat \subseteq S
    <3> HIDE DEF S
    <3> QED BY <2>1, NatInd
  <2> QED BY <2>2
<1>4. PICK x \in s : \A y \in s : x >= y
    BY <1>3
<1>5. Max(s) \in s /\ \A y \in s : Max(s) >= y
    BY <1>4, Zenon DEF Max
<1> QED BY <1>5

\* The choice of the fold along a sequence.
Maxima(N) == [s \in SUBSET (1..N) |-> Max(s)]

\* The fold takes the largest position that is left, and each is in range.
LEMMA MaximaChoose ==
    ASSUME NEW N \in Nat
    PROVE  /\ IsChoice(Maxima(N), 1..N) /\ IsFiniteSet(1..N) /\ Cardinality(1..N) = N
           /\ \A s \in SUBSET (1..N) : /\ Maxima(N)[s] = Max(s) /\ IsFiniteSet(s) /\ Cardinality(s) \in Nat
                                       /\ Cardinality(s) <= N
                                       /\ s # {} => /\ Max(s) \in s /\ Max(s) \in 1..N
                                                    /\ s \ {Max(s)} \in SUBSET (1..N)
                                                    /\ Cardinality(s) = Cardinality(s \ {Max(s)}) + 1
<1>1. \A s \in SUBSET (1..N) : Maxima(N)[s] = Max(s)
    BY DEF Maxima
<1>2. \A s \in SUBSET (1..N) : s # {} => Max(s) \in s
    BY MaxPosition
<1>3. IsChoice(Maxima(N), 1..N)
    BY <1>1, <1>2 DEF IsChoice
<1>4. IsFiniteSet(1..N) /\ Cardinality(1..N) = N
  <2>1. 1 \in Int /\ N \in Int
    OBVIOUS
  <2>2. IsFiniteSet(1..N) /\ Cardinality(1..N) = IF 1 > N THEN 0 ELSE N - 1 + 1
    BY <2>1, FS_Interval
  <2> QED BY <2>2
<1>5. ASSUME NEW s \in SUBSET (1..N)
      PROVE  /\ IsFiniteSet(s) /\ Cardinality(s) \in Nat /\ Cardinality(s) <= N
             /\ s # {} => Cardinality(s) = Cardinality(s \ {Max(s)}) + 1
  <2>1. IsFiniteSet(s) /\ Cardinality(s) \in Nat /\ Cardinality(s) <= N
    BY <1>4, FS_Subset, FS_CardinalityType
  <2>2. s # {} => Cardinality(s \ {Max(s)}) = Cardinality(s) - 1
    BY <1>2, <2>1, FS_RemoveElement
  <2>3. s # {} => Cardinality(s) = Cardinality(s \ {Max(s)}) + 1
    BY <2>1, <2>2
  <2> QED BY <2>1, <2>3
<1> QED BY <1>1, <1>2, <1>3, <1>4, <1>5

\* A fold whose step leads from V[s \ {Max(s)}] to V[s] ends in V[1..N].
Leads(G, N, b, V) ==
    /\ b \in V[{}]
    /\ \A s \in SUBSET (1..N) : s # {} => \A v \in V[s \ {Max(s)}] : G[<<Max(s), v>>] \in V[s]

FoldOf(f, G, N, b, V) ==
    /\ f = [s \in SUBSET (1..N) |-> f[s]]
    /\ \A s \in SUBSET (1..N) : f[s] \in V[s]
    /\ \A s \in SUBSET (1..N) : f[s] = IF s = {} THEN b ELSE G[<<Max(s), f[s \ {Max(s)}]>>]

\* A fold that leads through V exists.
LEMMA FoldSolves ==
    ASSUME NEW N \in Nat, NEW b, NEW G, NEW V, Leads(G, N, b, V)
    PROVE  \E f : FoldOf(f, G, N, b, V)
<1>1. PICK f : IsFold(f, 1..N, Maxima(N), b, G)
    BY MaximaChoose, FoldExists
<1>2. f = [s \in SUBSET (1..N) |-> f[s]]
    BY <1>1 DEF IsFold
<1>3. \A s \in SUBSET (1..N) : f[s] = IF s = {} THEN b ELSE G[<<Max(s), f[s \ {Max(s)}]>>]
  <2> TAKE s \in SUBSET (1..N)
  <2>1. f[s] = IF s = {} THEN b ELSE G[<<Maxima(N)[s], f[s \ {Maxima(N)[s]}]>>]
    BY <1>1 DEF IsFold
  <2>2. Maxima(N)[s] = Max(s)
    BY MaximaChoose
  <2> QED BY <2>1, <2>2, Zenon
<1> DEFINE X == {s \in SUBSET (1..N) : f[s] \in V[s]}
<1>4. {} \in X
    BY <1>3 DEF Leads
<1>5. ASSUME NEW s \in SUBSET (1..N), s # {}, s \ {Maxima(N)[s]} \in X PROVE s \in X
  <2>1. f[s \ {Max(s)}] \in V[s \ {Max(s)}]
    BY <1>5, MaximaChoose
  <2>2. G[<<Max(s), f[s \ {Max(s)}]>>] \in V[s]
    BY <1>5, <2>1 DEF Leads
  <2>3. f[s] = G[<<Max(s), f[s \ {Max(s)}]>>]
    BY <1>3, <1>5
  <2> QED BY <2>2, <2>3
<1>6. \A s \in SUBSET (1..N) : s \in X
  <2> HIDE DEF X
  <2>1. IsChoice(Maxima(N), 1..N) /\ IsFiniteSet(1..N)
    BY MaximaChoose
  <2>2. Inductive(X, 1..N, Maxima(N))
    BY <1>4, <1>5 DEF Inductive
  <2>3. SUBSET (1..N) \subseteq X
    BY <2>1, <2>2, SubsetInd
  <2> QED BY <2>3
<1>7. \A s \in SUBSET (1..N) : f[s] \in V[s]
    BY <1>6
<1> QED BY <1>2, <1>3, <1>7, Zenon DEF FoldOf

-----------------------------------------------------------------------------
(* The chunks.                                                             *)

\* k chunks of the free list G of the allocator a have been chained.
Mallocs == [a : AllocRec, head : ChunkPtr]
MallocInv(v, a, G, k) ==
    \E M, H :
        /\ IsList(Chunks, v.a.next_, v.head, M) /\ Len(M) = k
        /\ IsList(Chunks, v.a.next_, v.a.free_list_, H) /\ Len(H) = Len(G) - k
        /\ Ran(M) \cup Ran(H) = Ran(G) /\ Ran(M) \cap Ran(H) = {}
        /\ \A c \in Chunks \ Ran(G) : v.a.next_[c] = a.next_[c]
        /\ v.a.data_ = a.data_ /\ v.a.free_total_ = a.free_total_

\* One turn of malloc's loop moves the head of the free list to the chain.
LEMMA MallocOne ==
    ASSUME NEW v \in Mallocs, NEW a, NEW G, Len(G) \in Nat, NEW k \in Nat, k < Len(G), MallocInv(v, a, G, k)
    PROVE  malloc_one(v) \in Mallocs /\ MallocInv(malloc_one(v), a, G, k + 1)
<1> DEFINE c == v.a.free_list_
<1> DEFINE w == malloc_one(v)
<1>1. PICK M, H :
        /\ IsList(Chunks, v.a.next_, v.head, M) /\ Len(M) = k
        /\ IsList(Chunks, v.a.next_, c, H) /\ Len(H) = Len(G) - k
        /\ Ran(M) \cup Ran(H) = Ran(G) /\ Ran(M) \cap Ran(H) = {}
        /\ \A d \in Chunks \ Ran(G) : v.a.next_[d] = a.next_[d]
        /\ v.a.data_ = a.data_ /\ v.a.free_total_ = a.free_total_
    BY DEF MallocInv
<1>2. Len(H) # 0
    BY <1>1
<1>3. c # Nil /\ c \in Chunks
  <2>1. 1 \in 1..Len(H)
    BY <1>1, <1>2
  <2>2. c = H[1] /\ H[1] \in Chunks
    BY <1>1, <1>2, <2>1 DEF IsList
  <2> QED BY <2>2, Sets
<1>4. v.a \in AllocRec /\ v.head \in ChunkPtr /\ v.a.next_ \in [Chunks -> ChunkPtr] /\ v.a.next_[c] \in ChunkPtr
    BY <1>3 DEF Mallocs, AllocRec
<1>5. /\ w.head = c /\ w.a = [v.a EXCEPT !.free_list_ = v.a.next_[c], !.next_[c] = v.head]
      /\ w = [head |-> c, a |-> [v.a EXCEPT !.free_list_ = v.a.next_[c], !.next_[c] = v.head]]
    BY DEF malloc_one
<1> HIDE DEF c, w
<1>6. /\ w.a.next_ = [v.a.next_ EXCEPT ![c] = v.head] /\ w.a.free_list_ = v.a.next_[c]
      /\ w.a.data_ = v.a.data_ /\ w.a.free_total_ = v.a.free_total_
    BY <1>4, <1>5 DEF AllocRec
<1>7. w.a \in AllocRec
  <2>1. [v.a.next_ EXCEPT ![c] = v.head] \in [Chunks -> ChunkPtr]
    BY <1>4
  <2>2. w.a = [v.a EXCEPT !.free_list_ = v.a.next_[c], !.next_ = [v.a.next_ EXCEPT ![c] = v.head]]
    BY <1>4, <1>5 DEF AllocRec
  <2> QED BY <1>4, <2>1, <2>2 DEF AllocRec
<1>8. w \in Mallocs
    BY <1>3, <1>5, <1>7 DEF Mallocs, ChunkPtr
<1>9. \A d \in Chunks : w.a.next_[d] = IF d = c THEN v.head ELSE v.a.next_[d]
    BY <1>4, <1>6
<1>10. Ran(H) \subseteq Chunks /\ Ran(M) \subseteq Chunks
    BY <1>1 DEF IsList, Ran
<1>11. /\ IsList(Chunks, w.a.next_, v.a.next_[c], Pop(H)) /\ Len(Pop(H)) = Len(H) - 1
       /\ c \in Ran(H) /\ Ran(Pop(H)) = Ran(H) \ {c}
  <2>1. SameOn(Ran(H) \ {c}, w.a.next_, v.a.next_)
    BY <1>9, <1>10 DEF SameOn
  <2>2. IsList(Chunks, v.a.next_, c, H) /\ c # Nil /\ Nil \notin Chunks
    BY <1>1, <1>3, Sets
  <2> QED BY <2>1, <2>2, ListPop
<1>12. /\ IsList(Chunks, w.a.next_, c, Push(M, c)) /\ Len(Push(M, c)) = Len(M) + 1
       /\ Ran(Push(M, c)) = Ran(M) \cup {c}
  <2>1. c \notin Ran(M)
    BY <1>1, <1>11
  <2>2. w.a.next_[c] = v.head /\ SameOn(Ran(M), w.a.next_, v.a.next_)
    BY <1>3, <1>9, <1>10, <2>1 DEF SameOn
  <2> QED BY <1>1, <1>3, <2>1, <2>2, ListPush, Sets
<1>13. \A d \in Chunks \ Ran(G) : w.a.next_[d] = a.next_[d]
    BY <1>1, <1>9, <1>11
<1>14. Ran(Push(M, c)) \cup Ran(Pop(H)) = Ran(G) /\ Ran(Push(M, c)) \cap Ran(Pop(H)) = {}
    BY <1>1, <1>11, <1>12
<1>15. Len(Push(M, c)) = k + 1 /\ Len(Pop(H)) = Len(G) - (k + 1)
    BY <1>1, <1>11, <1>12
<1>16. MallocInv(w, a, G, k + 1)
  <2>1. IsList(Chunks, w.a.next_, w.head, Push(M, c)) /\ IsList(Chunks, w.a.next_, w.a.free_list_, Pop(H))
    BY <1>5, <1>6, <1>11, <1>12
  <2>2. w.a.data_ = a.data_ /\ w.a.free_total_ = a.free_total_
    BY <1>1, <1>6
  <2> QED BY <1>13, <1>14, <1>15, <2>1, <2>2 DEF MallocInv
<1> QED BY <1>8, <1>16 DEF w

\* The chain of malloc's loop.
MallocChain(a, n) == FoldLeft(LAMBDA acc, i : malloc_one(acc), [a |-> a, head |-> Nil], [i \in 1..n |-> i])

\* malloc's loop chains n chunks of the free list.
LEMMA MallocLoop ==
    ASSUME NEW a \in AllocRec, NEW G, IsList(Chunks, a.next_, a.free_list_, G), NEW n \in Nat, n <= Len(G),
           NEW m, m = MallocChain(a, n)
    PROVE  m \in Mallocs /\ MallocInv(m, a, G, n)
<1> DEFINE b == [a |-> a, head |-> Nil]
<1> DEFINE S == 1..n
<1> DEFINE Step(f, s) == IF s = {} THEN b ELSE malloc_one(f[s \ {Max(s)}])
<1> DEFINE f0 == CHOOSE f : f = [s \in SUBSET S |-> Step(f, s)]
<1> DEFINE V == [s \in SUBSET S |-> {v \in Mallocs : MallocInv(v, a, G, Cardinality(s))}]
<1> DEFINE K == [p \in S \X Mallocs |-> malloc_one(p[2])]
<1>1. m = f0[S]
    BY DEF FoldLeft, MapThenFoldSet, MallocChain
<1>2. Len(G) \in Nat
    BY DEF IsList
<1>3. b \in V[{}]
  <2>1. Cardinality({}) = 0 /\ {} \in SUBSET S
    BY FS_EmptySet
  <2>2. b \in Mallocs /\ b.a = a /\ b.head = Nil
    BY DEF Mallocs, ChunkPtr
  <2>3. IsList(Chunks, a.next_, Nil, <<>>) /\ Len(<<>>) = 0 /\ Ran(<<>>) = {}
    BY DEF IsList, Ran
  <2>4. Len(G) = Len(G) - 0
    BY <1>2
  <2> HIDE DEF b
  <2>5. MallocInv(b, a, G, 0)
    BY <2>2, <2>3, <2>4 DEF MallocInv
  <2> QED BY <2>1, <2>2, <2>5
<1>4. ASSUME NEW s \in SUBSET S, s # {}, NEW v \in V[s \ {Max(s)}] PROVE v \in Mallocs /\ malloc_one(v) \in V[s]
  <2> DEFINE k == Cardinality(s \ {Max(s)})
  <2>1. k \in Nat /\ Cardinality(s) = k + 1 /\ Cardinality(s) <= n /\ s \ {Max(s)} \in SUBSET S
    BY <1>4, MaximaChoose
  <2>2. v \in Mallocs /\ MallocInv(v, a, G, k)
    BY <1>4, <2>1
  <2> HIDE DEF k
  <2>3. k < Len(G)
    BY <1>2, <2>1
  <2>4. malloc_one(v) \in Mallocs /\ MallocInv(malloc_one(v), a, G, k + 1)
    BY <1>2, <2>1, <2>2, <2>3, MallocOne
  <2> QED BY <2>1, <2>2, <2>4
<1>5. \A s \in SUBSET S : V[s] \subseteq Mallocs
    OBVIOUS
<1> HIDE DEF b, V
<1>6. PICK g : /\ g = [s \in SUBSET S |-> g[s]]
               /\ \A s \in SUBSET S : g[s] \in V[s]
               /\ \A s \in SUBSET S : g[s] = IF s = {} THEN b ELSE K[<<Max(s), g[s \ {Max(s)}]>>]
  <2>1. \A x \in S, v \in Mallocs : K[<<x, v>>] = malloc_one(v)
    OBVIOUS
  <2> HIDE DEF K
  <2>2. Leads(K, n, b, V)
    <3>1. ASSUME NEW s \in SUBSET S, s # {}, NEW v \in V[s \ {Max(s)}] PROVE K[<<Max(s), v>>] \in V[s]
      <4>1. Max(s) \in S
        BY <3>1, MaximaChoose
      <4>2. v \in Mallocs /\ malloc_one(v) \in V[s]
        BY <1>4, <3>1
      <4> QED BY <2>1, <4>1, <4>2
    <3> QED BY <1>3, <3>1 DEF Leads
  <2>3. PICK g : FoldOf(g, K, n, b, V)
    BY <2>2, FoldSolves
  <2> QED BY <2>3 DEF FoldOf
<1>7. g = [s \in SUBSET S |-> Step(g, s)]
  <2>1. ASSUME NEW s \in SUBSET S PROVE g[s] = Step(g, s)
    <3>1. CASE s = {}
      BY <1>6, <3>1
    <3>2. CASE s # {}
      <4>1. Max(s) \in S /\ s \ {Max(s)} \in SUBSET S
        BY <3>2, MaximaChoose
      <4>2. g[s \ {Max(s)}] \in Mallocs
        BY <1>5, <1>6, <4>1
      <4>3. \A x \in S, v \in Mallocs : K[<<x, v>>] = malloc_one(v)
        OBVIOUS
      <4> HIDE DEF K
      <4>4. K[<<Max(s), g[s \ {Max(s)}]>>] = malloc_one(g[s \ {Max(s)}])
        BY <4>1, <4>2, <4>3
      <4>5. g[s] = K[<<Max(s), g[s \ {Max(s)}]>>]
        BY <1>6, <3>2
      <4> QED BY <3>2, <4>4, <4>5
    <3> QED BY <3>1, <3>2
  <2> HIDE DEF Step
  <2>2. [s \in SUBSET S |-> g[s]] = [s \in SUBSET S |-> Step(g, s)]
    BY <2>1
  <2> QED BY <1>6, <2>2
<1>8. f0 = [s \in SUBSET S |-> Step(f0, s)]
  <2> HIDE DEF Step
  <2> QED BY <1>7, Zenon
<1> HIDE DEF f0
<1>9. \A s \in SUBSET S : f0[s] = Step(f0, s)
  <2> HIDE DEF Step
  <2> QED BY <1>8
<1> DEFINE X == {s \in SUBSET S : f0[s] \in V[s]}
<1>10. {} \in X
    BY <1>3, <1>9
<1>11. ASSUME NEW s \in SUBSET S, s # {}, s \ {Maxima(n)[s]} \in X PROVE s \in X
  <2>1. f0[s \ {Max(s)}] \in V[s \ {Max(s)}]
    BY <1>11, MaximaChoose
  <2>2. f0[s] = malloc_one(f0[s \ {Max(s)}])
    BY <1>9, <1>11
  <2> QED BY <1>4, <1>11, <2>1, <2>2
<1>12. \A s \in SUBSET S : s \in X
  <2> HIDE DEF X
  <2>1. IsChoice(Maxima(n), S) /\ IsFiniteSet(S)
    BY MaximaChoose
  <2>2. Inductive(X, S, Maxima(n))
    BY <1>10, <1>11 DEF Inductive
  <2>3. SUBSET S \subseteq X
    BY <2>1, <2>2, SubsetInd
  <2> QED BY <2>3
<1>13. m \in V[S]
    BY <1>1, <1>12
<1>14. Cardinality(S) = n
    BY MaximaChoose
<1> QED BY <1>13, <1>14 DEF V

\* The chunks T[i], i \in s, have been put before the free list G of the allocator a.
free_one(acc, c) == [chunk_free_list_insert(acc, c) EXCEPT !.free_total_ = @ + 1]
FreeInv(v, a, G, T, s) ==
    \E H :
        /\ IsList(Chunks, v.next_, v.free_list_, H) /\ Len(H) = Len(G) + Cardinality(s)
        /\ Ran(H) = Ran(G) \cup {T[i] : i \in s}
        /\ \A c \in Chunks \ (Ran(G) \cup Ran(T)) : v.next_[c] = a.next_[c]
        /\ v.data_ = a.data_ /\ v.free_total_ = a.free_total_ + Cardinality(s)

\* One turn of free's loop puts one chunk of the chain before the free list.
LEMMA FreeOne ==
    ASSUME NEW v \in AllocRec, NEW a \in AllocRec, NEW G, Len(G) \in Nat, NEW T,
           \A i \in 1..Len(T) : T[i] \in Chunks,
           NEW s \in SUBSET (1..Len(T)), NEW i \in s, Cardinality(s) = Cardinality(s \ {i}) + 1,
           Cardinality(s \ {i}) \in Nat,
           T[i] \notin Ran(G), \A j \in s : T[j] = T[i] => j = i,
           FreeInv(v, a, G, T, s \ {i})
    PROVE  free_one(v, T[i]) \in AllocRec /\ FreeInv(free_one(v, T[i]), a, G, T, s)
<1> DEFINE c == T[i]
<1> DEFINE w == free_one(v, c)
<1>1. PICK H :
        /\ IsList(Chunks, v.next_, v.free_list_, H) /\ Len(H) = Len(G) + Cardinality(s \ {i})
        /\ Ran(H) = Ran(G) \cup {T[j] : j \in s \ {i}}
        /\ \A d \in Chunks \ (Ran(G) \cup Ran(T)) : v.next_[d] = a.next_[d]
        /\ v.data_ = a.data_ /\ v.free_total_ = a.free_total_ + Cardinality(s \ {i})
    BY DEF FreeInv
<1>2. c \in Chunks /\ c \in Ran(T) /\ c \notin Ran(H)
    BY <1>1 DEF Ran
<1>3. v.next_ \in [Chunks -> ChunkPtr] /\ v.free_list_ \in ChunkPtr /\ v.free_total_ \in Int
      /\ a.free_total_ \in Int
    BY DEF AllocRec
<1>4. w = [[v EXCEPT !.next_[c] = v.free_list_, !.free_list_ = c] EXCEPT !.free_total_ = @ + 1]
    BY DEF free_one, chunk_free_list_insert
<1> HIDE DEF c, w
<1>5. /\ w.next_ = [v.next_ EXCEPT ![c] = v.free_list_] /\ w.free_list_ = c
      /\ w.data_ = v.data_ /\ w.free_total_ = v.free_total_ + 1
    BY <1>4 DEF AllocRec
<1>6. w \in AllocRec
  <2>1. [v.next_ EXCEPT ![c] = v.free_list_] \in [Chunks -> ChunkPtr]
    BY <1>3
  <2>2. v.free_total_ + 1 \in Int
    BY <1>3
  <2>3. w = [v EXCEPT !.next_ = [v.next_ EXCEPT ![c] = v.free_list_], !.free_list_ = c, !.free_total_ = v.free_total_ + 1]
    BY <1>4 DEF AllocRec
  <2> QED BY <1>2, <2>1, <2>2, <2>3 DEF AllocRec, ChunkPtr
<1>7. \A d \in Chunks : w.next_[d] = IF d = c THEN v.free_list_ ELSE v.next_[d]
    BY <1>3, <1>5
<1>8. Ran(H) \subseteq Chunks
    BY <1>1 DEF IsList, Ran
<1>9. /\ IsList(Chunks, w.next_, c, Push(H, c)) /\ Len(Push(H, c)) = Len(H) + 1
      /\ Ran(Push(H, c)) = Ran(H) \cup {c}
  <2>1. w.next_[c] = v.free_list_ /\ SameOn(Ran(H), w.next_, v.next_)
    BY <1>2, <1>7, <1>8 DEF SameOn
  <2>2. IsList(Chunks, v.next_, v.free_list_, H) /\ Nil \notin Chunks
    BY <1>1, Sets
  <2> QED BY <1>2, <2>1, <2>2, ListPush
<1>10. Ran(Push(H, c)) = Ran(G) \cup {T[j] : j \in s}
    BY <1>1, <1>9 DEF c
<1>11. \A d \in Chunks \ (Ran(G) \cup Ran(T)) : w.next_[d] = a.next_[d]
    BY <1>1, <1>2, <1>7
<1>12. Len(Push(H, c)) = Len(G) + Cardinality(s) /\ w.free_total_ = a.free_total_ + Cardinality(s)
  <2> DEFINE q == Cardinality(s \ {i})
  <2>1. q \in Nat /\ Cardinality(s) = q + 1 /\ Len(H) = Len(G) + q /\ v.free_total_ = a.free_total_ + q
    BY <1>1
  <2> HIDE DEF q
  <2>2. Len(Push(H, c)) = Len(G) + Cardinality(s)
    BY <1>9, <2>1
  <2>3. w.free_total_ = a.free_total_ + Cardinality(s)
    BY <1>3, <1>5, <2>1
  <2> QED BY <2>2, <2>3
<1>13. FreeInv(w, a, G, T, s)
  <2>1. IsList(Chunks, w.next_, w.free_list_, Push(H, c)) /\ w.data_ = a.data_
    BY <1>1, <1>5, <1>9
  <2> QED BY <1>10, <1>11, <1>12, <2>1 DEF FreeInv
<1> QED BY <1>6, <1>13 DEF c, w

\* free puts the chunks of a list back.
LEMMA FreeLoop ==
    ASSUME NEW a \in AllocRec, NEW G, IsList(Chunks, a.next_, a.free_list_, G),
           NEW head, NEW T, IsList(Chunks, a.next_, head, T), Ran(T) \cap Ran(G) = {}
    PROVE  free(a, head) \in AllocRec /\ FreeInv(free(a, head), a, G, T, 1..Len(T))
<1> DEFINE n == Len(T)
<1> DEFINE S == 1..n
<1> DEFINE m == free(a, head)
<1> DEFINE Step(f, s) == IF s = {} THEN a ELSE free_one(f[s \ {Max(s)}], T[Max(s)])
<1> DEFINE f0 == CHOOSE f : f = [s \in SUBSET S |-> Step(f, s)]
<1> DEFINE V == [s \in SUBSET S |-> {v \in AllocRec : FreeInv(v, a, G, T, s)}]
<1> DEFINE K == [p \in S \X AllocRec |-> free_one(p[2], T[p[1]])]
<1>0. Chain(a.next_, head) = T /\ DOMAIN T = S /\ n \in Nat
  <2>1. a.next_ \in [Chunks -> Chunks \cup {Nil}]
    BY DEF AllocRec, ChunkPtr
  <2>2. Chain(a.next_, head) = T
    BY <2>1, ChainIs, Sets
  <2> QED BY <2>2 DEF IsList
<1>1. m = f0[S]
  <2>1. m = FoldLeft(LAMBDA acc, c : [chunk_free_list_insert(acc, c) EXCEPT !.free_total_ = @ + 1], a, T)
    BY <1>0 DEF free
  <2> QED BY <1>0, <2>1 DEF FoldLeft, MapThenFoldSet, free_one
<1>2. Len(G) \in Nat
    BY DEF IsList
<1>2a. (\A i \in S : T[i] \in Chunks /\ T[i] \notin Ran(G)) /\ (\A i, j \in S : T[i] = T[j] => i = j)
  <2>1. \A i \in S : T[i] \in Ran(T)
    BY DEF Ran
  <2>2. \A i \in S : T[i] \notin Ran(G)
    BY <2>1
  <2>3. T \in Seq(Chunks)
    BY DEF IsList
  <2>4. \A i \in S : T[i] \in Chunks
    BY <2>3
  <2> QED BY <2>2, <2>4 DEF IsList
<1>3. a \in V[{}]
  <2>1. Cardinality({}) = 0 /\ {} \in SUBSET S
    BY FS_EmptySet
  <2>2. a.free_total_ \in Int
    BY DEF AllocRec
  <2>4. Len(G) = Len(G) + Cardinality({}) /\ a.free_total_ = a.free_total_ + Cardinality({})
    BY <1>2, <2>1, <2>2
  <2>5. FreeInv(a, a, G, T, {})
    BY <2>4 DEF FreeInv
  <2> QED BY <2>1, <2>5
<1>4. ASSUME NEW s \in SUBSET S, s # {}, NEW v \in V[s \ {Max(s)}] PROVE v \in AllocRec /\ free_one(v, T[Max(s)]) \in V[s]
  <2> DEFINE i == Max(s)
  <2>1. Cardinality(s \ {i}) \in Nat /\ Cardinality(s) = Cardinality(s \ {i}) + 1 /\ s \ {i} \in SUBSET S /\ i \in s
    BY <1>0, <1>4, MaximaChoose
  <2>2. v \in AllocRec /\ FreeInv(v, a, G, T, s \ {i})
    BY <1>4, <2>1
  <2> HIDE DEF i
  <2>3. \A j \in s : T[j] = T[i] => j = i
    BY <1>2a, <2>1
  <2>4. free_one(v, T[i]) \in AllocRec /\ FreeInv(free_one(v, T[i]), a, G, T, s)
    BY <1>2, <1>2a, <2>1, <2>2, <2>3, FreeOne
  <2> QED BY <2>1, <2>2, <2>4 DEF i
<1>5. \A s \in SUBSET S : V[s] \subseteq AllocRec
    OBVIOUS
<1> HIDE DEF V, n, m
<1>6. PICK g : /\ g = [s \in SUBSET S |-> g[s]]
               /\ \A s \in SUBSET S : g[s] \in V[s]
               /\ \A s \in SUBSET S : g[s] = IF s = {} THEN a ELSE K[<<Max(s), g[s \ {Max(s)}]>>]
  <2>1. \A x \in S, v \in AllocRec : K[<<x, v>>] = free_one(v, T[x])
    OBVIOUS
  <2> HIDE DEF K
  <2>2. Leads(K, n, a, V)
    <3>1. ASSUME NEW s \in SUBSET S, s # {}, NEW v \in V[s \ {Max(s)}] PROVE K[<<Max(s), v>>] \in V[s]
      <4>1. Max(s) \in S
        BY <1>0, <3>1, MaximaChoose
      <4>2. v \in AllocRec /\ free_one(v, T[Max(s)]) \in V[s]
        BY <1>4, <3>1
      <4> QED BY <2>1, <4>1, <4>2
    <3> QED BY <1>3, <3>1 DEF Leads
  <2>3. PICK g : FoldOf(g, K, n, a, V)
    BY <1>0, <2>2, FoldSolves
  <2> QED BY <2>3 DEF FoldOf
<1>7. g = [s \in SUBSET S |-> Step(g, s)]
  <2>1. ASSUME NEW s \in SUBSET S PROVE g[s] = Step(g, s)
    <3>1. CASE s = {}
      BY <1>6, <3>1
    <3>2. CASE s # {}
      <4>1. Max(s) \in S /\ s \ {Max(s)} \in SUBSET S
        BY <1>0, <3>2, MaximaChoose
      <4>2. g[s \ {Max(s)}] \in AllocRec
        BY <1>5, <1>6, <4>1
      <4>3. \A x \in S, v \in AllocRec : K[<<x, v>>] = free_one(v, T[x])
        OBVIOUS
      <4> HIDE DEF K
      <4>4. K[<<Max(s), g[s \ {Max(s)}]>>] = free_one(g[s \ {Max(s)}], T[Max(s)])
        BY <4>1, <4>2, <4>3
      <4>5. g[s] = K[<<Max(s), g[s \ {Max(s)}]>>]
        BY <1>6, <3>2
      <4> QED BY <3>2, <4>4, <4>5
    <3> QED BY <3>1, <3>2
  <2> HIDE DEF Step
  <2>2. [s \in SUBSET S |-> g[s]] = [s \in SUBSET S |-> Step(g, s)]
    BY <2>1
  <2> QED BY <1>6, <2>2
<1>8. f0 = [s \in SUBSET S |-> Step(f0, s)]
  <2> HIDE DEF Step
  <2> QED BY <1>7, Zenon
<1> HIDE DEF f0
<1>9. \A s \in SUBSET S : f0[s] = Step(f0, s)
  <2> HIDE DEF Step
  <2> QED BY <1>8
<1> DEFINE X == {s \in SUBSET S : f0[s] \in V[s]}
<1>10. {} \in X
    BY <1>3, <1>9
<1>11. ASSUME NEW s \in SUBSET S, s # {}, s \ {Maxima(n)[s]} \in X PROVE s \in X
  <2>1. f0[s \ {Max(s)}] \in V[s \ {Max(s)}]
    BY <1>0, <1>11, MaximaChoose
  <2>2. f0[s] = free_one(f0[s \ {Max(s)}], T[Max(s)])
    BY <1>9, <1>11
  <2> QED BY <1>4, <1>11, <2>1, <2>2
<1>12. \A s \in SUBSET S : s \in X
  <2> HIDE DEF X
  <2>1. IsChoice(Maxima(n), S) /\ IsFiniteSet(S)
    BY <1>0, MaximaChoose
  <2>2. Inductive(X, S, Maxima(n))
    BY <1>10, <1>11 DEF Inductive
  <2>3. SUBSET S \subseteq X
    BY <2>1, <2>2, SubsetInd
  <2> QED BY <2>3
<1>13. m \in V[S]
    BY <1>1, <1>12
<1> QED BY <1>13 DEF V, n, m

\* The chains C of the nodes U, whose heads are hd, and the free list G divide
\* the chunks among them.
AllocShape(a, U, hd, C, G) ==
    /\ \A n \in U : IsList(Chunks, a.next_, hd[n], C[n])
    /\ IsList(Chunks, a.next_, a.free_list_, G) /\ a.free_total_ = Len(G)
    /\ \A n, m \in U : n # m => Ran(C[n]) \cap Ran(C[m]) = {}
    /\ \A n \in U : Ran(C[n]) \cap Ran(G) = {}
    /\ \A c \in Chunks : c \in Ran(G) \/ \E n \in U : c \in Ran(C[n])

\* The bytes of the chunks are the same.
SameData(b, a) == b.data_ = a.data_

\* Chains and free list of an allocator whose links are the same.
LEMMA AllocSame ==
    ASSUME NEW a, NEW U, NEW hd, NEW C, NEW G, AllocShape(a, U, hd, C, G),
           NEW b, b.next_ = a.next_, b.free_list_ = a.free_list_, b.free_total_ = a.free_total_,
           NEW hd2, \A n \in U : hd2[n] = hd[n]
    PROVE  AllocShape(b, U, hd2, C, G)
    BY DEF AllocShape

\* The chunks of the chain of n are free in b.
Freed(a, b, U, hd, C, G, n, H) ==
    /\ b \in AllocRec /\ SameData(b, a)
    /\ AllocShape(b, U \ {n}, hd, C, H) /\ Len(H) = Len(G) + Len(C[n])

\* free gives the chunks of a node's chain back.
LEMMA FreeShape ==
    ASSUME NEW a \in AllocRec, NEW U, NEW hd, NEW C, NEW G, AllocShape(a, U, hd, C, G), NEW n \in U,
           NEW b, b = free(a, hd[n])
    PROVE  \E H : Freed(a, b, U, hd, C, G, n, H)
<1> DEFINE T == C[n]
<1>1. /\ IsList(Chunks, a.next_, hd[n], T) /\ IsList(Chunks, a.next_, a.free_list_, G)
      /\ Ran(T) \cap Ran(G) = {} /\ a.free_total_ = Len(G)
    BY DEF AllocShape
<1>2. b \in AllocRec /\ FreeInv(b, a, G, T, 1..Len(T))
    BY <1>1, FreeLoop
<1>3. Cardinality(1..Len(T)) = Len(T) /\ Len(T) \in Nat
  <2>1. Len(T) \in Nat
    BY <1>1 DEF IsList
  <2> QED BY <2>1, MaximaChoose
<1>4. PICK H :
        /\ IsList(Chunks, b.next_, b.free_list_, H) /\ Len(H) = Len(G) + Len(T)
        /\ Ran(H) = Ran(G) \cup {T[i] : i \in 1..Len(T)}
        /\ \A c \in Chunks \ (Ran(G) \cup Ran(T)) : b.next_[c] = a.next_[c]
        /\ b.data_ = a.data_ /\ b.free_total_ = a.free_total_ + Len(T)
  <2> HIDE DEF T
  <2> QED BY <1>2, <1>3 DEF FreeInv
<1>5. Ran(H) = Ran(G) \cup Ran(T)
    BY <1>4 DEF Ran
<1> HIDE DEF T
<1>6. ASSUME NEW m \in U \ {n} PROVE IsList(Chunks, b.next_, hd[m], C[m]) /\ Ran(C[m]) \cap Ran(H) = {}
  <2>1. IsList(Chunks, a.next_, hd[m], C[m]) /\ Ran(C[m]) \cap Ran(G) = {} /\ Ran(C[m]) \cap Ran(T) = {}
    BY DEF AllocShape, T
  <2>2. Ran(C[m]) \subseteq Chunks
    BY <2>1 DEF IsList, Ran
  <2>3. SameOn(Ran(C[m]), b.next_, a.next_)
    BY <1>4, <2>1, <2>2 DEF SameOn
  <2> QED BY <1>5, <2>1, <2>3, ListFrame
<1>7. \A c \in Chunks : c \in Ran(H) \/ \E m \in U \ {n} : c \in Ran(C[m])
    BY <1>5 DEF AllocShape, T
<1>8. \A m, o \in U \ {n} : m # o => Ran(C[m]) \cap Ran(C[o]) = {}
    BY DEF AllocShape
<1>9. b.free_total_ = Len(H)
    BY <1>1, <1>4
<1>10. AllocShape(b, U \ {n}, hd, C, H)
    BY <1>4, <1>6, <1>7, <1>8, <1>9 DEF AllocShape
<1>11. SameData(b, a) /\ Len(H) = Len(G) + Len(C[n])
    BY <1>4 DEF T, SameData
<1> QED BY <1>2, <1>10, <1>11 DEF Freed

\* malloc of more chunks than are free changes nothing.
LEMMA MallocRefuses ==
    ASSUME NEW a, NEW k, a.free_total_ < k
    PROVE  malloc(a, k) = [a |-> a, head |-> Nil]
    BY Zenon DEF malloc

\* malloc answers r for k chunks, and the heads hd2 give node n the chain.
Mallocing(a, U, hd, C, G, n, k, r, hd2) ==
    /\ a \in AllocRec /\ AllocShape(a, U, hd, C, G) /\ n \notin U
    /\ k \in Nat /\ k <= Len(G) /\ r = malloc(a, k)
    /\ hd2[n] = r.head /\ \A m \in U : hd2[m] = hd[m]

Malloced(a, U, C, G, n, k, r, hd2, C2, H) ==
    /\ r.a \in AllocRec /\ r.head \in ChunkPtr /\ SameData(r.a, a) /\ (r.head = Nil <=> k = 0)
    /\ AllocShape(r.a, U \cup {n}, hd2, C2, H)
    /\ Len(H) = Len(G) - k /\ Len(C2[n]) = k /\ \A m \in U : C2[m] = C[m]

\* malloc takes a chain of k chunks for a node that has none.
LEMMA MallocShape ==
    ASSUME NEW a, NEW U, NEW hd, NEW C, NEW G, NEW n, NEW k, NEW r, NEW hd2, Mallocing(a, U, hd, C, G, n, k, r, hd2)
    PROVE  \E C2, H : Malloced(a, U, C, G, n, k, r, hd2, C2, H)
<1> USE DEF Mallocing
<1> DEFINE m == MallocChain(a, k)
<1>1. IsList(Chunks, a.next_, a.free_list_, G) /\ a.free_total_ = Len(G) /\ Len(G) \in Nat
    BY DEF AllocShape, IsList
<1>2. m \in Mallocs /\ MallocInv(m, a, G, k)
    BY <1>1, MallocLoop
<1>3. r = [m EXCEPT !.a.free_total_ = m.a.free_total_ - k]
  <2>1. ~(a.free_total_ < k)
    BY <1>1
  <2> QED BY <2>1, Zenon DEF malloc, MallocChain
<1> HIDE DEF m
<1>4. m.a \in AllocRec /\ m.head \in ChunkPtr /\ m.a.free_total_ \in Int
    BY <1>2 DEF Mallocs, AllocRec
<1>5. /\ r.head = m.head /\ r.a.next_ = m.a.next_ /\ r.a.free_list_ = m.a.free_list_
      /\ r.a.data_ = m.a.data_ /\ r.a.free_total_ = m.a.free_total_ - k
    BY <1>2, <1>3, <1>4 DEF Mallocs, AllocRec
<1>6. r.a \in AllocRec
  <2>1. r.a = [m.a EXCEPT !.free_total_ = m.a.free_total_ - k]
    BY <1>2, <1>3 DEF Mallocs
  <2>2. m.a.free_total_ - k \in Int
    BY <1>4
  <2> QED BY <1>4, <2>1, <2>2 DEF AllocRec
<1>7. PICK M, H :
        /\ IsList(Chunks, m.a.next_, m.head, M) /\ Len(M) = k
        /\ IsList(Chunks, m.a.next_, m.a.free_list_, H) /\ Len(H) = Len(G) - k
        /\ Ran(M) \cup Ran(H) = Ran(G) /\ Ran(M) \cap Ran(H) = {}
        /\ \A c \in Chunks \ Ran(G) : m.a.next_[c] = a.next_[c]
        /\ m.a.data_ = a.data_ /\ m.a.free_total_ = a.free_total_
    BY <1>2 DEF MallocInv
<1> DEFINE C2 == [o \in U \cup {n} |-> IF o = n THEN M ELSE C[o]]
<1>8. C2[n] = M /\ \A o \in U : C2[o] = C[o]
    OBVIOUS
<1> HIDE DEF C2
<1>9. ASSUME NEW o \in U PROVE IsList(Chunks, r.a.next_, hd2[o], C2[o]) /\ Ran(C2[o]) \cap Ran(G) = {}
  <2>1. IsList(Chunks, a.next_, hd[o], C[o]) /\ Ran(C[o]) \cap Ran(G) = {}
    BY DEF AllocShape
  <2>2. Ran(C[o]) \subseteq Chunks
    BY <2>1 DEF IsList, Ran
  <2>3. SameOn(Ran(C[o]), r.a.next_, a.next_)
    BY <1>5, <1>7, <2>1, <2>2 DEF SameOn
  <2>4. IsList(Chunks, r.a.next_, hd[o], C[o])
    BY <2>1, <2>3, ListFrame
  <2> QED BY <1>8, <2>1, <2>4
<1>10. \A o \in U \cup {n} : IsList(Chunks, r.a.next_, hd2[o], C2[o])
    BY <1>5, <1>7, <1>8, <1>9
<1>11. \A o, p \in U \cup {n} : o # p => Ran(C2[o]) \cap Ran(C2[p]) = {}
  <2>1. \A o, p \in U : o # p => Ran(C2[o]) \cap Ran(C2[p]) = {}
    BY <1>8 DEF AllocShape
  <2>2. \A o \in U : Ran(C2[o]) \cap Ran(C2[n]) = {}
    BY <1>7, <1>8, <1>9
  <2> QED BY <2>1, <2>2
<1>12. \A o \in U \cup {n} : Ran(C2[o]) \cap Ran(H) = {}
    BY <1>7, <1>8, <1>9
<1>13. \A c \in Chunks : c \in Ran(H) \/ \E o \in U \cup {n} : c \in Ran(C2[o])
  <2> TAKE c \in Chunks
  <2>1. CASE c \in Ran(G)
    BY <1>7, <1>8, <2>1
  <2>2. CASE c \notin Ran(G)
    <3>1. PICK o \in U : c \in Ran(C[o])
      BY <2>2 DEF AllocShape
    <3> QED BY <1>8, <3>1
  <2> QED BY <2>1, <2>2
<1>14. r.a.free_total_ = Len(H) /\ IsList(Chunks, r.a.next_, r.a.free_list_, H)
    BY <1>1, <1>5, <1>7
<1>15. AllocShape(r.a, U \cup {n}, hd2, C2, H)
    BY <1>10, <1>11, <1>12, <1>13, <1>14 DEF AllocShape
<1>16. r.head = Nil <=> k = 0
  <2>1. m.head = (IF k = 0 THEN Nil ELSE M[1]) /\ \A i \in 1..k : M[i] \in Chunks
    BY <1>7 DEF IsList
  <2>2. k # 0 => 1 \in 1..k
    OBVIOUS
  <2> QED BY <1>5, <2>1, <2>2, Sets
<1>17. SameData(r.a, a) /\ r.head \in ChunkPtr
    BY <1>4, <1>5, <1>7 DEF SameData
<1>18. Len(H) = Len(G) - k /\ Len(C2[n]) = k /\ \A o \in U : C2[o] = C[o]
    BY <1>7, <1>8
<1> QED BY <1>6, <1>15, <1>16, <1>17, <1>18 DEF Malloced

\* The bytes are written into the chain s.
Splitting(a, head, s, bytes, b) ==
    /\ a \in AllocRec /\ IsList(Chunks, a.next_, head, s) /\ bytes \in Seq(Nat)
    /\ Len(s) = get_chunk_num(Len(bytes)) /\ b = split(a, head, bytes)

\* split writes the bytes into the chunks of a chain and nothing else.
LEMMA SplitFrame ==
    ASSUME NEW a, NEW head, NEW s, NEW bytes, NEW b, Splitting(a, head, s, bytes, b)
    PROVE  b \in AllocRec /\ b.next_ = a.next_ /\ b.free_list_ = a.free_list_ /\ b.free_total_ = a.free_total_
<1> USE DEF Splitting
<1> DEFINE cell(i, p) == (i - 1) * ChunkSize + p
<1> DEFINE at(c, p) == {i \in DOMAIN s : s[i] = c /\ cell(i, p) <= Len(bytes)}
<1> DEFINE val(c, p) == IF at(c, p) = {} THEN a.data_[c][p] ELSE bytes[cell(CHOOSE i \in at(c, p) : TRUE, p)]
<1>0. a.next_ \in [Chunks -> Chunks \cup {Nil}] /\ a.data_ \in [Chunks -> [1..ChunkSize -> Nat]]
    BY DEF AllocRec, ChunkPtr
<1>1. Chain(a.next_, head) = s
    BY <1>0, ChainIs, Sets
<1>2. b = [a EXCEPT !.data_ = [c \in Chunks |-> [p \in 1..ChunkSize |-> val(c, p)]]]
    BY <1>1 DEF split
<1>3. DOMAIN s = 1..Len(s) /\ Len(s) \in Nat
    BY DEF IsList
<1>4. ASSUME NEW c \in Chunks, NEW p \in 1..ChunkSize PROVE val(c, p) \in Nat
  <2>1. CASE at(c, p) = {}
    BY <1>0, <2>1
  <2>2. CASE at(c, p) # {}
    <3> DEFINE i == CHOOSE i \in at(c, p) : TRUE
    <3>1. i \in at(c, p)
      BY <2>2
    <3>2. i \in 1..Len(s) /\ cell(i, p) <= Len(bytes)
      BY <1>3, <3>1
    <3>3. val(c, p) = bytes[cell(i, p)]
      BY <2>2
    <3> HIDE DEF i, at, val
    <3>4. (i - 1) * ChunkSize \in Nat
      <4>1. i - 1 \in Nat /\ ChunkSize \in Nat
        BY <1>3, <3>2, Sets
      <4> QED BY <4>1
    <3>5. cell(i, p) \in 1..Len(bytes)
      <4> DEFINE q == (i - 1) * ChunkSize
      <4>1. q \in Nat /\ p \in Nat /\ p >= 1 /\ q + p <= Len(bytes)
        BY <3>2, <3>4, Sets
      <4> HIDE DEF q
      <4>2. q + p \in 1..Len(bytes)
        BY <4>1
      <4> QED BY <4>2 DEF q
    <3> HIDE DEF cell
    <3> QED BY <3>3, <3>5
  <2> QED BY <2>1, <2>2
<1> HIDE DEF val
<1>5. [c \in Chunks |-> [p \in 1..ChunkSize |-> val(c, p)]] \in [Chunks -> [1..ChunkSize -> Nat]]
    BY <1>4
<1> QED BY <1>2, <1>5 DEF AllocRec

\* Division with remainder.
LEMMA DivMod ==
    ASSUME NEW x \in Nat, NEW c \in Nat \ {0}
    PROVE  /\ x \div c \in Nat /\ x % c \in 0..(c - 1) /\ x = (x \div c) * c + (x % c)
    OBVIOUS

\* A quotient is not less than b when the dividend is not less than b times the divisor.
LEMMA DivBound ==
    ASSUME NEW x \in Nat, NEW c \in Nat \ {0}, NEW b \in Nat, b * c <= x
    PROVE  b <= x \div c
<1> DEFINE q == x \div c
<1> DEFINE t == x % c
<1>1. q \in Nat /\ t \in 0..(c - 1) /\ x = q * c + t
    BY DivMod
<1> HIDE DEF q, t
<1> SUFFICES ASSUME q + 1 <= b PROVE FALSE
    BY <1>1 DEF q
<1>2. (q + 1) * c <= b * c
  <2>1. PICK e \in Nat : b = q + 1 + e
    <3>1. b - (q + 1) \in Nat /\ b = q + 1 + (b - (q + 1))
      BY <1>1
    <3> QED BY <3>1
  <2>2. b * c = (q + 1) * c + e * c
    BY <1>1, <2>1
  <2>3. e * c \in Nat /\ (q + 1) * c \in Nat
    BY <1>1, <2>1
  <2> QED BY <2>2, <2>3
<1>3. (q + 1) * c = q * c + c
    BY <1>1
<1>4. q * c \in Nat
    BY <1>1
<1>5. b * c \in Nat
    OBVIOUS
<1> QED BY <1>1, <1>2, <1>3, <1>4, <1>5

\* The chunk and the place in it of the p-th byte of a value.
chunk_of(p) == ((p - 1) \div ChunkSize) + 1
place_of(p) == ((p - 1) % ChunkSize) + 1

\* Every byte of a value has a chunk of its chain and a place in it.
LEMMA PlaceOf ==
    ASSUME NEW len \in Nat, NEW p \in 1..len
    PROVE  /\ chunk_of(p) \in 1..get_chunk_num(len) /\ place_of(p) \in 1..ChunkSize
           /\ (chunk_of(p) - 1) * ChunkSize + place_of(p) = p
<1> DEFINE x == p - 1
<1> DEFINE q == x \div ChunkSize
<1> DEFINE t == x % ChunkSize
<1>0. ChunkSize \in Nat \ {0}
    BY Sets
<1>1. x \in Nat /\ x + 1 = p /\ x + 1 <= len /\ p \in Nat
    OBVIOUS
<1>2. q \in Nat /\ t \in 0..(ChunkSize - 1) /\ x = q * ChunkSize + t
  <2> HIDE DEF x
  <2> QED BY <1>0, <1>1, DivMod
<1>3. chunk_of(p) = q + 1 /\ place_of(p) = t + 1
    BY DEF chunk_of, place_of
<1> HIDE DEF q, t, x
<1>4. t + 1 \in 1..ChunkSize
    BY <1>0, <1>2
<1>5. (q + 1) * ChunkSize = q * ChunkSize + ChunkSize /\ q * ChunkSize \in Nat
    BY <1>0, <1>2
<1>6. (q + 1) * ChunkSize <= len + ChunkSize - 1
    BY <1>0, <1>1, <1>2, <1>5
<1>7. q + 1 <= get_chunk_num(len)
  <2>1. len + ChunkSize - 1 \in Nat /\ q + 1 \in Nat
    BY <1>0, <1>2
  <2> QED BY <1>0, <1>6, <2>1, DivBound DEF get_chunk_num
<1>8. get_chunk_num(len) \in Nat
  <2>1. len + ChunkSize - 1 \in Nat
    BY <1>0
  <2> QED BY <1>0, <2>1, DivMod DEF get_chunk_num
<1>9. (q + 1 - 1) * ChunkSize + (t + 1) = p
  <2>1. q + 1 - 1 = q
    BY <1>2
  <2>2. (q + 1 - 1) * ChunkSize = q * ChunkSize
    BY <2>1
  <2> QED BY <1>1, <1>2, <1>5, <2>2
<1> QED BY <1>2, <1>3, <1>4, <1>7, <1>8, <1>9

\* The chain s of the allocator a holds the bytes.
HoldsBytes(a, s, bytes) ==
    \A p \in 1..Len(bytes) : a.data_[s[chunk_of(p)]][place_of(p)] = bytes[p]

\* What split writes is what merge reads; other chunks keep their bytes.
LEMMA SplitHolds ==
    ASSUME NEW a, NEW head, NEW s, NEW bytes, NEW b, Splitting(a, head, s, bytes, b)
    PROVE  /\ HoldsBytes(b, s, bytes)
           /\ \A c \in Chunks \ Ran(s) : b.data_[c] = a.data_[c]
<1> USE DEF Splitting
<1> DEFINE cell(i, p) == (i - 1) * ChunkSize + p
<1> DEFINE at(c, p) == {i \in DOMAIN s : s[i] = c /\ cell(i, p) <= Len(bytes)}
<1> DEFINE val(c, p) == IF at(c, p) = {} THEN a.data_[c][p] ELSE bytes[cell(CHOOSE i \in at(c, p) : TRUE, p)]
<1>0. a.next_ \in [Chunks -> Chunks \cup {Nil}] /\ a.data_ \in [Chunks -> [1..ChunkSize -> Nat]]
    BY DEF AllocRec, ChunkPtr
<1>1. Chain(a.next_, head) = s
    BY <1>0, ChainIs, Sets
<1>2. b = [a EXCEPT !.data_ = [c \in Chunks |-> [p \in 1..ChunkSize |-> val(c, p)]]]
    BY <1>1 DEF split
<1>3. DOMAIN s = 1..Len(s) /\ Len(s) \in Nat /\ (\A i \in 1..Len(s) : s[i] \in Chunks) /\ \A i, j \in 1..Len(s) : s[i] = s[j] => i = j
    BY DEF IsList
<1>4. b.data_ = [c \in Chunks |-> [p \in 1..ChunkSize |-> val(c, p)]]
  <2> HIDE DEF val
  <2> QED BY <1>2 DEF AllocRec
<1>5. ASSUME NEW p \in 1..Len(bytes) PROVE b.data_[s[chunk_of(p)]][place_of(p)] = bytes[p]
  <2> DEFINE i == chunk_of(p)
  <2> DEFINE t == place_of(p)
  <2>1. i \in 1..Len(s) /\ t \in 1..ChunkSize /\ (i - 1) * ChunkSize + t = p
    <3>1. Len(bytes) \in Nat
      OBVIOUS
    <3> QED BY <3>1, PlaceOf
  <2> HIDE DEF i, t
  <2>2. cell(i, t) = p /\ p <= Len(bytes)
    BY <2>1
  <2>3. at(s[i], t) = {i}
    <3>1. i \in at(s[i], t)
      BY <1>3, <2>1, <2>2
    <3>2. \A j \in at(s[i], t) : j = i
      <4> HIDE DEF cell
      <4> QED BY <1>3, <2>1
    <3> HIDE DEF at
    <3> QED BY <3>1, <3>2
  <2>4. (CHOOSE j \in at(s[i], t) : TRUE) = i
    <3> HIDE DEF at
    <3> QED BY <2>3
  <2>5. val(s[i], t) = bytes[p]
    <3> HIDE DEF at, cell
    <3> QED BY <2>2, <2>3, <2>4
  <2>6. s[i] \in Chunks
    BY <1>3, <2>1
  <2>7. b.data_[s[i]][t] = val(s[i], t)
    <3> HIDE DEF val
    <3> QED BY <1>4, <2>1, <2>6
  <2> QED BY <2>5, <2>7 DEF i, t
<1>6. ASSUME NEW c \in Chunks \ Ran(s) PROVE b.data_[c] = a.data_[c]
  <2>1. \A p \in 1..ChunkSize : at(c, p) = {}
    <3> HIDE DEF cell
    <3> QED BY <1>3 DEF Ran
  <2>2. \A p \in 1..ChunkSize : val(c, p) = a.data_[c][p]
    <3> HIDE DEF at
    <3> QED BY <2>1
  <2> HIDE DEF val
  <2>3. b.data_[c] = [p \in 1..ChunkSize |-> val(c, p)]
    BY <1>4
  <2>4. a.data_[c] = [p \in 1..ChunkSize |-> a.data_[c][p]]
    BY <1>0
  <2> QED BY <2>2, <2>3, <2>4
<1> QED BY <1>5, <1>6 DEF HoldsBytes

-----------------------------------------------------------------------------
(* A value that is stored in new chunks.                                   *)

SplitDone(a, s, bytes, b) ==
    /\ b \in AllocRec /\ b.next_ = a.next_ /\ b.free_list_ = a.free_list_ /\ b.free_total_ = a.free_total_
    /\ HoldsBytes(b, s, bytes) /\ \A c \in Chunks \ Ran(s) : b.data_[c] = a.data_[c]

\* What split leaves: the bytes in the chain, the other chunks as they were.
LEMMA SplitStep ==
    ASSUME NEW a, NEW head, NEW s, NEW bytes, NEW b, Splitting(a, head, s, bytes, b)
    PROVE  SplitDone(a, s, bytes, b)
    BY SplitFrame, SplitHolds DEF SplitDone

\* The allocator b holds the bytes in the chain of n and the other chains as a does.
Stored(a, b, U, C, n, hd2, bytes, C2, H) ==
    /\ b \in AllocRec /\ AllocShape(b, U \cup {n}, hd2, C2, H)
    /\ Len(C2[n]) = get_chunk_num(Len(bytes)) /\ HoldsBytes(b, C2[n], bytes)
    /\ \A m \in U : C2[m] = C[m] /\ \A c \in Ran(C[m]) : b.data_[c] = a.data_[c]

\* split into the chain of n stores its value and touches no other.
LEMMA SplitStored ==
    ASSUME NEW a \in AllocRec, NEW U, NEW n, n \notin U, NEW hd2, NEW C2, NEW H, AllocShape(a, U \cup {n}, hd2, C2, H),
           NEW bytes \in Seq(Nat), Len(C2[n]) = get_chunk_num(Len(bytes)), NEW head, head = hd2[n],
           NEW b, b = split(a, head, bytes)
    PROVE  Stored(a, b, U, C2, n, hd2, bytes, C2, H)
<1>1. IsList(Chunks, a.next_, head, C2[n])
    BY DEF AllocShape
<1>2. Splitting(a, head, C2[n], bytes, b)
    BY <1>1 DEF Splitting
<1>3. SplitDone(a, C2[n], bytes, b)
    BY <1>2, SplitStep
<1>4. AllocShape(b, U \cup {n}, hd2, C2, H)
  <2>1. b.next_ = a.next_ /\ b.free_list_ = a.free_list_ /\ b.free_total_ = a.free_total_
    BY <1>3 DEF SplitDone
  <2> QED BY <2>1, AllocSame
<1>5. \A m \in U : \A c \in Ran(C2[m]) : b.data_[c] = a.data_[c]
  <2> TAKE m \in U
  <2> TAKE c \in Ran(C2[m])
  <2>1. c \in Chunks
    <3>1. IsList(Chunks, a.next_, hd2[m], C2[m])
      BY DEF AllocShape
    <3> QED BY <3>1 DEF IsList, Ran
  <2>2. c \notin Ran(C2[n])
    <3>1. m # n
      OBVIOUS
    <3>2. Ran(C2[m]) \cap Ran(C2[n]) = {}
      BY <3>1 DEF AllocShape
    <3> QED BY <3>2
  <2> QED BY <1>3, <2>1, <2>2 DEF SplitDone
<1> QED BY <1>3, <1>4, <1>5 DEF SplitDone, Stored

\* malloc and split together.
LEMMA StoreShape ==
    ASSUME NEW a, NEW U, NEW hd, NEW C, NEW G, NEW n, NEW k, NEW r, NEW hd2, Mallocing(a, U, hd, C, G, n, k, r, hd2),
           NEW bytes \in Seq(Nat), k = get_chunk_num(Len(bytes)), NEW b, b = split(r.a, r.head, bytes)
    PROVE  r.head \in ChunkPtr /\ \E C2, H : Stored(a, b, U, C, n, hd2, bytes, C2, H) /\ Len(H) = Len(G) - k
<1>1. PICK C2, H : Malloced(a, U, C, G, n, k, r, hd2, C2, H)
    BY MallocShape
<1>2. n \notin U /\ r.head = hd2[n]
    BY DEF Mallocing
<1>3. r.a \in AllocRec /\ AllocShape(r.a, U \cup {n}, hd2, C2, H) /\ Len(C2[n]) = get_chunk_num(Len(bytes))
    BY <1>1 DEF Malloced
<1> DEFINE ra == r.a
<1> DEFINE rh == r.head
<1>4. b = split(ra, rh, bytes)
    OBVIOUS
<1> HIDE DEF ra, rh
<1>5. Stored(ra, b, U, C2, n, hd2, bytes, C2, H)
    BY <1>2, <1>3, <1>4, SplitStored DEF ra, rh
<1>6. ra.data_ = a.data_ /\ \A m \in U : C2[m] = C[m]
    BY <1>1 DEF Malloced, SameData, ra
<1>7. Stored(a, b, U, C, n, hd2, bytes, C2, H)
    BY <1>5, <1>6 DEF Stored
<1>8. r.head \in ChunkPtr /\ Len(H) = Len(G) - k
    BY <1>1 DEF Malloced
<1> QED BY <1>7, <1>8

-----------------------------------------------------------------------------
(* The whole pool.                                                         *)

heads(h) == [n \in Nodes |-> h.node[n].chunk_head_]

\* A is the add list, B the buckets' lists, F the free nodes, C the values'
\* chains and G the free chunks.
Shape(h, A, B, F, C, G) ==
    /\ h \in PoolRec
    /\ AddShape(h, A)
    /\ LinkShape(h, Ran(A), B, F)
    /\ Ran(A) \cup Ran(F) = Nodes
    /\ h.used_node_num_ = Len(A)
    /\ \A n, m \in Ran(A) : h.node[n].key_ = h.node[m].key_ => n = m
    /\ AllocShape(h.a, Ran(A), heads(h), C, G)
    /\ \A n \in Ran(A) : Len(C[n]) = get_chunk_num(h.node[n].chunk_len_)

\* The facts of a shape, without the definition.
LEMMA ShapeFacts ==
    ASSUME NEW h, NEW A, NEW B, NEW F, NEW C, NEW G, Shape(h, A, B, F, C, G)
    PROVE  /\ h \in PoolRec /\ AddShape(h, A) /\ LinkShape(h, Ran(A), B, F) /\ Ran(A) \cup Ran(F) = Nodes
           /\ h.used_node_num_ = Len(A) /\ AllocShape(h.a, Ran(A), heads(h), C, G)
           /\ Len(A) \in Nat /\ Ran(A) \subseteq Nodes /\ Ran(A) \cap Ran(F) = {}
           /\ \A n \in Nodes : heads(h)[n] = h.node[n].chunk_head_
           /\ Len(G) \in Nat /\ h.a \in AllocRec /\ h.a.free_total_ = Len(G)
           /\ h.node \in [Nodes -> NodeRec] /\ h.free_list_ \in NodePtr
<1>1. Len(A) \in Nat /\ Ran(A) \subseteq Nodes
    BY DEF Shape, AddShape, IsList, Ran
<1>2. Ran(A) \cap Ran(F) = {}
    BY DEF Shape, LinkShape
<1>3. Len(G) \in Nat /\ h.a.free_total_ = Len(G)
    BY DEF Shape, AllocShape, IsList
<1>4. h.a \in AllocRec /\ h.node \in [Nodes -> NodeRec] /\ h.free_list_ \in NodePtr
    BY DEF Shape, PoolRec
<1> QED BY <1>1, <1>2, <1>3, <1>4 DEF Shape, heads

\* A pool that differs in nothing the shape is about.
LEMMA ShapeSame ==
    ASSUME NEW h, NEW A, NEW B, NEW F, NEW C, NEW G, Shape(h, A, B, F, C, G),
           NEW g \in PoolRec, SameLinks(g, h), SameAdd(g, h), SameKeys(g, h), SameValues(g, h)
    PROVE  Shape(g, A, B, F, C, G)
<1>1. AddShape(g, A)
    BY AddSame DEF Shape
<1>2. LinkShape(g, Ran(A), B, F)
    BY LinkSame, ShapeFacts DEF SameKeys
<1>3. AllocShape(g.a, Ran(A), heads(g), C, G)
  <2>1. g.a = h.a /\ heads(g) = heads(h)
    BY DEF SameValues, heads
  <2> QED BY <2>1 DEF Shape
<1>4. g.used_node_num_ = Len(A)
    BY DEF Shape, SameLinks
<1>5. \A n \in Ran(A) : g.node[n].key_ = h.node[n].key_ /\ g.node[n].chunk_len_ = h.node[n].chunk_len_
    BY ShapeFacts DEF SameKeys, SameValues
<1>6. (\A n, m \in Ran(A) : g.node[n].key_ = g.node[m].key_ => n = m)
      /\ \A n \in Ran(A) : Len(C[n]) = get_chunk_num(g.node[n].chunk_len_)
    BY <1>5 DEF Shape
<1> QED BY <1>1, <1>2, <1>3, <1>4, <1>6 DEF Shape

\* A used node that becomes the most recently used one.
LEMMA TouchShape ==
    ASSUME NEW h, NEW A, NEW B, NEW F, NEW C, NEW G, Shape(h, A, B, F, C, G), NEW n \in Ran(A)
    PROVE  /\ Shape(insert_add_list_head(h, n), Touch(A, n), B, F, C, G)
           /\ OnlyAdd(insert_add_list_head(h, n), h)
           /\ Ran(Touch(A, n)) = Ran(A)
<1> DEFINE g == insert_add_list_head(h, n)
<1>1. h \in PoolRec /\ n \in Nodes /\ AddShape(h, A)
    BY ShapeFacts
<1>2. /\ g \in PoolRec /\ OnlyAdd(g, h) /\ AddShape(g, Touch(A, n))
      /\ Ran(Touch(A, n)) = Ran(A) /\ Len(Touch(A, n)) = Len(A)
    BY <1>1, InsAdd
<1> HIDE DEF g
<1>3. SameLinks(g, h) /\ SameKeys(g, h) /\ SameValues(g, h)
    BY <1>2 DEF OnlyAdd
<1>4. LinkShape(g, Ran(A), B, F)
    BY <1>3, LinkSame, ShapeFacts DEF SameKeys
<1>5. AllocShape(g.a, Ran(A), heads(g), C, G)
  <2>1. g.a = h.a /\ heads(g) = heads(h)
    BY <1>3 DEF SameValues, heads
  <2> QED BY <2>1 DEF Shape
<1>6. g.used_node_num_ = Len(A)
    BY <1>3 DEF Shape, SameLinks
<1>7. \A m \in Ran(A) : g.node[m].key_ = h.node[m].key_ /\ g.node[m].chunk_len_ = h.node[m].chunk_len_
    BY <1>3, ShapeFacts DEF SameKeys, SameValues
<1>8. (\A o, m \in Ran(A) : g.node[o].key_ = g.node[m].key_ => o = m)
      /\ \A m \in Ran(A) : Len(C[m]) = get_chunk_num(g.node[m].chunk_len_)
    BY <1>7 DEF Shape
<1>9. Ran(A) \cup Ran(F) = Nodes
    BY DEF Shape
<1> QED BY <1>2, <1>4, <1>5, <1>6, <1>8, <1>9 DEF Shape, g

\* set_node_flag writes a flag and nothing else.
LEMMA FlagEffect ==
    ASSUME NEW h \in PoolRec, NEW n \in Nodes, NEW f \in Flags, NEW g, g = set_node_flag(h, n, f)
    PROVE  /\ g \in PoolRec /\ SameLinks(g, h) /\ SameAdd(g, h) /\ SameKeys(g, h) /\ SameValues(g, h)
           /\ \A m \in Nodes : g.node[m].flag_ = IF m = n THEN f ELSE h.node[m].flag_
<1>1. h.node \in [Nodes -> NodeRec]
    BY DEF PoolRec
<1>2. /\ g.node = [h.node EXCEPT ![n].flag_ = f] /\ g.bucket = h.bucket /\ g.free_list_ = h.free_list_
      /\ g.used_node_num_ = h.used_node_num_ /\ g.add_head_ = h.add_head_ /\ g.add_tail_ = h.add_tail_ /\ g.a = h.a
    BY DEF set_node_flag, PoolRec
<1>3. g.node \in [Nodes -> NodeRec]
    BY <1>1, <1>2 DEF NodeRec
<1>4. g \in PoolRec
    BY <1>2, <1>3 DEF set_node_flag, PoolRec
<1>5. SameLinks(g, h) /\ SameAdd(g, h)
    BY <1>1, <1>2 DEF NodeRec, SameLinks, SameAdd
<1>6. SameKeys(g, h) /\ SameValues(g, h)
    BY <1>1, <1>2 DEF NodeRec, SameKeys, SameValues
<1>7. \A m \in Nodes : g.node[m].flag_ = IF m = n THEN f ELSE h.node[m].flag_
    BY <1>1, <1>2 DEF NodeRec
<1> QED BY <1>4, <1>5, <1>6, <1>7

\* A node's flag is not part of the shape.
LEMMA FlagShape ==
    ASSUME NEW h, NEW A, NEW B, NEW F, NEW C, NEW G, Shape(h, A, B, F, C, G), NEW n \in Ran(A), NEW f \in Flags
    PROVE  Shape(set_node_flag(h, n, f), A, B, F, C, G)
<1>1. h \in PoolRec /\ n \in Nodes
    BY ShapeFacts
<1> DEFINE g == set_node_flag(h, n, f)
<1>2. g \in PoolRec /\ SameLinks(g, h) /\ SameAdd(g, h) /\ SameKeys(g, h) /\ SameValues(g, h)
    BY <1>1, FlagEffect
<1> HIDE DEF g
<1>3. Shape(g, A, B, F, C, G)
    BY <1>2, ShapeSame
<1> QED BY <1>3 DEF g

-----------------------------------------------------------------------------
(* Look-ups.                                                               *)

\* lookup answers the node of the key, or Nil if no used node has it.
LEMMA LookupFinds ==
    ASSUME NEW h, NEW A, NEW B, NEW F, NEW C, NEW G, Shape(h, A, B, F, C, G), NEW k \in Nat,
           NEW n, n = lookup(h, k)
    PROVE  \/ n = Nil /\ \A m \in Ran(A) : h.node[m].key_ # k
           \/ n \in Ran(A) /\ h.node[n].key_ = k
<1> DEFINE b == get_bucket_id(k)
<1> DEFINE T == {m \in Nodes : h.node[m].key_ = k}
<1> DEFINE nx == node_nexts(h)
<1> DEFINE Body(w, i, p) == IF p = Nil \/ i = 0 THEN Nil
                            ELSE IF h.node[p].key_ = k THEN p ELSE w[i - 1][h.node[p].node_next_]
<1> DEFINE w0 == CHOOSE w : w = [i \in 0..NodeTotal |-> [p \in Nodes \cup {Nil} |-> Body(w, i, p)]]
<1>1. n = w0[NodeTotal][h.bucket[b]]
    BY DEF lookup
<1>2. h \in PoolRec /\ LinkShape(h, Ran(A), B, F) /\ Ran(A) \subseteq Nodes /\ b \in Buckets
    BY ShapeFacts, BucketOf
<1>3. /\ IsList(Nodes, nx, h.bucket[b], B[b])
      /\ Ran(B[b]) \subseteq Ran(A)
      /\ \A m \in Ran(A) : m \in Ran(B[b]) <=> get_bucket_id(h.node[m].key_) = b
    BY <1>2, LinkFacts
<1>4. nx \in [Nodes -> Nodes \cup {Nil}]
    BY <1>2 DEF node_nexts, PoolRec, NodeRec, NodePtr
<1>5. NodeTotal \in Nat /\ Nil \notin Nodes
    BY Sets
<1>6. \A w : [i \in 0..NodeTotal |-> [p \in Nodes \cup {Nil} |-> Body(w, i, p)]] =
              [i \in 0..NodeTotal |-> [p \in Nodes \cup {Nil} |->
                  IF p = Nil \/ i = 0 THEN Nil ELSE IF p \in T THEN p ELSE w[i - 1][nx[p]]]]
  <2> TAKE w
  <2>1. ASSUME NEW i \in 0..NodeTotal, NEW p \in Nodes \cup {Nil}
        PROVE  Body(w, i, p) = IF p = Nil \/ i = 0 THEN Nil ELSE IF p \in T THEN p ELSE w[i - 1][nx[p]]
    <3>1. CASE p = Nil
      BY <3>1
    <3>2. CASE p \in Nodes
      <4>1. nx[p] = h.node[p].node_next_ /\ (p \in T <=> h.node[p].key_ = k)
        BY <3>2, NodeCols
      <4> HIDE DEF nx, T
      <4> QED BY <4>1
    <3> QED BY <3>1, <3>2
  <2> HIDE DEF Body, nx, T
  <2> QED BY <2>1
<1>7. w0 = CHOOSE w : IsFindWalk(w, Nodes, nx, NodeTotal, T)
  <2> HIDE DEF Body, nx, T
  <2> QED BY <1>6, Zenon DEF IsFindWalk
<1> HIDE DEF w0, nx, T, b
<1>8. \E w : IsFindWalk(w, Nodes, nx, NodeTotal, T)
    BY <1>4, <1>5, FindWalkExists
<1>9. IsFindWalk(w0, Nodes, nx, NodeTotal, T)
    BY <1>7, <1>8, Zenon
<1>10. Len(B[b]) <= NodeTotal
    BY <1>3, ListBound, Sets
<1>11. IsFirst(n, B[b], 1, Len(B[b]), T)
  <2>1. IsFirst(w0[NodeTotal][h.bucket[b]], B[b], 1, Len(B[b]), T)
    BY <1>3, <1>4, <1>5, <1>9, <1>10, FindIs
  <2> QED BY <1>1, <2>1 DEF b
<1>12. CASE n = Nil /\ \A i \in 1..Len(B[b]) : B[b][i] \notin T
  <2>1. ASSUME NEW m \in Ran(A), h.node[m].key_ = k PROVE FALSE
    <3>1. m \in Ran(B[b]) /\ m \in T
      BY <1>2, <1>3, <2>1 DEF b, T
    <3> QED BY <1>12, <3>1 DEF Ran
  <2> QED BY <1>12, <2>1
<1>13. CASE \E i \in 1..Len(B[b]) : n = B[b][i] /\ B[b][i] \in T
  <2>1. n \in Ran(B[b]) /\ n \in T
    BY <1>13 DEF Ran
  <2> QED BY <1>3, <2>1 DEF T
<1> QED BY <1>11, <1>12, <1>13 DEF IsFirst

\* find_node moves the node it finds to the head of the add list.
LEMMA FindShape ==
    ASSUME NEW h, NEW A, NEW B, NEW F, NEW C, NEW G, Shape(h, A, B, F, C, G), NEW k \in Nat,
           NEW s, s = find_node(h, k)
    PROVE  /\ s.n = lookup(h, k)
           /\ s.n = Nil => s.h = h /\ \A m \in Ran(A) : h.node[m].key_ # k
           /\ s.n # Nil => /\ s.n \in Ran(A) /\ h.node[s.n].key_ = k
                           /\ Shape(s.h, Touch(A, s.n), B, F, C, G) /\ OnlyAdd(s.h, h)
                           /\ Ran(Touch(A, s.n)) = Ran(A)
<1> DEFINE n == lookup(h, k)
<1>1. s.n = n /\ s.h = IF n = Nil THEN h ELSE insert_add_list_head(h, n)
    BY DEF find_node
<1>2. \/ n = Nil /\ \A m \in Ran(A) : h.node[m].key_ # k
      \/ n \in Ran(A) /\ h.node[n].key_ = k
    BY LookupFinds
<1>3. Nil \notin Ran(A)
    BY ShapeFacts, Sets
<1> HIDE DEF n
<1>4. CASE n = Nil
    BY <1>1, <1>2, <1>3, <1>4 DEF n
<1>5. CASE n # Nil
  <2>1. n \in Ran(A) /\ h.node[n].key_ = k
    BY <1>2, <1>5
  <2>2. /\ Shape(insert_add_list_head(h, n), Touch(A, n), B, F, C, G)
        /\ OnlyAdd(insert_add_list_head(h, n), h) /\ Ran(Touch(A, n)) = Ran(A)
    BY <2>1, TouchShape
  <2> QED BY <1>1, <1>5, <2>1, <2>2 DEF n
<1> QED BY <1>4, <1>5

-----------------------------------------------------------------------------
(* Entries that come and go.                                               *)

\* The number of chunks is a number.
LEMMA ChunkNum ==
    ASSUME NEW len \in Nat
    PROVE  get_chunk_num(len) \in Nat
<1>1. len + ChunkSize - 1 \in Nat /\ ChunkSize \in Nat \ {0}
    BY Sets
<1> QED BY <1>1 DEF get_chunk_num

\* The entries of the nodes U are the same, their bytes included.
SameEntries(U, g, h, C2, C) ==
    \A m \in U : /\ g.node[m].key_ = h.node[m].key_ /\ g.node[m].chunk_len_ = h.node[m].chunk_len_
                  /\ g.node[m].flag_ = h.node[m].flag_ /\ C2[m] = C[m]
                  /\ \A c \in Ran(C[m]) : g.a.data_[c] = h.a.data_[c]

\* delete_node: the node and its chunks are free.
LEMMA DeleteShape ==
    ASSUME NEW h, NEW A, NEW B, NEW F, NEW C, NEW G, Shape(h, A, B, F, C, G), NEW n \in Ran(A)
    PROVE  /\ \E B2, F2, G2 : Shape(delete_node(h, n), Without(A, n), B2, F2, C, G2)
           /\ Ran(Without(A, n)) = Ran(A) \ {n}
           /\ SameEntries(Ran(A) \ {n}, delete_node(h, n), h, C, C)
<1> DEFINE d1 == delete_from_add_list(h, n)
<1> DEFINE d == delete_from_node_list(d1, n)
<1> DEFINE e == [d EXCEPT !.a = free(d.a, d.node[n].chunk_head_), !.node[n] = blank_node]
<1> DEFINE g == free_list_insert(e, n)
<1> DEFINE W == Without(A, n)
<1> DEFINE U == Ran(A)
<1>0. delete_node(h, n) = g
    BY DEF delete_node, free_node
<1>1. /\ h \in PoolRec /\ n \in Nodes /\ AddShape(h, A) /\ LinkShape(h, U, B, F) /\ U \cup Ran(F) = Nodes
      /\ h.used_node_num_ = Len(A) /\ AllocShape(h.a, U, heads(h), C, G) /\ Len(A) \in Nat /\ U \subseteq Nodes
      /\ U \cap Ran(F) = {}
    BY ShapeFacts
<1>2. /\ d1 \in PoolRec /\ OnlyAdd(d1, h) /\ AddShape(d1, W) /\ Ran(W) = U \ {n} /\ Len(W) = Len(A) - 1
    BY <1>1, DelAdd
<1> HIDE DEF d1, W
<1>3. LinkShape(d1, U, B, F)
    BY <1>1, <1>2, LinkSame DEF OnlyAdd, SameKeys
<1>4. PICK B2 : /\ d \in PoolRec /\ OnlyLinks(d, d1) /\ d.used_node_num_ = d1.used_node_num_ - 1
                /\ d.node[n].node_next_ = Nil /\ d.node[n].node_prev_ = Nil
                /\ LinkShape(d, U \ {n}, B2, F)
    BY <1>2, <1>3, BucketDelete
<1> HIDE DEF d
<1>5. AddShape(d, W)
    BY <1>2, <1>4, AddSame DEF OnlyLinks
<1>6. d.a = h.a /\ \A m \in Nodes : /\ d.node[m].key_ = h.node[m].key_ /\ d.node[m].chunk_len_ = h.node[m].chunk_len_
                                     /\ d.node[m].chunk_head_ = h.node[m].chunk_head_ /\ d.node[m].flag_ = h.node[m].flag_
    BY <1>2, <1>4 DEF OnlyAdd, OnlyLinks, SameKeys, SameValues, SameFlags
<1>7. d.node[n].chunk_head_ = heads(h)[n] /\ heads(d) = heads(h)
    BY <1>1, <1>6 DEF heads
<1> DEFINE fr == free(h.a, heads(h)[n])
<1>8. PICK G2 : fr \in AllocRec /\ AllocShape(fr, U \ {n}, heads(h), C, G2) /\ fr.data_ = h.a.data_
  <2>1. h.a \in AllocRec
    BY ShapeFacts
  <2>2. AllocShape(h.a, U, heads(h), C, G) /\ n \in U
    BY <1>1
  <2>3. fr = free(h.a, heads(h)[n])
    OBVIOUS
  <2> HIDE DEF U, fr
  <2>4. \E H : Freed(h.a, fr, U, heads(h), C, G, n, H)
    BY <2>1, <2>2, <2>3, FreeShape
  <2> QED BY <2>4 DEF Freed, SameData
<1>9. e = [d EXCEPT !.a = fr, !.node[n] = blank_node]
    BY <1>6, <1>7
<1> HIDE DEF fr, e
<1>10. d.node \in [Nodes -> NodeRec] /\ blank_node \in NodeRec
  <2>1. d.node \in [Nodes -> NodeRec]
    BY <1>4 DEF PoolRec
  <2>2. blank_node \in NodeRec
    BY DEF blank_node, NodeRec, NodePtr, ChunkPtr, Flags
  <2> QED BY <2>1, <2>2
<1>11. /\ e.node = [d.node EXCEPT ![n] = blank_node] /\ e.a = fr /\ e.bucket = d.bucket /\ e.free_list_ = d.free_list_
       /\ e.used_node_num_ = d.used_node_num_ /\ e.add_head_ = d.add_head_ /\ e.add_tail_ = d.add_tail_
    BY <1>4, <1>9 DEF PoolRec
<1>12. e \in PoolRec
  <2>1. [d.node EXCEPT ![n] = blank_node] \in [Nodes -> NodeRec]
    BY <1>10
  <2>2. e = [d EXCEPT !.a = fr, !.node = [d.node EXCEPT ![n] = blank_node]]
    BY <1>4, <1>9 DEF PoolRec
  <2> QED BY <1>4, <1>8, <2>1, <2>2 DEF PoolRec
<1>13. \A m \in Nodes : e.node[m] = IF m = n THEN blank_node ELSE d.node[m]
    BY <1>10, <1>11
<1>14. SameLinks(e, d) /\ SameAdd(e, d)
  <2>1. blank_node.node_next_ = Nil /\ blank_node.node_prev_ = Nil /\ blank_node.add_next_ = Nil /\ blank_node.add_prev_ = Nil
    BY DEF blank_node
  <2>2. d.node[n].add_next_ = Nil /\ d.node[n].add_prev_ = Nil
    BY <1>1, <1>2, <1>5 DEF AddShape
  <2> QED BY <1>4, <1>11, <1>13, <2>1, <2>2 DEF SameLinks, SameAdd
<1>15. AddShape(e, W)
    BY <1>5, <1>14, AddSame
<1>16. LinkShape(e, U \ {n}, B2, F)
  <2>1. \A m \in U \ {n} : e.node[m].key_ = d.node[m].key_
    BY <1>1, <1>13
  <2> QED BY <1>4, <1>14, <2>1, LinkSame
<1>17. /\ g \in PoolRec /\ OnlyLinks(g, e) /\ g.used_node_num_ = e.used_node_num_
       /\ LinkShape(g, U \ {n}, B2, Push(F, n)) /\ Ran(Push(F, n)) = Ran(F) \cup {n}
  <2>1. n \notin U \ {n} /\ n \notin Ran(F)
    BY <1>1
  <2> QED BY <1>1, <1>12, <1>16, <2>1, FreeInsert
<1> HIDE DEF g
<1>18. AddShape(g, W)
    BY <1>15, <1>17, AddSame DEF OnlyLinks
<1>19. \A m \in U \ {n} : /\ g.node[m].key_ = h.node[m].key_ /\ g.node[m].chunk_len_ = h.node[m].chunk_len_
                           /\ g.node[m].chunk_head_ = h.node[m].chunk_head_ /\ g.node[m].flag_ = h.node[m].flag_
  <2> TAKE m \in U \ {n}
  <2>1. m \in Nodes /\ e.node[m] = d.node[m]
    BY <1>1, <1>13
  <2>2. /\ g.node[m].key_ = e.node[m].key_ /\ g.node[m].chunk_len_ = e.node[m].chunk_len_
        /\ g.node[m].chunk_head_ = e.node[m].chunk_head_ /\ g.node[m].flag_ = e.node[m].flag_
    BY <1>17, <2>1 DEF OnlyLinks, SameKeys, SameValues, SameFlags
  <2> QED BY <1>6, <2>1, <2>2
<1>20. AllocShape(g.a, U \ {n}, heads(g), C, G2)
  <2>1. g.a = fr
    BY <1>11, <1>17 DEF OnlyLinks, SameValues
  <2>2. \A m \in U \ {n} : heads(g)[m] = heads(h)[m]
    BY <1>1, <1>19 DEF heads
  <2> QED BY <1>8, <2>1, <2>2, AllocSame
<1>21. g.used_node_num_ = Len(W)
    BY <1>1, <1>2, <1>4, <1>11, <1>17 DEF OnlyAdd, SameLinks
<1>22. Ran(W) \cup Ran(Push(F, n)) = Nodes
    BY <1>1, <1>2, <1>17
<1>23. /\ \A m, o \in U \ {n} : g.node[m].key_ = g.node[o].key_ => m = o
       /\ \A m \in U \ {n} : Len(C[m]) = get_chunk_num(g.node[m].chunk_len_)
    BY <1>19 DEF Shape
<1>24. Shape(g, W, B2, Push(F, n), C, G2)
    BY <1>2, <1>17, <1>18, <1>20, <1>21, <1>22, <1>23 DEF Shape
<1>25. g.a.data_ = h.a.data_
    BY <1>8, <1>11, <1>17 DEF OnlyLinks, SameValues
<1>26. SameEntries(U \ {n}, g, h, C, C)
    BY <1>19, <1>25 DEF SameEntries
<1> QED BY <1>0, <1>2, <1>24, <1>26 DEF W

\* Node n is about to be used: p is the pool it has left the free list of,
\* s the allocator that holds its value, of len bytes, in the chain from head.
Using(h, A, B, F, C, n, p, s, hd2, C2, G2, k, len, head) ==
    /\ n \in Nodes /\ n \notin Ran(A)
    /\ p \in PoolRec /\ OnlyLinks(p, h) /\ p.used_node_num_ = h.used_node_num_
    /\ LinkShape(p, Ran(A), B, Pop(F)) /\ Ran(Pop(F)) = Ran(F) \ {n}
    /\ s \in AllocRec /\ k \in Keys /\ len \in Nat /\ head \in ChunkPtr
    /\ hd2[n] = head /\ \A m \in Ran(A) : hd2[m] = heads(h)[m]
    /\ AllocShape(s, Ran(A) \cup {n}, hd2, C2, G2) /\ Len(C2[n]) = get_chunk_num(len)
    /\ \A m \in Ran(A) : C2[m] = C[m] /\ h.node[m].key_ # k

\* use_node: the key and the value's chain of a node that enters its bucket and the add list.
LEMMA UseShape ==
    ASSUME NEW h, NEW A, NEW B, NEW F, NEW C, NEW G, Shape(h, A, B, F, C, G),
           NEW n, NEW p, NEW s, NEW hd2, NEW C2, NEW G2, NEW k, NEW len, NEW head,
           Using(h, A, B, F, C, n, p, s, hd2, C2, G2, k, len, head),
           NEW q, q = [p EXCEPT !.a = s], NEW g, g = insert_add_list_head(use_node(q, n, k, len, head), n)
    PROVE  /\ \E B2 : Shape(g, Touch(A, n), B2, Pop(F), C2, G2)
           /\ Ran(Touch(A, n)) = Ran(A) \cup {n}
           /\ g.a = s /\ g.node[n].key_ = k /\ g.node[n].chunk_len_ = len
           /\ \A m \in Ran(A) : /\ g.node[m].key_ = h.node[m].key_ /\ g.node[m].chunk_len_ = h.node[m].chunk_len_
                                 /\ g.node[m].flag_ = h.node[m].flag_
<1> USE DEF Using
<1> DEFINE U == Ran(A)
<1> DEFINE x == [p.node EXCEPT ![n].key_ = k, ![n].chunk_len_ = len, ![n].chunk_head_ = head]
<1> DEFINE u == [p EXCEPT !.a = s, !.node = x]
<1> DEFINE v == insert_node_list(u, n)
<1>1. /\ h \in PoolRec /\ AddShape(h, A) /\ U \subseteq Nodes /\ U \cup Ran(F) = Nodes /\ h.used_node_num_ = Len(A)
      /\ Len(A) \in Nat /\ U \cap Ran(F) = {}
    BY ShapeFacts
<1>2. p.node \in [Nodes -> NodeRec]
    BY DEF PoolRec
<1>3. x \in [Nodes -> NodeRec]
  <2>1. [p.node EXCEPT ![n].key_ = k] \in [Nodes -> NodeRec]
    BY <1>2 DEF NodeRec
  <2>2. [p.node EXCEPT ![n].key_ = k, ![n].chunk_len_ = len] \in [Nodes -> NodeRec]
    BY <2>1 DEF NodeRec
  <2> QED BY <2>2 DEF NodeRec
<1>4. /\ \A m \in Nodes : x[m].key_ = IF m = n THEN k ELSE p.node[m].key_
      /\ \A m \in Nodes : x[m].chunk_len_ = IF m = n THEN len ELSE p.node[m].chunk_len_
      /\ \A m \in Nodes : x[m].chunk_head_ = IF m = n THEN head ELSE p.node[m].chunk_head_
      /\ \A m \in Nodes : x[m].flag_ = p.node[m].flag_
      /\ \A m \in Nodes : x[m].node_next_ = p.node[m].node_next_ /\ x[m].node_prev_ = p.node[m].node_prev_
      /\ \A m \in Nodes : x[m].add_next_ = p.node[m].add_next_ /\ x[m].add_prev_ = p.node[m].add_prev_
    BY <1>2 DEF NodeRec
<1>5. use_node(q, n, k, len, head) = v
  <2>1. [q EXCEPT !.node[n].key_ = k, !.node[n].chunk_len_ = len, !.node[n].chunk_head_ = head] = u
    BY <1>2 DEF PoolRec, NodeRec
  <2> QED BY <2>1 DEF use_node
<1> HIDE DEF x
<1>6. u \in PoolRec
    BY <1>3 DEF PoolRec
<1>7. /\ u.node = x /\ u.a = s /\ u.bucket = p.bucket /\ u.free_list_ = p.free_list_
      /\ u.used_node_num_ = p.used_node_num_ /\ u.add_head_ = p.add_head_ /\ u.add_tail_ = p.add_tail_
    BY DEF PoolRec
<1> HIDE DEF u
<1>8. SameLinks(u, p) /\ SameAdd(u, p)
    BY <1>4, <1>7 DEF SameLinks, SameAdd
<1>9. LinkShape(u, U, B, Pop(F))
  <2>1. \A m \in U : u.node[m].key_ = p.node[m].key_
    BY <1>1, <1>4, <1>7
  <2> QED BY <1>8, <2>1, LinkSame
<1>10. AddShape(u, A)
  <2>1. AddShape(p, A)
    BY <1>1, AddSame DEF OnlyLinks
  <2> QED BY <1>8, <2>1, AddSame
<1>11. PICK B2 : /\ v \in PoolRec /\ OnlyLinks(v, u) /\ v.used_node_num_ = u.used_node_num_ + 1
                 /\ LinkShape(v, U \cup {n}, B2, Pop(F))
  <2>1. n \notin U /\ n \notin Ran(Pop(F))
    OBVIOUS
  <2> QED BY <1>6, <1>9, <2>1, BucketInsert
<1> HIDE DEF v
<1>12. AddShape(v, A)
    BY <1>10, <1>11, AddSame DEF OnlyLinks
<1>13. g = insert_add_list_head(v, n)
    BY <1>5
<1>14. /\ g \in PoolRec /\ OnlyAdd(g, v) /\ AddShape(g, Touch(A, n)) /\ Ran(Touch(A, n)) = U \cup {n}
       /\ Len(Touch(A, n)) = Len(A) + 1
    BY <1>11, <1>12, <1>13, InsAdd
<1> HIDE DEF U
<1>15. LinkShape(g, U \cup {n}, B2, Pop(F))
  <2>1. SameLinks(g, v) /\ \A m \in U \cup {n} : g.node[m].key_ = v.node[m].key_
    BY <1>1, <1>14 DEF OnlyAdd, SameKeys
  <2> QED BY <1>11, <2>1, LinkSame
<1>16. g.a = s /\ \A m \in Nodes : /\ g.node[m].key_ = x[m].key_ /\ g.node[m].chunk_len_ = x[m].chunk_len_
                                    /\ g.node[m].chunk_head_ = x[m].chunk_head_ /\ g.node[m].flag_ = x[m].flag_
    BY <1>7, <1>11, <1>14 DEF OnlyAdd, OnlyLinks, SameKeys, SameValues, SameFlags
<1>17. \A m \in Nodes : /\ p.node[m].key_ = h.node[m].key_ /\ p.node[m].chunk_len_ = h.node[m].chunk_len_
                         /\ p.node[m].chunk_head_ = h.node[m].chunk_head_ /\ p.node[m].flag_ = h.node[m].flag_
    BY DEF OnlyLinks, SameKeys, SameValues, SameFlags
<1>18. g.node[n].key_ = k /\ g.node[n].chunk_len_ = len /\ g.node[n].chunk_head_ = head
    BY <1>4, <1>16
<1>19. \A m \in U : /\ g.node[m].key_ = h.node[m].key_ /\ g.node[m].chunk_len_ = h.node[m].chunk_len_
                     /\ g.node[m].flag_ = h.node[m].flag_ /\ g.node[m].chunk_head_ = h.node[m].chunk_head_
    BY <1>1, <1>4, <1>16, <1>17 DEF U
<1>20. AllocShape(g.a, U \cup {n}, heads(g), C2, G2)
  <2>1. \A m \in U \cup {n} : heads(g)[m] = hd2[m]
    BY <1>1, <1>18, <1>19 DEF heads, U
  <2> QED BY <1>16, <2>1, AllocSame DEF U
<1>21. g.used_node_num_ = Len(Touch(A, n))
    BY <1>1, <1>7, <1>11, <1>14 DEF OnlyAdd, SameLinks
<1>22. (U \cup {n}) \cup Ran(Pop(F)) = Nodes
    BY <1>1 DEF U
<1>23. \A m, o \in U \cup {n} : g.node[m].key_ = g.node[o].key_ => m = o
  <2>1. \A m, o \in U : h.node[m].key_ = h.node[o].key_ => m = o
    BY DEF Shape, U
  <2> QED BY <1>18, <1>19, <2>1 DEF U
<1>24. \A m \in U \cup {n} : Len(C2[m]) = get_chunk_num(g.node[m].chunk_len_)
  <2>1. \A m \in U : Len(C[m]) = get_chunk_num(h.node[m].chunk_len_)
    BY DEF Shape, U
  <2> QED BY <1>18, <1>19, <2>1 DEF U
<1>25. Shape(g, Touch(A, n), B2, Pop(F), C2, G2)
    BY <1>14, <1>15, <1>20, <1>21, <1>22, <1>23, <1>24 DEF Shape
<1> QED BY <1>14, <1>16, <1>18, <1>19, <1>25 DEF U

\* Node n holds key k and the bytes, in its chain of C.
IsEntry(g, n, k, bytes, C) ==
    g.node[n].key_ = k /\ g.node[n].chunk_len_ = Len(bytes) /\ HoldsBytes(g.a, C[n], bytes)

\* The pool g is h with the bytes stored under k in node n, the most recently used one.
StoredIn(g, h, A, n, k, bytes, C, B2, F2, C2, G2) ==
    /\ Shape(g, Touch(A, n), B2, F2, C2, G2)
    /\ SameEntries(Ran(A) \ {n}, g, h, C2, C) /\ IsEntry(g, n, k, bytes, C2)

\* A pool in which only the links of free nodes differ.
LEMMA FreeLinksShape ==
    ASSUME NEW h, NEW A, NEW B, NEW F, NEW C, NEW G, Shape(h, A, B, F, C, G),
           NEW g \in PoolRec, OnlyLinks(g, h), g.used_node_num_ = h.used_node_num_,
           NEW F2, LinkShape(g, Ran(A), B, F2), Ran(F2) = Ran(F)
    PROVE  Shape(g, A, B, F2, C, G) /\ SameEntries(Ran(A), g, h, C, C)
<1>1. AddShape(g, A)
    BY AddSame, ShapeFacts DEF OnlyLinks
<1>2. AllocShape(g.a, Ran(A), heads(g), C, G)
  <2>1. g.a = h.a /\ heads(g) = heads(h)
    BY DEF OnlyLinks, SameValues, heads
  <2> QED BY <2>1 DEF Shape
<1>3. g.used_node_num_ = Len(A) /\ Ran(A) \cup Ran(F2) = Nodes
    BY DEF Shape
<1>4. g.a = h.a /\ \A n \in Ran(A) : /\ g.node[n].key_ = h.node[n].key_ /\ g.node[n].chunk_len_ = h.node[n].chunk_len_
                                     /\ g.node[n].flag_ = h.node[n].flag_
    BY ShapeFacts DEF OnlyLinks, SameKeys, SameValues, SameFlags
<1>5. (\A n, m \in Ran(A) : g.node[n].key_ = g.node[m].key_ => n = m)
      /\ \A n \in Ran(A) : Len(C[n]) = get_chunk_num(g.node[n].chunk_len_)
    BY <1>4 DEF Shape
<1>6. SameEntries(Ran(A), g, h, C, C)
    BY <1>4 DEF SameEntries
<1> QED BY <1>1, <1>2, <1>3, <1>5, <1>6 DEF Shape

\* There is no free node, not enough chunks, or no byte to store.
Refused(r, h, num, G) == r.n = Nil <=> (h.free_list_ = Nil \/ num > Len(G) \/ num = 0)

\* insert_node fails for want of a node or of chunks, or for an empty value.
LEMMA InsertAnswer ==
    ASSUME NEW h, NEW A, NEW B, NEW F, NEW C, NEW G, Shape(h, A, B, F, C, G), NEW k, NEW bytes \in Seq(Nat),
           NEW num, num = get_chunk_num(Len(bytes)), NEW r, r = insert_node(h, k, bytes),
           NEW p, p = free_list_remove(h, h.free_list_), NEW m, m = malloc(h.a, num)
    PROVE  /\ num \in Nat
           /\ h.free_list_ # Nil => p.a = h.a
           /\ Refused(r, h, num, G)
           /\ h.free_list_ = Nil => r.h = h
           /\ h.free_list_ # Nil /\ r.n = Nil => r.h = free_list_insert(p, h.free_list_)
           /\ r.n # Nil => /\ r.n = h.free_list_ /\ num <= Len(G) /\ num # 0
                          /\ r.h = insert_add_list_head(use_node([p EXCEPT !.a = split(m.a, m.head, bytes)],
                                                                   r.n, k, Len(bytes), m.head), r.n)
<1>1. num \in Nat /\ Len(bytes) \in Nat
    BY ChunkNum
<1>2. /\ h \in PoolRec /\ LinkShape(h, Ran(A), B, F) /\ AllocShape(h.a, Ran(A), heads(h), C, G)
      /\ Len(G) \in Nat /\ h.a \in AllocRec /\ h.a.free_total_ = Len(G) /\ Ran(A) \subseteq Nodes
    BY ShapeFacts
<1>3. h.free_list_ # Nil => p.a = h.a
    BY <1>2, FreeRemove DEF OnlyLinks, SameValues
<1>4. m.head = Nil <=> num > Len(G) \/ num = 0
  <2>1. CASE num > Len(G)
    <3>1. h.a.free_total_ < num
      BY <1>1, <1>2, <2>1
    <3>2. m = [a |-> h.a, head |-> Nil]
      BY <3>1, MallocRefuses
    <3> QED BY <2>1, <3>2
  <2>2. CASE num <= Len(G)
    <3> DEFINE hd2 == [i \in Nodes \cup {Nil} |-> IF i = Nil THEN m.head ELSE heads(h)[i]]
    <3>1. hd2[Nil] = m.head /\ (\A i \in Ran(A) : hd2[i] = heads(h)[i]) /\ Nil \notin Ran(A)
      BY <1>2, Sets
    <3> HIDE DEF hd2
    <3>2. Mallocing(h.a, Ran(A), heads(h), C, G, Nil, num, m, hd2)
      BY <1>1, <1>2, <2>2, <3>1 DEF Mallocing
    <3>3. PICK C2, H : Malloced(h.a, Ran(A), C, G, Nil, num, m, hd2, C2, H)
      BY <3>2, MallocShape
    <3>4. m.head = Nil <=> num = 0
      BY <3>3 DEF Malloced
    <3> QED BY <1>1, <1>2, <2>2, <3>4
  <2> QED BY <1>1, <1>2, <2>1, <2>2
<1>5. CASE h.free_list_ = Nil
  <2>1. r = [h |-> h, n |-> Nil]
    BY <1>5, Zenon DEF insert_node
  <2> QED BY <1>1, <1>5, <2>1 DEF Refused
<1>6. CASE h.free_list_ # Nil /\ m.head = Nil
  <2>1. r = [h |-> free_list_insert(p, h.free_list_), n |-> Nil]
    BY <1>3, <1>6, Zenon DEF insert_node
  <2> QED BY <1>1, <1>3, <1>4, <1>6, <2>1 DEF Refused
<1>7. CASE h.free_list_ # Nil /\ m.head # Nil
  <2>1. r = [h |-> insert_add_list_head(use_node([p EXCEPT !.a = split(m.a, m.head, bytes)],
                                                 h.free_list_, k, Len(bytes), m.head), h.free_list_),
             n |-> h.free_list_]
    BY <1>3, <1>7, Zenon DEF insert_node
  <2> QED BY <1>1, <1>2, <1>3, <1>4, <1>7, <2>1 DEF Refused
<1> QED BY <1>1, <1>5, <1>6, <1>7 DEF Refused

\* insert_node adds the entry as the most recently used one, or changes no entry.
LEMMA InsertShape ==
    ASSUME NEW h, NEW A, NEW B, NEW F, NEW C, NEW G, Shape(h, A, B, F, C, G), NEW k \in Keys,
           NEW bytes \in Seq(Nat), \A m \in Ran(A) : h.node[m].key_ # k,
           NEW r, r = insert_node(h, k, bytes)
    PROVE  /\ r.n = Nil => \E F2 : Shape(r.h, A, B, F2, C, G) /\ SameEntries(Ran(A), r.h, h, C, C)
           /\ r.n # Nil => /\ r.n \in Nodes \ Ran(A) /\ Ran(Touch(A, r.n)) = Ran(A) \cup {r.n}
                          /\ \E B2, F2, C2, G2 : StoredIn(r.h, h, A, r.n, k, bytes, C, B2, F2, C2, G2)
<1> DEFINE U == Ran(A)
<1> DEFINE n == h.free_list_
<1> DEFINE p == free_list_remove(h, n)
<1> DEFINE num == get_chunk_num(Len(bytes))
<1> DEFINE m == malloc(h.a, num)
<1> DEFINE s == split(m.a, m.head, bytes)
<1> DEFINE q == [p EXCEPT !.a = s]
<1>1. /\ num \in Nat
      /\ h.free_list_ = Nil => r.h = h
      /\ h.free_list_ # Nil /\ r.n = Nil => r.h = free_list_insert(p, n)
      /\ r.n # Nil => /\ r.n = n /\ num <= Len(G) /\ num # 0
                     /\ r.h = insert_add_list_head(use_node(q, n, k, Len(bytes), m.head), n)
      /\ h.free_list_ = Nil => r.n = Nil
    BY InsertAnswer DEF Refused
<1>2. /\ h \in PoolRec /\ LinkShape(h, U, B, F) /\ AllocShape(h.a, U, heads(h), C, G)
      /\ Len(G) \in Nat /\ h.a \in AllocRec /\ U \subseteq Nodes /\ U \cap Ran(F) = {}
    BY ShapeFacts
<1>3. n # Nil => /\ p \in PoolRec /\ OnlyLinks(p, h) /\ p.used_node_num_ = h.used_node_num_
                 /\ LinkShape(p, U, B, Pop(F)) /\ Ran(Pop(F)) = Ran(F) \ {n}
                 /\ n \in Ran(F) /\ n \in Nodes
    BY <1>2, FreeRemove
<1> HIDE DEF n, p, num, q, s
<1>4. CASE n = Nil
  <2>1. r.n = Nil /\ r.h = h
    BY <1>1, <1>4 DEF n
  <2>2. SameEntries(U, h, h, C, C)
    BY DEF SameEntries
  <2> QED BY <2>1, <2>2
<1>5. CASE n # Nil /\ r.n = Nil
  <2>1. r.h = free_list_insert(p, n)
    BY <1>1, <1>5 DEF n
  <2>2. n \notin U /\ n \notin Ran(Pop(F))
    BY <1>2, <1>3, <1>5
  <2>3. /\ r.h \in PoolRec /\ OnlyLinks(r.h, p) /\ r.h.used_node_num_ = p.used_node_num_
        /\ LinkShape(r.h, U, B, Push(Pop(F), n)) /\ Ran(Push(Pop(F), n)) = Ran(Pop(F)) \cup {n}
    BY <1>3, <1>5, <2>1, <2>2, FreeInsert
  <2>4. OnlyLinks(r.h, h)
    BY <1>3, <1>5, <2>3 DEF OnlyLinks, SameAdd, SameKeys, SameValues, SameFlags
  <2>5. Ran(Push(Pop(F), n)) = Ran(F) /\ r.h.used_node_num_ = h.used_node_num_
    BY <1>3, <1>5, <2>3
  <2>6. Shape(r.h, A, B, Push(Pop(F), n), C, G) /\ SameEntries(U, r.h, h, C, C)
    BY <2>3, <2>4, <2>5, FreeLinksShape
  <2> QED BY <1>5, <2>6
<1>6. CASE n # Nil /\ r.n # Nil
  <2>1. /\ r.n = n /\ num <= Len(G) /\ num # 0 /\ n \notin U
        /\ r.h = insert_add_list_head(use_node(q, n, k, Len(bytes), m.head), n)
    BY <1>1, <1>2, <1>3, <1>6
  <2> DEFINE hd2 == [i \in Nodes |-> IF i = n THEN m.head ELSE heads(h)[i]]
  <2>2. hd2[n] = m.head /\ \A i \in U : hd2[i] = heads(h)[i]
    BY <1>2, <1>3, <1>6, <2>1
  <2> HIDE DEF hd2, m, U
  <2>3. m = malloc(h.a, num)
    BY DEF m
  <2>4. Mallocing(h.a, U, heads(h), C, G, n, num, m, hd2)
    BY <1>1, <1>2, <2>1, <2>2, <2>3 DEF Mallocing
  <2>5. /\ m.head \in ChunkPtr
        /\ \E C2, H : Stored(h.a, s, U, C, n, hd2, bytes, C2, H)
    BY <2>4, StoreShape DEF s, num
  <2>6. PICK C2, G2 : Stored(h.a, s, U, C, n, hd2, bytes, C2, G2)
    BY <2>5
  <2>7. Using(h, A, B, F, C, n, p, s, hd2, C2, G2, k, Len(bytes), m.head)
    <3>1. s \in AllocRec /\ AllocShape(s, U \cup {n}, hd2, C2, G2) /\ Len(C2[n]) = get_chunk_num(Len(bytes))
          /\ \A i \in U : C2[i] = C[i]
      BY <2>6 DEF Stored
    <3>2. Len(bytes) \in Nat
      OBVIOUS
    <3> QED BY <1>3, <1>6, <2>1, <2>2, <2>5, <3>1, <3>2 DEF Using, U
  <2>8. q = [p EXCEPT !.a = s]
    BY DEF q
  <2> DEFINE g == r.h
  <2>9. g = insert_add_list_head(use_node(q, n, k, Len(bytes), m.head), n)
    BY <2>1
  <2> HIDE DEF g
  <2>10. /\ \E B2 : Shape(g, Touch(A, n), B2, Pop(F), C2, G2)
         /\ Ran(Touch(A, n)) = Ran(A) \cup {n}
         /\ g.a = s /\ g.node[n].key_ = k /\ g.node[n].chunk_len_ = Len(bytes)
         /\ \A i \in Ran(A) : /\ g.node[i].key_ = h.node[i].key_ /\ g.node[i].chunk_len_ = h.node[i].chunk_len_
                               /\ g.node[i].flag_ = h.node[i].flag_
    BY <2>7, <2>8, <2>9, UseShape
  <2>11. IsEntry(g, n, k, bytes, C2)
    BY <2>6, <2>10 DEF IsEntry, Stored
  <2>12. SameEntries(U \ {n}, g, h, C2, C)
    BY <2>6, <2>10 DEF SameEntries, Stored, U
  <2>13. r.n \in Nodes \ U
    BY <1>3, <1>6, <2>1
  <2>14. \E B2 : StoredIn(g, h, A, n, k, bytes, C, B2, Pop(F), C2, G2)
    BY <2>10, <2>11, <2>12 DEF StoredIn, U
  <2> QED BY <1>6, <2>1, <2>10, <2>13, <2>14 DEF U, g
<1> QED BY <1>4, <1>5, <1>6

\* The value of the used node n is replaced: s holds it in the chain from head.
Replacing(h, A, C, n, bytes, s, hd2, C2, G2, head, w) ==
    /\ n \in Ran(A) /\ bytes \in Seq(Nat) /\ head \in ChunkPtr /\ head = hd2[n]
    /\ Stored(h.a, s, Ran(A) \ {n}, C, n, hd2, bytes, C2, G2)
    /\ \A m \in Ran(A) \ {n} : hd2[m] = heads(h)[m]
    /\ w = [h EXCEPT !.a = s, !.node[n].chunk_head_ = head, !.node[n].chunk_len_ = Len(bytes)]

\* update_node's stores keep the shape and change the one entry.
LEMMA ReplaceShape ==
    ASSUME NEW h, NEW A, NEW B, NEW F, NEW C, NEW G, Shape(h, A, B, F, C, G), NEW n, NEW bytes, NEW s, NEW hd2,
           NEW C2, NEW G2, NEW head, NEW w, Replacing(h, A, C, n, bytes, s, hd2, C2, G2, head, w)
    PROVE  /\ Shape(w, A, B, F, C2, G2)
           /\ SameEntries(Ran(A) \ {n}, w, h, C2, C) /\ IsEntry(w, n, h.node[n].key_, bytes, C2)
<1> USE DEF Replacing
<1> DEFINE U == Ran(A)
<1> DEFINE x == [h.node EXCEPT ![n].chunk_head_ = head, ![n].chunk_len_ = Len(bytes)]
<1>1. h \in PoolRec /\ n \in Nodes /\ U \subseteq Nodes /\ h.node \in [Nodes -> NodeRec]
    BY ShapeFacts
<1>2. Len(bytes) \in Nat
    OBVIOUS
<1>3. x \in [Nodes -> NodeRec]
  <2>1. [h.node EXCEPT ![n].chunk_head_ = head] \in [Nodes -> NodeRec]
    BY <1>1, ZenonT(40) DEF NodeRec
  <2>2. ASSUME NEW l \in Nat
        PROVE  [h.node EXCEPT ![n].chunk_head_ = head, ![n].chunk_len_ = l] \in [Nodes -> NodeRec]
    BY <2>1, ZenonT(40) DEF NodeRec
  <2> QED BY <1>2, <2>2
<1>4. /\ \A m \in Nodes : x[m].chunk_len_ = IF m = n THEN Len(bytes) ELSE h.node[m].chunk_len_
      /\ \A m \in Nodes : x[m].chunk_head_ = IF m = n THEN head ELSE h.node[m].chunk_head_
      /\ \A m \in Nodes : x[m].flag_ = h.node[m].flag_ /\ x[m].key_ = h.node[m].key_
      /\ \A m \in Nodes : x[m].node_next_ = h.node[m].node_next_ /\ x[m].node_prev_ = h.node[m].node_prev_
      /\ \A m \in Nodes : x[m].add_next_ = h.node[m].add_next_ /\ x[m].add_prev_ = h.node[m].add_prev_
    BY <1>1 DEF NodeRec
<1>5. w = [h EXCEPT !.a = s, !.node = x]
    BY <1>1 DEF PoolRec, NodeRec
<1> HIDE DEF x
<1>6. s \in AllocRec /\ AllocShape(s, (U \ {n}) \cup {n}, hd2, C2, G2) /\ Len(C2[n]) = get_chunk_num(Len(bytes))
      /\ HoldsBytes(s, C2[n], bytes) /\ \A m \in U \ {n} : C2[m] = C[m] /\ \A c \in Ran(C[m]) : s.data_[c] = h.a.data_[c]
    BY DEF Stored
<1>7. w \in PoolRec
    BY <1>1, <1>3, <1>5, <1>6 DEF PoolRec
<1>8. /\ w.node = x /\ w.a = s /\ w.bucket = h.bucket /\ w.free_list_ = h.free_list_
      /\ w.used_node_num_ = h.used_node_num_ /\ w.add_head_ = h.add_head_ /\ w.add_tail_ = h.add_tail_
    BY <1>1, <1>5 DEF PoolRec
<1>9. SameLinks(w, h) /\ SameAdd(w, h) /\ SameKeys(w, h)
    BY <1>4, <1>8 DEF SameLinks, SameAdd, SameKeys
<1>10. AddShape(w, A) /\ LinkShape(w, U, B, F)
  <2>1. AddShape(h, A) /\ LinkShape(h, U, B, F) /\ \A m \in U : w.node[m].key_ = h.node[m].key_
    BY <1>1, <1>9, ShapeFacts DEF SameKeys
  <2> QED BY <1>9, <2>1, AddSame, LinkSame
<1>11. AllocShape(w.a, U, heads(w), C2, G2)
  <2>1. (U \ {n}) \cup {n} = U
    OBVIOUS
  <2>2. \A m \in U : heads(w)[m] = w.node[m].chunk_head_ /\ heads(h)[m] = h.node[m].chunk_head_
    BY <1>1 DEF heads
  <2>3. \A m \in U : heads(w)[m] = hd2[m]
    BY <1>1, <1>4, <1>8, <2>2
  <2>4. AllocShape(s, U, hd2, C2, G2)
    BY <1>6, <2>1
  <2>5. AllocShape(s, U, heads(w), C2, G2)
    BY <2>3, <2>4, AllocSame
  <2> QED BY <1>8, <2>5
<1>12. w.used_node_num_ = Len(A) /\ U \cup Ran(F) = Nodes
    BY <1>8 DEF Shape
<1>13. /\ \A m, o \in U : w.node[m].key_ = w.node[o].key_ => m = o
       /\ \A m \in U : Len(C2[m]) = get_chunk_num(w.node[m].chunk_len_)
  <2>1. \A m, o \in U : h.node[m].key_ = h.node[o].key_ => m = o
    BY DEF Shape
  <2>2. \A m \in U : Len(C[m]) = get_chunk_num(h.node[m].chunk_len_)
    BY DEF Shape
  <2>3. \A m \in U : w.node[m].key_ = h.node[m].key_
    BY <1>1, <1>4, <1>8
  <2>4. ASSUME NEW m \in U PROVE Len(C2[m]) = get_chunk_num(w.node[m].chunk_len_)
    <3>1. CASE m = n
      BY <1>1, <1>4, <1>6, <1>8, <3>1
    <3>2. CASE m # n
      <4>1. w.node[m].chunk_len_ = h.node[m].chunk_len_ /\ C2[m] = C[m]
        BY <1>1, <1>4, <1>6, <1>8, <3>2
      <4> QED BY <2>2, <4>1
    <3> QED BY <3>1, <3>2
  <2> QED BY <2>1, <2>3, <2>4
<1>14. Shape(w, A, B, F, C2, G2)
    BY <1>7, <1>10, <1>11, <1>12, <1>13 DEF Shape
<1>15. SameEntries(U \ {n}, w, h, C2, C)
    BY <1>1, <1>4, <1>6, <1>8 DEF SameEntries
<1>16. IsEntry(w, n, h.node[n].key_, bytes, C2)
    BY <1>1, <1>4, <1>6, <1>8 DEF IsEntry
<1> QED BY <1>14, <1>15, <1>16

\* Moving a node in the add list keeps every entry.
LEMMA OnlyAddEntries ==
    ASSUME NEW g, NEW w, OnlyAdd(g, w), NEW U, U \subseteq Nodes, NEW h, NEW C, NEW C2
    PROVE  /\ SameEntries(U, w, h, C2, C) => SameEntries(U, g, h, C2, C)
           /\ \A n \in Nodes : \A k, bytes : IsEntry(w, n, k, bytes, C2) => IsEntry(g, n, k, bytes, C2)
<1>1. g.a = w.a /\ \A m \in Nodes : /\ g.node[m].key_ = w.node[m].key_ /\ g.node[m].chunk_len_ = w.node[m].chunk_len_
                                    /\ g.node[m].flag_ = w.node[m].flag_
    BY DEF OnlyAdd, SameKeys, SameValues, SameFlags
<1> QED BY <1>1 DEF SameEntries, IsEntry

\* update_node fails for want of chunks.
LEMMA UpdateAnswer ==
    ASSUME NEW h, NEW A, NEW B, NEW F, NEW C, NEW G, Shape(h, A, B, F, C, G), NEW n \in Ran(A),
           NEW bytes \in Seq(Nat), NEW r, r = update_node(h, n, bytes)
    PROVE  /\ get_chunk_num(Len(bytes)) \in Nat /\ Len(C[n]) \in Nat
           /\ r.n = Nil <=> get_chunk_num(Len(bytes)) > Len(C[n]) + Len(G)
           /\ r.n = Nil => r.h = h
           /\ r.n # Nil => r.n = n
<1>1. get_chunk_num(Len(bytes)) \in Nat
    BY ChunkNum
<1>2. n # Nil /\ h.a.free_total_ = Len(G) /\ Len(G) \in Nat
    BY ShapeFacts, Sets
<1>3. Len(C[n]) = get_chunk_num(h.node[n].chunk_len_) /\ Len(C[n]) \in Nat
  <2>1. Len(C[n]) = get_chunk_num(h.node[n].chunk_len_) /\ AllocShape(h.a, Ran(A), heads(h), C, G)
    BY DEF Shape
  <2> QED BY <2>1 DEF AllocShape, IsList
<1>4. update_fits(h, n, bytes) <=> ~(get_chunk_num(Len(bytes)) > Len(C[n]) + Len(G))
    BY <1>1, <1>2, <1>3 DEF update_fits
<1>5. CASE update_fits(h, n, bytes)
  <2>1. r.n = n
    BY <1>5, Zenon DEF update_node
  <2> QED BY <1>1, <1>2, <1>3, <1>4, <1>5, <2>1
<1>6. CASE ~update_fits(h, n, bytes)
  <2>1. r = [h |-> h, n |-> Nil]
    BY <1>6, Zenon DEF update_node
  <2> QED BY <1>1, <1>2, <1>3, <1>4, <1>6, <2>1
<1> QED BY <1>5, <1>6

\* update_node replaces the value of the node, which becomes the most recently used one.
LEMMA UpdateShape ==
    ASSUME NEW h, NEW A, NEW B, NEW F, NEW C, NEW G, Shape(h, A, B, F, C, G), NEW n \in Ran(A),
           NEW bytes \in Seq(Nat), NEW r, r = update_node(h, n, bytes), r.n # Nil
    PROVE  /\ r.n = n /\ Ran(Touch(A, n)) = Ran(A)
           /\ \E C2, G2 : StoredIn(r.h, h, A, n, h.node[n].key_, bytes, C, B, F, C2, G2)
<1> DEFINE U == Ran(A)
<1> DEFINE num == get_chunk_num(Len(bytes))
<1> DEFINE same == num = get_chunk_num(h.node[n].chunk_len_)
<1> DEFINE fr == free(h.a, h.node[n].chunk_head_)
<1> DEFINE m == IF same THEN [a |-> h.a, head |-> h.node[n].chunk_head_] ELSE malloc(fr, num)
<1> DEFINE s == split(m.a, m.head, bytes)
<1> DEFINE w == [h EXCEPT !.a = s, !.node[n].chunk_head_ = m.head, !.node[n].chunk_len_ = Len(bytes)]
<1>1. /\ num \in Nat /\ Len(C[n]) \in Nat /\ num <= Len(C[n]) + Len(G) /\ r.n = n /\ Len(G) \in Nat
  <2>1. num \in Nat /\ Len(C[n]) \in Nat /\ r.n = n /\ ~(num > Len(C[n]) + Len(G)) /\ Len(G) \in Nat
    BY UpdateAnswer, ShapeFacts
  <2> HIDE DEF num
  <2> QED BY <2>1
<1>2. r.h = insert_add_list_head(w, n)
  <2>1. update_fits(h, n, bytes)
    <3>1. ASSUME ~update_fits(h, n, bytes) PROVE r.n = Nil
      BY <3>1, Zenon DEF update_node
    <3> QED BY <3>1
  <2> QED BY <2>1, Zenon DEF update_node
<1>3. /\ h \in PoolRec /\ AllocShape(h.a, U, heads(h), C, G) /\ h.a \in AllocRec /\ U \subseteq Nodes
      /\ \A i \in Nodes : heads(h)[i] = h.node[i].chunk_head_
      /\ n \in Nodes /\ h.node \in [Nodes -> NodeRec]
    BY ShapeFacts
<1>4. heads(h)[n] = h.node[n].chunk_head_ /\ heads(h)[n] \in ChunkPtr
    BY <1>3 DEF NodeRec
<1>5. Len(C[n]) = get_chunk_num(h.node[n].chunk_len_)
    BY DEF Shape
<1> HIDE DEF num, s, w, U
<1>6. \E hd2, C2, G2 : /\ m.head = hd2[n] /\ m.head \in ChunkPtr
                       /\ Stored(h.a, s, U \ {n}, C, n, hd2, bytes, C2, G2)
                       /\ \A i \in U \ {n} : hd2[i] = heads(h)[i]
  <2>1. CASE same
    <3>1. m.a = h.a /\ m.head = heads(h)[n]
      BY <1>4, <2>1
    <3>2. (U \ {n}) \cup {n} = U /\ n \notin U \ {n}
      BY DEF U
    <3>3. Len(C[n]) = get_chunk_num(Len(bytes))
      BY <1>5, <2>1 DEF num
    <3>4. s = split(h.a, heads(h)[n], bytes)
      BY <3>1 DEF s
    <3>5. AllocShape(h.a, (U \ {n}) \cup {n}, heads(h), C, G)
      BY <1>3, <3>2
    <3> DEFINE V == U \ {n}
    <3> DEFINE al == h.a
    <3> DEFINE hd == heads(h)
    <3> DEFINE top == hd[n]
    <3>6. n \notin V /\ al \in AllocRec /\ AllocShape(al, V \cup {n}, hd, C, G) /\ s = split(al, top, bytes) /\ top = hd[n]
      BY <1>3, <3>2, <3>4, <3>5
    <3> HIDE DEF V, al, hd, top
    <3>7. Stored(al, s, V, C, n, hd, bytes, C, G)
      BY <3>3, <3>6, SplitStored
    <3> QED BY <1>4, <3>1, <3>7 DEF V, al, hd
  <2>2. CASE ~same
    <3> DEFINE hd == heads(h)
    <3>1. m = malloc(fr, num) /\ fr = free(h.a, hd[n])
      BY <1>4, <2>2
    <3> HIDE DEF m, fr, hd
    <3>2. AllocShape(h.a, U, hd, C, G) /\ n \in U
      BY <1>3 DEF hd, U
    <3>3. PICK H : Freed(h.a, fr, U, hd, C, G, n, H)
      BY <1>3, <3>1, <3>2, FreeShape
    <3>4. /\ fr \in AllocRec /\ SameData(fr, h.a)
          /\ AllocShape(fr, U \ {n}, hd, C, H) /\ Len(H) = Len(G) + Len(C[n])
      BY <3>3 DEF Freed
    <3> DEFINE hd2 == [i \in Nodes |-> IF i = n THEN m.head ELSE hd[i]]
    <3>5. hd2[n] = m.head /\ \A i \in U \ {n} : hd2[i] = hd[i]
      BY <1>3
    <3> HIDE DEF hd2
    <3>6. Mallocing(fr, U \ {n}, hd, C, H, n, num, m, hd2)
      <4>1. num <= Len(H)
        BY <1>1, <3>4
      <4> QED BY <1>1, <3>1, <3>4, <3>5, <4>1 DEF Mallocing
    <3>7. m.head \in ChunkPtr /\ \E C2, G2 : Stored(fr, s, U \ {n}, C, n, hd2, bytes, C2, G2)
      BY <3>6, StoreShape DEF s, num
    <3>8. PICK C2, G2 : Stored(fr, s, U \ {n}, C, n, hd2, bytes, C2, G2)
      BY <3>7
    <3>9. Stored(h.a, s, U \ {n}, C, n, hd2, bytes, C2, G2)
      BY <3>4, <3>8 DEF Stored, SameData
    <3> QED BY <3>5, <3>7, <3>9 DEF hd
  <2> QED BY <2>1, <2>2
<1>7. PICK hd2, C2, G2 : /\ m.head = hd2[n] /\ m.head \in ChunkPtr
                         /\ Stored(h.a, s, U \ {n}, C, n, hd2, bytes, C2, G2)
                         /\ \A i \in U \ {n} : hd2[i] = heads(h)[i]
    BY <1>6
<1> DEFINE head == m.head
<1>8. w = [h EXCEPT !.a = s, !.node[n].chunk_head_ = head, !.node[n].chunk_len_ = Len(bytes)]
    BY DEF w
<1> HIDE DEF m, head
<1>9. /\ Shape(w, A, B, F, C2, G2)
      /\ SameEntries(Ran(A) \ {n}, w, h, C2, C) /\ IsEntry(w, n, h.node[n].key_, bytes, C2)
  <2>1. Replacing(h, A, C, n, bytes, s, hd2, C2, G2, head, w)
    BY <1>7, <1>8 DEF Replacing, head, U
  <2> QED BY <2>1, ReplaceShape
<1>10. Shape(r.h, Touch(A, n), B, F, C2, G2) /\ OnlyAdd(r.h, w) /\ Ran(Touch(A, n)) = Ran(A)
    BY <1>2, <1>9, TouchShape
<1>11. SameEntries(Ran(A) \ {n}, r.h, h, C2, C) /\ IsEntry(r.h, n, h.node[n].key_, bytes, C2)
  <2>1. Ran(A) \ {n} \subseteq Nodes
    BY <1>3 DEF U
  <2> QED BY <1>3, <1>9, <1>10, <2>1, OnlyAddEntries
<1> QED BY <1>1, <1>10, <1>11 DEF StoredIn

-----------------------------------------------------------------------------
(* Loops.                                                                  *)

\* The turns of a loop lead from V[i - 1] to V[i].
TurnLeads(G, N, b, V) ==
    /\ b \in V[0]
    /\ \A i \in 1..N : \A v \in V[i - 1] : G[<<i, v>>] \in V[i]

TurnsOf(f, G, N, b, V) ==
    /\ f = [i \in 0..N |-> f[i]]
    /\ \A i \in 0..N : f[i] \in V[i]
    /\ \A i \in 0..N : f[i] = IF i = 0 THEN b ELSE G[<<i, f[i - 1]>>]

\* The recursive function that counts a loop's turns exists.
LEMMA TurnsExist ==
    ASSUME NEW N \in Nat, NEW b, NEW G, NEW V, TurnLeads(G, N, b, V)
    PROVE  \E f : TurnsOf(f, G, N, b, V)
<1> DEFINE S == {m \in Nat : m <= N => \E f : TurnsOf(f, G, m, b, V)}
<1>1. 0 \in S
  <2> DEFINE f == [i \in 0..0 |-> b]
  <2>1. \A i \in 0..0 : i = 0
    OBVIOUS
  <2>2. f[0] = b /\ f = [i \in 0..0 |-> f[i]]
    OBVIOUS
  <2> HIDE DEF f
  <2>3. \A i \in 0..0 : f[i] \in V[i] /\ f[i] = IF i = 0 THEN b ELSE G[<<i, f[i - 1]>>]
    BY <2>1, <2>2 DEF TurnLeads
  <2>4. TurnsOf(f, G, 0, b, V)
    BY <2>2, <2>3 DEF TurnsOf
  <2> QED BY <2>4
<1>2. ASSUME NEW m \in Nat, m \in S PROVE m + 1 \in S
  <2> SUFFICES ASSUME m + 1 <= N PROVE \E f : TurnsOf(f, G, m + 1, b, V)
    OBVIOUS
  <2>1. PICK g : TurnsOf(g, G, m, b, V)
    BY <1>2
  <2> DEFINE f == [i \in 0..(m + 1) |-> IF i = m + 1 THEN G[<<m + 1, g[m]>>] ELSE g[i]]
  <2>2. /\ f = [i \in 0..(m + 1) |-> f[i]] /\ f[m + 1] = G[<<m + 1, g[m]>>]
        /\ \A i \in 0..m : f[i] = g[i]
    OBVIOUS
  <2> HIDE DEF f
  <2>3. ASSUME NEW i \in 0..(m + 1) PROVE f[i] \in V[i] /\ f[i] = IF i = 0 THEN b ELSE G[<<i, f[i - 1]>>]
    <3>1. CASE i = m + 1
      <4>1. m \in 0..m /\ m + 1 \in 1..N /\ (m + 1) - 1 = m /\ m + 1 # 0
        OBVIOUS
      <4>2. g[m] \in V[m]
        BY <2>1, <4>1 DEF TurnsOf
      <4>3. G[<<m + 1, g[m]>>] \in V[m + 1]
        BY <4>1, <4>2 DEF TurnLeads
      <4> QED BY <2>2, <3>1, <4>1, <4>3
    <3>2. CASE i \in 0..m
      <4>1. g[i] \in V[i] /\ g[i] = IF i = 0 THEN b ELSE G[<<i, g[i - 1]>>]
        BY <2>1, <3>2 DEF TurnsOf
      <4>2. i # 0 => i - 1 \in 0..m
        BY <3>2
      <4> QED BY <2>2, <3>2, <4>1, <4>2
    <3> QED BY <3>1, <3>2
  <2>4. TurnsOf(f, G, m + 1, b, V)
    BY <2>2, <2>3 DEF TurnsOf
  <2> QED BY <2>4
<1>3. Nat \subseteq S
  <2>1. \A m \in Nat : m \in S => m + 1 \in S
    BY <1>2
  <2> HIDE DEF S
  <2> QED BY <1>1, <2>1, NatInd
<1>4. N \in S
    BY <1>3
<1> QED BY <1>4

\* What every turn keeps holds after each.
LEMMA TurnsKeep ==
    ASSUME NEW N \in Nat, NEW w, NEW V, w[0] \in V[0], \A i \in 1..N : w[i - 1] \in V[i - 1] => w[i] \in V[i]
    PROVE  \A i \in 0..N : w[i] \in V[i]
<1> DEFINE S == {i \in 0..N : w[i] \in V[i]}
<1>1. 0 \in S
    OBVIOUS
<1>2. ASSUME NEW i \in 0..(N - 1), i \in S PROVE i + 1 \in S
  <2>1. i + 1 \in 1..N /\ (i + 1) - 1 = i /\ i + 1 \in 0..N
    OBVIOUS
  <2>2. w[i] \in V[i]
    BY <1>2
  <2>3. w[i + 1] \in V[i + 1]
    BY <2>1, <2>2
  <2> QED BY <2>1, <2>3
<1>3. \A i \in 0..N : i \in S
  <2> HIDE DEF S
  <2> QED BY <1>1, <1>2, BoundedInd
<1> QED BY <1>3

-----------------------------------------------------------------------------
(* What a loop along a list collects.                                      *)

\* t holds the wanted ones of the first i members of s, each once.
Collected(s, W, i, t) ==
    /\ \A p, q \in 1..Len(t) : t[p] = t[q] => p = q
    /\ Ran(t) = {s[j] : j \in {l \in 1..i : s[l] \in W}}

\* One turn of a collecting loop.
LEMMA CollectOne ==
    ASSUME NEW D, NEW s \in Seq(D), \A p, q \in 1..Len(s) : s[p] = s[q] => p = q, NEW W, NEW i \in 1..Len(s),
           NEW t \in Seq(D), Collected(s, W, i - 1, t)
    PROVE  /\ s[i] \in W => Append(t, s[i]) \in Seq(D) /\ Collected(s, W, i, Append(t, s[i]))
           /\ s[i] \notin W => Collected(s, W, i, t)
<1> DEFINE J(n) == {l \in 1..n : s[l] \in W}
<1>1. s[i] \notin W => J(i) = J(i - 1)
    OBVIOUS
<1>2. s[i] \in W => J(i) = J(i - 1) \cup {i}
    OBVIOUS
<1>3. /\ \A p, q \in 1..Len(t) : t[p] = t[q] => p = q
      /\ Ran(t) = {s[j] : j \in J(i - 1)}
    BY DEF Collected
<1>4. s[i] \notin Ran(t)
  <2>1. \A j \in J(i - 1) : j \in 1..Len(s) /\ j # i
    OBVIOUS
  <2> HIDE DEF J
  <2> QED BY <1>3, <2>1
<1> HIDE DEF J
<1>5. ASSUME s[i] \notin W PROVE Collected(s, W, i, t)
    BY <1>1, <1>3, <1>5 DEF Collected, J
<1>6. ASSUME s[i] \in W PROVE Append(t, s[i]) \in Seq(D) /\ Collected(s, W, i, Append(t, s[i]))
  <2> DEFINE u == Append(t, s[i])
  <2>1. s[i] \in D /\ Len(t) \in Nat
    OBVIOUS
  <2>2. u \in Seq(D) /\ Len(u) = Len(t) + 1 /\ u[Len(t) + 1] = s[i] /\ \A p \in 1..Len(t) : u[p] = t[p]
    BY <2>1
  <2> HIDE DEF u
  <2>3. \A p \in 1..Len(u) : p = Len(t) + 1 \/ p \in 1..Len(t)
    BY <2>1, <2>2
  <2>4. \A p \in 1..Len(t) : t[p] # s[i]
    BY <1>4 DEF Ran
  <2>5. \A p, q \in 1..Len(u) : u[p] = u[q] => p = q
    BY <1>3, <2>2, <2>3, <2>4
  <2>6. Ran(u) = Ran(t) \cup {s[i]}
    <3>1. Ran(u) \subseteq Ran(t) \cup {s[i]}
      BY <2>2, <2>3 DEF Ran
    <3>2. s[i] \in Ran(u)
      <4>1. Len(t) + 1 \in 1..Len(u)
        BY <2>1, <2>2
      <4> QED BY <2>2, <4>1 DEF Ran
    <3>3. Ran(t) \subseteq Ran(u)
      <4>1. \A p \in 1..Len(t) : p \in 1..Len(u)
        BY <2>1, <2>2
      <4> QED BY <2>2, <4>1 DEF Ran
    <3> QED BY <3>1, <3>2, <3>3
  <2>7. Ran(u) = {s[j] : j \in J(i)}
    BY <1>2, <1>3, <1>6, <2>6
  <2> QED BY <2>2, <2>5, <2>7 DEF Collected, J, u
<1> QED BY <1>5, <1>6

\* What a collecting loop returns: the wanted members, each once.
LEMMA CollectIs ==
    ASSUME NEW D, NEW s \in Seq(D), \A p, q \in 1..Len(s) : s[p] = s[q] => p = q, NEW W
    PROVE  collect(s, W) \in Seq(D) /\ Collected(s, W, Len(s), collect(s, W))
<1> DEFINE N == Len(s)
<1> DEFINE Body(w, i) == IF i = 0 THEN <<>> ELSE IF s[i] \in W THEN Append(w[i - 1], s[i]) ELSE w[i - 1]
<1> DEFINE w0 == CHOOSE w : w = [i \in 0..N |-> Body(w, i)]
<1> DEFINE V == [i \in 0..N |-> {t \in Seq(D) : Collected(s, W, i, t)}]
<1> DEFINE K == [x \in (1..N) \X Seq(D) |-> IF s[x[1]] \in W THEN Append(x[2], s[x[1]]) ELSE x[2]]
<1>0. N \in Nat
    OBVIOUS
<1>1. collect(s, W) = w0[N]
    BY DEF collect
<1>2. <<>> \in V[0]
  <2>1. Ran(<<>>) = {} /\ 1..0 = {} /\ <<>> \in Seq(D)
    BY DEF Ran
  <2>2. Collected(s, W, 0, <<>>)
    BY <2>1 DEF Collected
  <2>3. 0 \in 0..N
    OBVIOUS
  <2> QED BY <2>1, <2>2, <2>3
<1>3. ASSUME NEW i \in 1..N, NEW t \in V[i - 1]
      PROVE  t \in Seq(D) /\ (IF s[i] \in W THEN Append(t, s[i]) ELSE t) \in V[i]
  <2>1. i - 1 \in 0..N /\ i \in 0..N
    OBVIOUS
  <2>2. t \in Seq(D) /\ Collected(s, W, i - 1, t)
    BY <2>1
  <2>3. /\ s[i] \in W => Append(t, s[i]) \in Seq(D) /\ Collected(s, W, i, Append(t, s[i]))
        /\ s[i] \notin W => Collected(s, W, i, t)
    BY <2>2, CollectOne
  <2> QED BY <2>1, <2>2, <2>3
<1>4. \A i \in 1..N, t \in Seq(D) : K[<<i, t>>] = IF s[i] \in W THEN Append(t, s[i]) ELSE t
    OBVIOUS
<1> HIDE DEF V, K, N
<1>5. TurnLeads(K, N, <<>>, V)
    BY <1>2, <1>3, <1>4 DEF TurnLeads
<1>6. PICK f : TurnsOf(f, K, N, <<>>, V)
    BY <1>0, <1>5, TurnsExist
<1>7. f = [i \in 0..N |-> Body(f, i)]
  <2>1. ASSUME NEW i \in 0..N PROVE f[i] = Body(f, i)
    <3>1. CASE i = 0
      BY <1>6, <3>1 DEF TurnsOf
    <3>2. CASE i # 0
      <4>1. i \in 1..N /\ i - 1 \in 0..N
        BY <1>0, <3>2
      <4>2. f[i - 1] \in V[i - 1] /\ f[i] = K[<<i, f[i - 1]>>]
        BY <1>6, <3>2, <4>1 DEF TurnsOf
      <4>3. f[i - 1] \in Seq(D)
        BY <1>3, <4>1, <4>2
      <4> QED BY <1>4, <3>2, <4>1, <4>2, <4>3
    <3> QED BY <3>1, <3>2
  <2>2. f = [i \in 0..N |-> f[i]]
    BY <1>6 DEF TurnsOf
  <2> HIDE DEF Body
  <2> QED BY <2>1, <2>2
<1>8. w0 = [i \in 0..N |-> Body(w0, i)]
  <2> HIDE DEF Body
  <2> QED BY <1>7, Zenon
<1> HIDE DEF w0
<1>9. \A i \in 0..N : w0[i] = Body(w0, i)
  <2> HIDE DEF Body
  <2> QED BY <1>8
<1>10. \A i \in 0..N : w0[i] \in V[i]
  <2>1. w0[0] \in V[0]
    BY <1>0, <1>2, <1>9
  <2>2. ASSUME NEW i \in 1..N, w0[i - 1] \in V[i - 1] PROVE w0[i] \in V[i]
    <3>1. i \in 0..N /\ i # 0
      BY <1>0
    <3>2. w0[i] = IF s[i] \in W THEN Append(w0[i - 1], s[i]) ELSE w0[i - 1]
      BY <1>9, <3>1
    <3> QED BY <1>3, <2>2, <3>2
  <2> QED BY <1>0, <2>1, <2>2, TurnsKeep
<1>11. w0[N] \in V[N] /\ N \in 0..N
    BY <1>0, <1>10
<1> QED BY <1>1, <1>11 DEF V, N

-----------------------------------------------------------------------------
(* The invariant.                                                          *)

\* The pool is well formed: its links and counters describe some lists.
WF(h) == \E A, B, F, C, G : Shape(h, A, B, F, C, G)

\* The list of the free ones after the pool's memory has been laid out.
Descending(N) == [i \in 1..N |-> N + 1 - i]

\* Each number pointing to the one below it makes the descending list.
LEMMA DescendingList ==
    ASSUME NEW N \in Nat, NEW nx, \A i \in 1..N : nx[i] = i - 1, NEW head, head = N
    PROVE  IsList(1..N, nx, head, Descending(N)) /\ Ran(Descending(N)) = 1..N /\ Len(Descending(N)) = N
<1> DEFINE s == Descending(N)
<1>1. s \in Seq(1..N) /\ Len(s) = N /\ \A i \in 1..N : s[i] = N + 1 - i
    BY DEF Descending
<1> HIDE DEF s
<1>2. \A i \in 1..N : N + 1 - i \in 1..N
    OBVIOUS
<1>3. Ran(s) = 1..N
  <2>1. ASSUME NEW m \in 1..N PROVE m \in Ran(s)
    <3>1. N + 1 - m \in 1..N /\ s[N + 1 - m] = m
      BY <1>1
    <3> QED BY <1>1, <3>1 DEF Ran
  <2>2. Ran(s) \subseteq 1..N
    BY <1>1 DEF Ran
  <2> QED BY <2>1, <2>2
<1>4. \A i, j \in 1..N : s[i] = s[j] => i = j
    BY <1>1
<1>5. head = IF N = 0 THEN Nil ELSE s[1]
    BY <1>1 DEF Nil
<1>6. \A i \in 1..N : nx[s[i]] = IF i = N THEN Nil ELSE s[i + 1]
  <2> TAKE i \in 1..N
  <2>1. nx[s[i]] = N - i
    <3>1. s[i] = N + 1 - i /\ N + 1 - i \in 1..N /\ (N + 1 - i) - 1 = N - i
      BY <1>1, <1>2
    <3> QED BY <3>1
  <2>2. i # N => i + 1 \in 1..N /\ s[i + 1] = N - i
    BY <1>1
  <2> QED BY <2>1, <2>2 DEF Nil
<1>7. IsList(1..N, nx, head, s)
    BY <1>1, <1>4, <1>5, <1>6 DEF IsList
<1> QED BY <1>1, <1>3, <1>7 DEF s

\* A new pool: all nodes and all chunks are free.
LEMMA InitShape ==
    Shape(init_pool, <<>>, [b \in Buckets |-> <<>>], Descending(NodeTotal), <<>>, Descending(ChunkTotal))
<1> DEFINE h == init_pool
<1> DEFINE F == Descending(NodeTotal)
<1> DEFINE G == Descending(ChunkTotal)
<1> DEFINE B == [b \in Buckets |-> <<>>]
<1>1. NodeTotal \in Nat /\ ChunkTotal \in Nat /\ Nodes = 1..NodeTotal /\ Chunks = 1..ChunkTotal
    BY Sets DEF Nodes, Chunks
<1>2. /\ h.node = [n \in Nodes |-> [blank_node EXCEPT !.node_next_ = n - 1]] /\ h.bucket = [b \in Buckets |-> Nil]
      /\ h.add_head_ = Nil /\ h.add_tail_ = Nil /\ h.free_list_ = NodeTotal /\ h.used_node_num_ = 0 /\ h.a = init_chunks
      /\ h = [node |-> h.node, bucket |-> h.bucket, add_head_ |-> h.add_head_, add_tail_ |-> h.add_tail_,
              free_list_ |-> h.free_list_, used_node_num_ |-> h.used_node_num_, a |-> h.a]
    BY DEF init_pool
<1>3. \A n \in Nodes : n - 1 \in NodePtr
    BY <1>1 DEF NodePtr, Nil
<1>4. \A n \in Nodes : h.node[n] \in NodeRec /\ h.node[n].node_next_ = n - 1 /\ h.node[n].add_next_ = Nil
                       /\ h.node[n].add_prev_ = Nil /\ h.node[n].node_prev_ = Nil
  <2> TAKE n \in Nodes
  <2>1. h.node[n] = [blank_node EXCEPT !.node_next_ = n - 1]
    BY <1>2
  <2>2. n - 1 \in NodePtr /\ Nil \in NodePtr /\ Nil \in ChunkPtr
    BY <1>3 DEF NodePtr, ChunkPtr
  <2> QED BY <2>1, <2>2 DEF blank_node, NodeRec, Flags
<1>5. init_chunks \in AllocRec
  <2>1. \A c \in Chunks : c - 1 \in ChunkPtr
    BY <1>1 DEF ChunkPtr, Nil
  <2>2. [c \in Chunks |-> c - 1] \in [Chunks -> ChunkPtr]
    BY <2>1
  <2>3. [c \in Chunks |-> [b \in 1..ChunkSize |-> 0]] \in [Chunks -> [1..ChunkSize -> Nat]]
    OBVIOUS
  <2>4. ChunkTotal \in ChunkPtr /\ ChunkTotal \in Int
    BY <1>1 DEF ChunkPtr, Nil
  <2> QED BY <2>2, <2>3, <2>4 DEF init_chunks, AllocRec
<1>6. h \in PoolRec
  <2>1. h.node \in [Nodes -> NodeRec]
    BY <1>2, <1>4
  <2>2. NodeTotal \in NodePtr /\ Nil \in NodePtr
    BY <1>1 DEF NodePtr, Nil
  <2>3. h.bucket \in [Buckets -> NodePtr] /\ 0 \in Int
    BY <1>2, <2>2
  <2> HIDE DEF h
  <2> QED BY <1>2, <1>5, <2>1, <2>2, <2>3 DEF PoolRec
<1> HIDE DEF h
<1>7. IsList(Nodes, node_nexts(h), h.free_list_, F) /\ Ran(F) = Nodes
  <2>1. \A i \in 1..NodeTotal : node_nexts(h)[i] = i - 1
    BY <1>1, <1>4 DEF node_nexts
  <2>2. h.free_list_ = NodeTotal
    BY <1>2
  <2> QED BY <1>1, <2>1, <2>2, DescendingList
<1>8. IsList(Chunks, h.a.next_, h.a.free_list_, G) /\ Ran(G) = Chunks /\ Len(G) = ChunkTotal
  <2>1. \A i \in 1..ChunkTotal : h.a.next_[i] = i - 1
    BY <1>1, <1>2 DEF init_chunks
  <2>2. h.a.free_list_ = ChunkTotal
    BY <1>2 DEF init_chunks
  <2> QED BY <1>1, <2>1, <2>2, DescendingList
<1>9. Ran(<<>>) = {} /\ Len(<<>>) = 0
    BY DEF Ran
<1>10. \A D, nx : IsList(D, nx, Nil, <<>>)
    BY <1>9 DEF IsList
<1>11. AddShape(h, <<>>)
  <2>1. IsBack(add_prevs(h), <<>>) /\ End(<<>>) = Nil
    BY <1>9 DEF IsBack, End
  <2> QED BY <1>2, <1>4, <1>9, <1>10, <2>1 DEF AddShape
<1>12. LinkShape(h, {}, B, F)
  <2>1. \A b \in Buckets : B[b] = <<>> /\ h.bucket[b] = Nil
    BY <1>2
  <2>2. B \in [Buckets -> Seq(Nodes)]
    OBVIOUS
  <2>3. \A pv : IsBack(pv, <<>>)
    BY <1>9 DEF IsBack
  <2> HIDE DEF B
  <2> QED BY <1>7, <1>9, <1>10, <2>1, <2>2, <2>3 DEF LinkShape
<1>13. AllocShape(h.a, {}, heads(h), <<>>, G)
  <2>1. h.a.free_total_ = Len(G)
    BY <1>2, <1>8 DEF init_chunks
  <2> QED BY <1>8, <2>1 DEF AllocShape
<1>14. h.used_node_num_ = Len(<<>>) /\ {} \cup Ran(F) = Nodes
    BY <1>2, <1>7, <1>9
<1> QED BY <1>6, <1>9, <1>11, <1>12, <1>13, <1>14 DEF Shape, h

-----------------------------------------------------------------------------
(* The operations keep the pool well formed.                               *)

\* set(): the pool it leaves is well formed, whether it accepts the value or not.
LEMMA SetShape ==
    ASSUME NEW h, WF(h), NEW k \in Keys, NEW bytes \in Seq(Nat), NEW f \in Flags, NEW r, r = set(h, k, bytes, f)
    PROVE  WF(r.h)
<1> DEFINE s == find_node(h, k)
<1> DEFINE t == IF s.n = Nil THEN insert_node(s.h, k, bytes) ELSE update_node(s.h, s.n, bytes)
<1>1. r.h = IF t.n = Nil THEN t.h ELSE set_node_flag(t.h, t.n, f)
    BY DEF set
<1>2. PICK A, B, F, C, G : Shape(h, A, B, F, C, G)
    BY DEF WF
<1>3. k \in Nat
    BY NodeAssumption
<1>4. /\ s.n = Nil => s.h = h /\ \A m \in Ran(A) : h.node[m].key_ # k
      /\ s.n # Nil => /\ s.n \in Ran(A) /\ Shape(s.h, Touch(A, s.n), B, F, C, G)
                      /\ Ran(Touch(A, s.n)) = Ran(A)
    BY <1>2, <1>3, FindShape
<1> HIDE DEF s
<1>5. \E A2, B2, F2, C2, G2 : Shape(t.h, A2, B2, F2, C2, G2) /\ (t.n # Nil => t.n \in Ran(A2))
  <2>1. CASE s.n = Nil
    <3>1. t = insert_node(h, k, bytes)
      BY <1>4, <2>1
    <3> HIDE DEF t
    <3>2. CASE t.n = Nil
      <4>1. \E F2 : Shape(t.h, A, B, F2, C, G) /\ SameEntries(Ran(A), t.h, h, C, C)
        BY <1>2, <1>4, <2>1, <3>1, <3>2, InsertShape
      <4> QED BY <3>2, <4>1
    <3>3. CASE t.n # Nil
      <4>1. /\ Ran(Touch(A, t.n)) = Ran(A) \cup {t.n}
            /\ \E B2, F2, C2, G2 : StoredIn(t.h, h, A, t.n, k, bytes, C, B2, F2, C2, G2)
        BY <1>2, <1>4, <2>1, <3>1, <3>3, InsertShape
      <4>2. t.n \in Ran(Touch(A, t.n))
        BY <4>1
      <4> QED BY <4>1, <4>2 DEF StoredIn
    <3> QED BY <3>2, <3>3
  <2>2. CASE s.n # Nil
    <3> DEFINE A2 == Touch(A, s.n)
    <3> DEFINE g == s.h
    <3> DEFINE n == s.n
    <3>1. t = update_node(g, n, bytes) /\ Shape(g, A2, B, F, C, G) /\ n \in Ran(A2)
      BY <1>4, <2>2
    <3> HIDE DEF t, A2, g, n
    <3>2. CASE t.n = Nil
      <4>1. t.h = g
        BY <3>1, <3>2, UpdateAnswer
      <4> QED BY <3>1, <3>2, <4>1
    <3>3. CASE t.n # Nil
      <4>1. /\ t.n = n /\ Ran(Touch(A2, n)) = Ran(A2)
            /\ \E C2, G2 : StoredIn(t.h, g, A2, n, g.node[n].key_, bytes, C, B, F, C2, G2)
        BY <3>1, <3>3, UpdateShape
      <4>2. t.n \in Ran(Touch(A2, n))
        BY <3>1, <4>1
      <4> QED BY <4>1, <4>2 DEF StoredIn
    <3> QED BY <3>2, <3>3
  <2> QED BY <2>1, <2>2
<1>6. PICK A2, B2, F2, C2, G2 : Shape(t.h, A2, B2, F2, C2, G2) /\ (t.n # Nil => t.n \in Ran(A2))
    BY <1>5
<1> HIDE DEF t
<1>7. CASE t.n = Nil
    BY <1>1, <1>6, <1>7 DEF WF
<1>8. CASE t.n # Nil
  <2>1. Shape(set_node_flag(t.h, t.n, f), A2, B2, F2, C2, G2)
    BY <1>6, <1>8, FlagShape
  <2> QED BY <1>1, <1>8, <2>1 DEF WF
<1> QED BY <1>7, <1>8

\* mark_clean(key): the node becomes the most recently used one and is clean.
LEMMA MarkShape ==
    ASSUME NEW h, NEW A, NEW B, NEW F, NEW C, NEW G, Shape(h, A, B, F, C, G), NEW k \in Nat,
           NEW n, n = lookup(h, k), NEW g, g = mark_clean(h, k)
    PROVE  /\ n = Nil => g = h /\ \A m \in Ran(A) : h.node[m].key_ # k
           /\ n # Nil => /\ n \in Ran(A) /\ h.node[n].key_ = k /\ Shape(g, Touch(A, n), B, F, C, G)
                         /\ Ran(Touch(A, n)) = Ran(A) /\ SameKeys(g, h) /\ SameValues(g, h)
                         /\ \A m \in Nodes : g.node[m].flag_ = IF m = n THEN "unchg" ELSE h.node[m].flag_
<1> DEFINE s == find_node(h, k)
<1>1. g = IF s.n = Nil THEN h ELSE set_node_flag(s.h, s.n, "unchg")
    BY DEF mark_clean
<1>2. /\ s.n = n
      /\ n = Nil => s.h = h /\ \A m \in Ran(A) : h.node[m].key_ # k
      /\ n # Nil => /\ n \in Ran(A) /\ h.node[n].key_ = k
                    /\ Shape(s.h, Touch(A, n), B, F, C, G) /\ OnlyAdd(s.h, h)
                    /\ Ran(Touch(A, n)) = Ran(A)
    BY FindShape
<1> HIDE DEF s
<1>3. CASE n = Nil
    BY <1>1, <1>2, <1>3
<1>4. CASE n # Nil
  <2> DEFINE t == s.h
  <2>1. g = set_node_flag(t, n, "unchg") /\ Shape(t, Touch(A, n), B, F, C, G) /\ "unchg" \in Flags
        /\ n \in Ran(Touch(A, n)) /\ OnlyAdd(t, h)
    BY <1>1, <1>2, <1>4 DEF Flags
  <2> HIDE DEF t
  <2>2. Shape(g, Touch(A, n), B, F, C, G)
    BY <2>1, FlagShape
  <2>3. t \in PoolRec /\ n \in Nodes
    BY <2>1, ShapeFacts
  <2>4. /\ SameKeys(g, t) /\ SameValues(g, t)
        /\ \A m \in Nodes : g.node[m].flag_ = IF m = n THEN "unchg" ELSE t.node[m].flag_
    BY <2>1, <2>3, FlagEffect
  <2>5. SameKeys(g, h) /\ SameValues(g, h)
    BY <2>1, <2>4 DEF OnlyAdd, SameKeys, SameValues
  <2>6. \A m \in Nodes : t.node[m].flag_ = h.node[m].flag_
    BY <2>1 DEF OnlyAdd, SameFlags
  <2> QED BY <1>2, <1>4, <2>2, <2>4, <2>5, <2>6
<1> QED BY <1>3, <1>4

-----------------------------------------------------------------------------
(* del_node(modbase, mobres): the nodes T leave one after the other.       *)

DelInv(v, A, T, s) ==
    \E A2, B, F, C, G : Shape(v, A2, B, F, C, G) /\ Ran(A2) = Ran(A) \ {T[i] : i \in s}

\* One deletion of del_node's second loop.
LEMMA DelOne ==
    ASSUME NEW v, NEW A, NEW T, NEW s, NEW i \in s, T[i] \in Ran(A), \A j \in s : T[j] = T[i] => j = i,
           DelInv(v, A, T, s \ {i})
    PROVE  delete_node(v, T[i]) \in PoolRec /\ DelInv(delete_node(v, T[i]), A, T, s)
<1> DEFINE n == T[i]
<1>1. PICK A2, B, F, C, G : Shape(v, A2, B, F, C, G) /\ Ran(A2) = Ran(A) \ {T[j] : j \in s \ {i}}
    BY DEF DelInv
<1>2. n \in Ran(A2)
    BY <1>1
<1> DEFINE w == delete_node(v, n)
<1>3. /\ \E B2, F2, G2 : Shape(w, Without(A2, n), B2, F2, C, G2)
      /\ Ran(Without(A2, n)) = Ran(A2) \ {n}
    BY <1>1, <1>2, DeleteShape
<1> HIDE DEF w
<1>4. Ran(A2) \ {n} = Ran(A) \ {T[j] : j \in s}
    BY <1>1
<1> HIDE DEF n
<1>5. w \in PoolRec
    BY <1>3, ShapeFacts
<1>6. DelInv(w, A, T, s)
    BY <1>3, <1>4 DEF DelInv
<1> QED BY <1>5, <1>6 DEF w, n

\* The deletions of the nodes T of the add list, one after the other.
DeleteAll(h, T) == FoldLeft(delete_node, h, T)

\* del_node's second loop deletes all the nodes it collected.
LEMMA DelLoop ==
    ASSUME NEW h, NEW A, NEW B, NEW F, NEW C, NEW G, Shape(h, A, B, F, C, G),
           NEW T \in Seq(Nodes), \A i \in 1..Len(T) : T[i] \in Ran(A), \A i, j \in 1..Len(T) : T[i] = T[j] => i = j
    PROVE  DelInv(DeleteAll(h, T), A, T, 1..Len(T))
<1> DEFINE n == Len(T)
<1> DEFINE S == 1..n
<1> DEFINE m == DeleteAll(h, T)
<1> DEFINE Step(f, s) == IF s = {} THEN h ELSE delete_node(f[s \ {Max(s)}], T[Max(s)])
<1> DEFINE f0 == CHOOSE f : f = [s \in SUBSET S |-> Step(f, s)]
<1> DEFINE V == [s \in SUBSET S |-> {v \in PoolRec : DelInv(v, A, T, s)}]
<1> DEFINE K == [p \in S \X PoolRec |-> delete_node(p[2], T[p[1]])]
<1>0. DOMAIN T = S /\ n \in Nat
    OBVIOUS
<1>1. m = f0[S]
    BY <1>0 DEF DeleteAll, FoldLeft, MapThenFoldSet
<1>3. h \in V[{}]
  <2>1. h \in PoolRec /\ {} \in SUBSET S
    BY ShapeFacts
  <2>2. DelInv(h, A, T, {})
    <3>1. Ran(A) = Ran(A) \ {T[i] : i \in {}}
      OBVIOUS
    <3> QED BY <3>1 DEF DelInv
  <2> QED BY <2>1, <2>2
<1>4. ASSUME NEW s \in SUBSET S, s # {}, NEW v \in V[s \ {Max(s)}] PROVE v \in PoolRec /\ delete_node(v, T[Max(s)]) \in V[s]
  <2> DEFINE i == Max(s)
  <2>1. s \ {i} \in SUBSET S /\ i \in s
    BY <1>0, <1>4, MaximaChoose
  <2>2. v \in PoolRec /\ DelInv(v, A, T, s \ {i})
    BY <1>4, <2>1
  <2> HIDE DEF i
  <2>3. (\A j \in s : T[j] = T[i] => j = i) /\ T[i] \in Ran(A)
    BY <2>1
  <2>4. delete_node(v, T[i]) \in PoolRec /\ DelInv(delete_node(v, T[i]), A, T, s)
    BY <2>1, <2>2, <2>3, DelOne
  <2> QED BY <2>1, <2>2, <2>4 DEF i
<1>5. \A s \in SUBSET S : V[s] \subseteq PoolRec
    OBVIOUS
<1> HIDE DEF V, n, m
<1>6. PICK g : /\ g = [s \in SUBSET S |-> g[s]]
               /\ \A s \in SUBSET S : g[s] \in V[s]
               /\ \A s \in SUBSET S : g[s] = IF s = {} THEN h ELSE K[<<Max(s), g[s \ {Max(s)}]>>]
  <2>1. \A x \in S, v \in PoolRec : K[<<x, v>>] = delete_node(v, T[x])
    OBVIOUS
  <2> HIDE DEF K
  <2>2. Leads(K, n, h, V)
    <3>1. ASSUME NEW s \in SUBSET S, s # {}, NEW v \in V[s \ {Max(s)}] PROVE K[<<Max(s), v>>] \in V[s]
      <4>1. Max(s) \in S
        BY <1>0, <3>1, MaximaChoose
      <4>2. v \in PoolRec /\ delete_node(v, T[Max(s)]) \in V[s]
        BY <1>4, <3>1
      <4> QED BY <2>1, <4>1, <4>2
    <3> QED BY <1>3, <3>1 DEF Leads
  <2>3. PICK g : FoldOf(g, K, n, h, V)
    BY <1>0, <2>2, FoldSolves
  <2> QED BY <2>3 DEF FoldOf
<1>7. g = [s \in SUBSET S |-> Step(g, s)]
  <2>1. ASSUME NEW s \in SUBSET S PROVE g[s] = Step(g, s)
    <3>1. CASE s = {}
      BY <1>6, <3>1
    <3>2. CASE s # {}
      <4>1. Max(s) \in S /\ s \ {Max(s)} \in SUBSET S
        BY <1>0, <3>2, MaximaChoose
      <4>2. g[s \ {Max(s)}] \in PoolRec
        BY <1>5, <1>6, <4>1
      <4>3. \A x \in S, v \in PoolRec : K[<<x, v>>] = delete_node(v, T[x])
        OBVIOUS
      <4> HIDE DEF K
      <4>4. K[<<Max(s), g[s \ {Max(s)}]>>] = delete_node(g[s \ {Max(s)}], T[Max(s)])
        BY <4>1, <4>2, <4>3
      <4>5. g[s] = K[<<Max(s), g[s \ {Max(s)}]>>]
        BY <1>6, <3>2
      <4> QED BY <3>2, <4>4, <4>5
    <3> QED BY <3>1, <3>2
  <2> HIDE DEF Step
  <2>2. [s \in SUBSET S |-> g[s]] = [s \in SUBSET S |-> Step(g, s)]
    BY <2>1
  <2> QED BY <1>6, <2>2
<1>8. f0 = [s \in SUBSET S |-> Step(f0, s)]
  <2> HIDE DEF Step
  <2> QED BY <1>7, Zenon
<1> HIDE DEF f0
<1>9. \A s \in SUBSET S : f0[s] = Step(f0, s)
  <2> HIDE DEF Step
  <2> QED BY <1>8
<1> DEFINE X == {s \in SUBSET S : f0[s] \in V[s]}
<1>10. {} \in X
    BY <1>3, <1>9
<1>11. ASSUME NEW s \in SUBSET S, s # {}, s \ {Maxima(n)[s]} \in X PROVE s \in X
  <2>1. f0[s \ {Max(s)}] \in V[s \ {Max(s)}]
    BY <1>0, <1>11, MaximaChoose
  <2>2. f0[s] = delete_node(f0[s \ {Max(s)}], T[Max(s)])
    BY <1>9, <1>11
  <2> QED BY <1>4, <1>11, <2>1, <2>2
<1>12. \A s \in SUBSET S : s \in X
  <2> HIDE DEF X
  <2>1. IsChoice(Maxima(n), S) /\ IsFiniteSet(S)
    BY <1>0, MaximaChoose
  <2>2. Inductive(X, S, Maxima(n))
    BY <1>10, <1>11 DEF Inductive
  <2>3. SUBSET S \subseteq X
    BY <2>1, <2>2, SubsetInd
  <2> QED BY <2>3
<1>13. m \in V[S]
    BY <1>1, <1>12
<1> QED BY <1>13 DEF V, n, m

\* The add list is read as it is.
LEMMA AddListIs ==
    ASSUME NEW h, NEW A, NEW B, NEW F, NEW C, NEW G, Shape(h, A, B, F, C, G)
    PROVE  /\ AddList(h) = A /\ IsList(Nodes, add_nexts(h), h.add_head_, A)
           /\ add_nexts(h) \in [Nodes -> Nodes \cup {Nil}] /\ A \in Seq(Nodes) /\ Len(A) \in Nat /\ Len(A) <= NodeTotal
           /\ IsFiniteSet(Ran(A)) /\ Cardinality(Ran(A)) = Len(A) /\ Ran(A) \subseteq Nodes
           /\ \A i, j \in 1..Len(A) : A[i] = A[j] => i = j
<1>1. h \in PoolRec /\ IsList(Nodes, add_nexts(h), h.add_head_, A)
    BY DEF Shape, AddShape
<1>2. add_nexts(h) \in [Nodes -> Nodes \cup {Nil}]
    BY <1>1 DEF add_nexts, PoolRec, NodeRec, NodePtr
<1>3. AddList(h) = A
    BY <1>1, <1>2, ChainIs, Sets DEF AddList
<1>4. /\ Len(A) \in Nat /\ Len(A) <= NodeTotal
      /\ IsFiniteSet(Ran(A)) /\ Cardinality(Ran(A)) = Len(A) /\ Ran(A) \subseteq Nodes
    BY <1>1, ListBound, Sets
<1>5. A \in Seq(Nodes) /\ \A i, j \in 1..Len(A) : A[i] = A[j] => i = j
    BY <1>1 DEF IsList
<1> QED BY <1>1, <1>2, <1>3, <1>4, <1>5

\* del_node(modbase, mobres) leaves a well formed pool.
LEMMA DelNodeShape ==
    ASSUME WF(cache), NEW res, DelNode(res)
    PROVE  WF(cache')
<1>1. PICK A, B, F, C, G : Shape(cache, A, B, F, C, G)
    BY DEF WF
<1> DEFINE W == {n \in Nodes : cache.node[n].key_ % ModBase = res}
<1> DEFINE T == collect(A, W)
<1>2. A \in Seq(Nodes) /\ AddList(cache) = A /\ \A i, j \in 1..Len(A) : A[i] = A[j] => i = j
    BY <1>1, AddListIs
<1>3. cache' = DeleteAll(cache, T)
    BY <1>2 DEF DelNode, DeleteAll
<1> HIDE DEF W
<1>4. T \in Seq(Nodes) /\ Collected(A, W, Len(A), T)
    BY <1>2, CollectIs
<1> HIDE DEF T
<1>5. (\A i, j \in 1..Len(T) : T[i] = T[j] => i = j) /\ \A i \in 1..Len(T) : T[i] \in Ran(A)
  <2>1. \A i, j \in 1..Len(T) : T[i] = T[j] => i = j
    BY <1>4 DEF Collected
  <2>2. Ran(T) \subseteq Ran(A)
    BY <1>4 DEF Collected, Ran
  <2> QED BY <2>1, <2>2 DEF Ran
<1>6. DelInv(DeleteAll(cache, T), A, T, 1..Len(T))
    BY <1>1, <1>4, <1>5, DelLoop
<1> QED BY <1>3, <1>6 DEF DelInv, WF

-----------------------------------------------------------------------------
(* The dirty iterator.                                                     *)

\* What follows the p-th member of a list.
Suffix(s, p) == [j \in 1..(Len(s) - p) |-> s[p + j]]

\* What follows a member of a list is a list.
LEMMA SuffixList ==
    ASSUME NEW D, NEW nx, NEW head, NEW s, IsList(D, nx, head, s), NEW p \in 1..Len(s)
    PROVE  /\ IsList(D, nx, nx[s[p]], Suffix(s, p)) /\ Len(Suffix(s, p)) = Len(s) - p
           /\ \A j \in 1..(Len(s) - p) : Suffix(s, p)[j] = s[p + j]
<1> DEFINE L == Len(s)
<1> DEFINE t == Suffix(s, p)
<1>1. /\ L \in Nat /\ (\A i \in 1..L : s[i] \in D) /\ (\A i, j \in 1..L : s[i] = s[j] => i = j)
      /\ \A i \in 1..L : nx[s[i]] = IF i = L THEN Nil ELSE s[i + 1]
    BY DEF IsList
<1> DEFINE M == L - p
<1>2. M \in Nat /\ \A j \in 1..M : p + j \in 1..L
    BY <1>1
<1>3. t = [j \in 1..M |-> s[p + j]]
    BY DEF Suffix
<1>4. t \in Seq(D) /\ Len(t) = M /\ \A j \in 1..M : t[j] = s[p + j]
  <2> HIDE DEF M, t
  <2>1. \A j \in 1..M : s[p + j] \in D
    BY <1>1, <1>2
  <2> QED BY <1>2, <1>3, <2>1
<1> HIDE DEF t
<1>5. \A i, j \in 1..M : t[i] = t[j] => i = j
  <2> TAKE i, j \in 1..M
  <2>1. t[i] = t[j] => p + i = p + j
    BY <1>1, <1>2, <1>4
  <2> QED BY <1>2, <2>1
<1>6. nx[s[p]] = IF M = 0 THEN Nil ELSE t[1]
  <2>1. nx[s[p]] = IF p = L THEN Nil ELSE s[p + 1]
    BY <1>1
  <2>2. M # 0 => 1 \in 1..M
    BY <1>2
  <2>3. p = L <=> M = 0
    BY <1>1
  <2> QED BY <1>4, <2>1, <2>2, <2>3
<1>7. \A i \in 1..M : nx[t[i]] = IF i = M THEN Nil ELSE t[i + 1]
  <2> TAKE i \in 1..M
  <2>1. t[i] = s[p + i] /\ p + i \in 1..L
    BY <1>2, <1>4
  <2>2. nx[s[p + i]] = IF p + i = L THEN Nil ELSE s[p + i + 1]
    BY <1>1, <2>1
  <2>3. p + i = L <=> i = M
    BY <1>1
  <2>4. i # M => i + 1 \in 1..M /\ p + (i + 1) = p + i + 1
    BY <1>1
  <2>5. i # M => t[i + 1] = s[p + i + 1]
    BY <1>4, <2>4
  <2> QED BY <2>1, <2>2, <2>3, <2>5
<1>8. IsList(D, nx, nx[s[p]], t)
    BY <1>4, <1>5, <1>6, <1>7 DEF IsList
<1> QED BY <1>4, <1>8 DEF t

\* The nodes that are not clean.
Dirty(h) == {m \in Nodes : h.node[m].flag_ # "unchg"}

\* The iterator finds the next dirty node by a walk along the add list.
LEMMA NextDirtyWalk ==
    ASSUME NEW h, NEW A, NEW B, NEW F, NEW C, NEW G, Shape(h, A, B, F, C, G)
    PROVE  \E w : /\ IsFindWalk(w, Nodes, add_nexts(h), NodeTotal, Dirty(h))
                  /\ \A n \in Nodes : next_dirty(h, n) = w[NodeTotal][add_nexts(h)[n]]
<1> DEFINE T == Dirty(h)
<1> DEFINE nx == add_nexts(h)
<1> DEFINE Body(w, i, m) == IF m = Nil \/ i = 0 THEN Nil
                            ELSE IF h.node[m].flag_ # "unchg" THEN m ELSE w[i - 1][h.node[m].add_next_]
<1> DEFINE w0 == CHOOSE w : w = [i \in 0..NodeTotal |-> [m \in Nodes \cup {Nil} |-> Body(w, i, m)]]
<1>1. \A n : next_dirty(h, n) = w0[NodeTotal][h.node[n].add_next_]
    BY DEF next_dirty
<1>2. nx \in [Nodes -> Nodes \cup {Nil}]
    BY AddListIs
<1>3. \A n \in Nodes : nx[n] = h.node[n].add_next_
    BY NodeCols
<1>5. NodeTotal \in Nat /\ Nil \notin Nodes
    BY Sets
<1>6. \A w : [i \in 0..NodeTotal |-> [m \in Nodes \cup {Nil} |-> Body(w, i, m)]] =
              [i \in 0..NodeTotal |-> [m \in Nodes \cup {Nil} |->
                  IF m = Nil \/ i = 0 THEN Nil ELSE IF m \in T THEN m ELSE w[i - 1][nx[m]]]]
  <2> TAKE w
  <2>1. ASSUME NEW i \in 0..NodeTotal, NEW m \in Nodes \cup {Nil}
        PROVE  Body(w, i, m) = IF m = Nil \/ i = 0 THEN Nil ELSE IF m \in T THEN m ELSE w[i - 1][nx[m]]
    <3>1. CASE m = Nil
      BY <3>1
    <3>2. CASE m \in Nodes
      <4>1. nx[m] = h.node[m].add_next_ /\ (m \in T <=> h.node[m].flag_ # "unchg")
        BY <3>2, NodeCols DEF Dirty
      <4> HIDE DEF nx, T
      <4> QED BY <4>1
    <3> QED BY <3>1, <3>2
  <2> HIDE DEF Body, nx, T
  <2> QED BY <2>1
<1>7. w0 = CHOOSE w : IsFindWalk(w, Nodes, nx, NodeTotal, T)
  <2> HIDE DEF Body, nx, T
  <2> QED BY <1>6, Zenon DEF IsFindWalk
<1> HIDE DEF w0, nx, T
<1>8. \E w : IsFindWalk(w, Nodes, nx, NodeTotal, T)
    BY <1>2, <1>5, FindWalkExists
<1>9. IsFindWalk(w0, Nodes, nx, NodeTotal, T)
    BY <1>7, <1>8, Zenon
<1>10. \A n \in Nodes : next_dirty(h, n) = w0[NodeTotal][nx[n]]
    BY <1>1, <1>3
<1> QED BY <1>9, <1>10 DEF nx, T

\* The iterator goes from the p-th node of the add list to the next one that is dirty.
LEMMA NextDirtyIs ==
    ASSUME NEW h, NEW A, NEW B, NEW F, NEW C, NEW G, Shape(h, A, B, F, C, G), NEW p \in 1..Len(A)
    PROVE  IsFirst(next_dirty(h, A[p]), A, p + 1, Len(A), Dirty(h))
<1> DEFINE T == Dirty(h)
<1> DEFINE nx == add_nexts(h)
<1> DEFINE n == next_dirty(h, A[p])
<1>2. IsList(Nodes, nx, h.add_head_, A) /\ nx \in [Nodes -> Nodes \cup {Nil}] /\ Len(A) \in Nat /\ Len(A) <= NodeTotal
    BY AddListIs
<1>3. A[p] \in Nodes
    BY <1>2 DEF IsList
<1>4. PICK w0 : /\ IsFindWalk(w0, Nodes, nx, NodeTotal, T)
                /\ \A m \in Nodes : next_dirty(h, m) = w0[NodeTotal][nx[m]]
    BY NextDirtyWalk
<1>5. NodeTotal \in Nat /\ Nil \notin Nodes
    BY Sets
<1> HIDE DEF nx, T
<1> DEFINE s == Suffix(A, p)
<1>10. IsList(Nodes, nx, nx[A[p]], s) /\ Len(s) = Len(A) - p /\ \A j \in 1..(Len(A) - p) : s[j] = A[p + j]
    BY <1>2, SuffixList
<1> HIDE DEF s
<1>11. IsFirst(n, s, 1, Len(s), T)
  <2>1. Len(s) <= NodeTotal
    BY <1>2, <1>5, <1>10
  <2>2. IsFirst(w0[NodeTotal][nx[A[p]]], s, 1, Len(s), T)
    BY <1>2, <1>4, <1>5, <1>10, <2>1, FindIs
  <2> QED BY <1>3, <1>4, <2>2
<1> HIDE DEF n
<1>12. IsFirst(n, A, p + 1, Len(A), T)
  <2>1. CASE n = Nil /\ \A i \in 1..Len(s) : s[i] \notin T
    <3>1. ASSUME NEW i \in (p + 1)..Len(A) PROVE A[i] \notin T
      <4>1. i - p \in 1..(Len(A) - p) /\ p + (i - p) = i
        BY <1>2
      <4> QED BY <1>10, <2>1, <4>1
    <3> QED BY <2>1, <3>1 DEF IsFirst
  <2>2. CASE \E i \in 1..Len(s) : n = s[i] /\ s[i] \in T /\ \A m \in 1..(i - 1) : s[m] \notin T
    <3>1. PICK i \in 1..Len(s) : n = s[i] /\ s[i] \in T /\ \A m \in 1..(i - 1) : s[m] \notin T
      BY <2>2
    <3>2. i \in 1..(Len(A) - p) /\ p + i \in (p + 1)..Len(A)
      BY <1>2, <1>10
    <3>3. ASSUME NEW m \in (p + 1)..(p + i - 1) PROVE A[m] \notin T
      <4>1. m - p \in 1..(i - 1) /\ m - p \in 1..(Len(A) - p) /\ p + (m - p) = m
        BY <1>2, <3>2
      <4> QED BY <1>10, <3>1, <4>1
    <3>4. n = A[p + i] /\ A[p + i] \in T
      BY <1>10, <3>1, <3>2
    <3>5. \A m \in (p + 1)..((p + i) - 1) : A[m] \notin T
      BY <3>3
    <3> QED BY <3>2, <3>4, <3>5 DEF IsFirst
  <2> QED BY <1>11, <2>1, <2>2 DEF IsFirst
<1> QED BY <1>12 DEF n, T

-----------------------------------------------------------------------------
(* mark_clean(modbase, mobres).                                            *)

Scans == [h : PoolRec, n : NodePtr]

\* The turns that the nodes X cost which are still to be marked: marking one
\* of them sends the iterator back to the head of the list.
Cost(X) == Cardinality(X) * (NodeTotal + 1)

\* The cost of a set and of the set without one of its members.
LEMMA CostOf ==
    ASSUME NEW X, IsFiniteSet(X)
    PROVE  /\ Cost(X) \in Nat /\ (X = {} => Cost(X) = 0)
           /\ \A n \in X : Cost(X \ {n}) = Cost(X) - (NodeTotal + 1)
<1> DEFINE c == Cardinality(X)
<1> DEFINE N1 == NodeTotal + 1
<1>1. c \in Nat /\ N1 \in Nat
    BY FS_CardinalityType, Sets
<1>2. Cost(X) = c * N1
    BY DEF Cost
<1>3. X = {} => c = 0
    BY FS_EmptySet
<1>4. ASSUME NEW n \in X PROVE Cost(X \ {n}) = c * N1 - N1
  <2>1. Cardinality(X \ {n}) = c - 1
    BY FS_RemoveElement
  <2>2. Cost(X \ {n}) = (c - 1) * N1
    BY <2>1 DEF Cost
  <2> HIDE DEF c, N1
  <2>3. (c - 1) * N1 = c * N1 - N1
    BY <1>1
  <2> QED BY <2>2, <2>3
<1> HIDE DEF c
<1>5. c * N1 \in Nat /\ (c = 0 => c * N1 = 0)
  <2> HIDE DEF N1
  <2> QED BY <1>1
<1> QED BY <1>2, <1>3, <1>4, <1>5

\* The iterator stands on the p-th node of A, before it is no selected dirty
\* node, and at most R turns are left.  T is the set of the selected nodes.
ScanPos(g, n, A, T, R, p) ==
    /\ n = A[p]
    /\ \A i \in 1..(p - 1) : A[i] \notin T \cap Dirty(g)
    /\ p = 1 \/ A[p] \in Dirty(g)
    /\ Cost(T \cap Dirty(g)) + (NodeTotal + 1 - p) <= R

\* Where the loop is: at its end, or at a node of the list.
ScanAt(st, h0, A0, T, R) ==
    \E A, B, F, C, G :
        /\ Shape(st.h, A, B, F, C, G) /\ Ran(A) = Ran(A0) /\ SameKeys(st.h, h0)
        /\ \/ st.n = Nil /\ T \cap Dirty(st.h) = {}
           \/ \E p \in 1..Len(A) : ScanPos(st.h, st.n, A, T, R, p)

\* The iterator goes on behind the p-th node.
LEMMA ScanNext ==
    ASSUME NEW g, NEW A, NEW B, NEW F, NEW C, NEW G, Shape(g, A, B, F, C, G), NEW h0, NEW A0, Ran(A) = Ran(A0),
           SameKeys(g, h0), NEW T, T \subseteq Ran(A), NEW p \in 1..Len(A),
           \A i \in 1..p : A[i] \notin T \cap Dirty(g),
           NEW R \in Int, Cost(T \cap Dirty(g)) + (NodeTotal - p) <= R,
           NEW st, st = [h |-> g, n |-> next_dirty(g, A[p])]
    PROVE  st \in Scans /\ ScanAt(st, h0, A0, T, R)
<1> DEFINE L == Len(A)
<1> DEFINE n == next_dirty(g, A[p])
<1>1. L \in Nat /\ L <= NodeTotal /\ NodeTotal \in Nat /\ \A i \in 1..L : A[i] \in Nodes
  <2>1. A \in Seq(Nodes) /\ L \in Nat /\ L <= NodeTotal
    BY AddListIs
  <2> QED BY <2>1, Sets
<1>2. IsFirst(n, A, p + 1, L, Dirty(g))
    BY NextDirtyIs
<1>3. st.h = g /\ st.n = n
    OBVIOUS
<1> HIDE DEF n, L
<1>4. g \in PoolRec
    BY ShapeFacts
<1>5. CASE n = Nil /\ \A i \in (p + 1)..L : A[i] \notin Dirty(g)
  <2>1. \A i \in 1..L : i \in 1..p \/ i \in (p + 1)..L
    BY <1>1 DEF L
  <2>2. \A i \in 1..L : A[i] \notin T \cap Dirty(g)
    BY <1>5, <2>1
  <2>3. T \cap Dirty(g) = {}
    BY <2>2 DEF Ran, L
  <2>4. st \in Scans
    BY <1>3, <1>4, <1>5 DEF Scans, NodePtr, n
  <2> QED BY <1>3, <1>5, <2>3, <2>4 DEF ScanAt
<1>6. CASE \E i \in (p + 1)..L : n = A[i] /\ A[i] \in Dirty(g) /\ \A m \in (p + 1)..(i - 1) : A[m] \notin Dirty(g)
  <2>1. PICK i \in (p + 1)..L : n = A[i] /\ A[i] \in Dirty(g) /\ \A m \in (p + 1)..(i - 1) : A[m] \notin Dirty(g)
    BY <1>6
  <2>2. i \in 1..L /\ p \in Nat /\ i \in Nat /\ i >= p + 1
    BY <1>1 DEF L
  <2>3. \A m \in 1..(i - 1) : m \in 1..p \/ m \in (p + 1)..(i - 1)
    BY <1>1, <2>2
  <2>4. \A m \in 1..(i - 1) : A[m] \notin T \cap Dirty(g)
    BY <2>1, <2>3
  <2>5. Cost(T \cap Dirty(g)) + (NodeTotal + 1 - i) <= R
    <3>1. Cost(T \cap Dirty(g)) \in Nat
      <4>1. IsFiniteSet(Ran(A))
        BY AddListIs
      <4>2. IsFiniteSet(T \cap Dirty(g))
        BY <4>1, FS_Subset
      <4> QED BY <4>2, CostOf
    <3> QED BY <1>1, <2>2, <3>1
  <2>6. st \in Scans
    BY <1>1, <1>3, <1>4, <2>1, <2>2 DEF Scans, NodePtr, n
  <2>7. ScanPos(g, n, A, T, R, i)
    BY <2>1, <2>4, <2>5 DEF ScanPos
  <2>8. \E q \in 1..Len(A) : ScanPos(st.h, st.n, A, T, R, q)
    BY <1>3, <2>2, <2>7 DEF L
  <2> QED BY <1>3, <2>6, <2>8 DEF ScanAt
<1> QED BY <1>2, <1>5, <1>6 DEF IsFirst

\* A touched node is the first of the add list.
LEMMA TouchFirst ==
    ASSUME NEW h, NEW A, NEW B, NEW F, NEW C, NEW G, Shape(h, A, B, F, C, G), NEW n \in Ran(A)
    PROVE  1 \in 1..Len(Touch(A, n)) /\ Touch(A, n)[1] = n
<1>1. h \in PoolRec /\ n \in Nodes /\ AddShape(h, A) /\ Len(A) \in Nat
    BY ShapeFacts
<1> DEFINE W == Without(A, n)
<1>2. Len(W) = Len(A) - 1 /\ Len(A) # 0
  <2>1. Len(W) = Len(A) - 1
    BY <1>1, DelAdd
  <2>2. Len(A) # 0
    BY <1>1 DEF Ran
  <2> QED BY <2>1, <2>2
<1> HIDE DEF W
<1>3. Touch(A, n) = Push(W, n)
    BY DEF Touch, W
<1>4. Len(W) \in Nat
    BY <1>1, <1>2
<1>5. Len(Push(W, n)) = Len(W) + 1 /\ Push(W, n)[1] = n
    BY <1>4 DEF Push
<1> QED BY <1>3, <1>4, <1>5

\* One turn of the loop of mark_clean(modbase, mobres).
clean_turn(st, res) ==
    LET m == IF st.h.node[st.n].key_ % ModBase = res THEN mark_clean(st.h, st.h.node[st.n].key_) ELSE st.h
    IN  [h |-> m, n |-> next_dirty(m, st.n)]

\* A turn of the loop of mark_clean(modbase, mobres) brings its end nearer.
LEMMA ScanTurn ==
    ASSUME NEW h0, NEW A0, NEW res, NEW T, T = {m \in Ran(A0) : h0.node[m].key_ % ModBase = res},
           NEW st \in Scans, st.n # Nil, NEW R \in Int, ScanAt(st, h0, A0, T, R), NEW u, u = clean_turn(st, res)
    PROVE  u \in Scans /\ ScanAt(u, h0, A0, T, R - 1)
<1> DEFINE h == st.h
<1> DEFINE n == st.n
<1> DEFINE k == h.node[n].key_
<1> DEFINE D == T \cap Dirty(h)
<1>0. PICK A, B, F, C, G :
        /\ Shape(h, A, B, F, C, G) /\ Ran(A) = Ran(A0) /\ SameKeys(h, h0)
        /\ \E p \in 1..Len(A) : ScanPos(h, n, A, T, R, p)
    BY DEF ScanAt
<1>1. PICK p \in 1..Len(A) :
        /\ Shape(h, A, B, F, C, G) /\ Ran(A) = Ran(A0) /\ SameKeys(h, h0)
        /\ n = A[p] /\ (\A i \in 1..(p - 1) : A[i] \notin D)
        /\ p = 1 \/ A[p] \in Dirty(h)
        /\ Cost(D) + (NodeTotal + 1 - p) <= R
  <2>1. PICK p \in 1..Len(A) : ScanPos(h, n, A, T, R, p)
    BY <1>0
  <2> HIDE DEF h, n
  <2>2. /\ n = A[p] /\ (\A i \in 1..(p - 1) : A[i] \notin D)
        /\ p = 1 \/ A[p] \in Dirty(h)
        /\ Cost(D) + (NodeTotal + 1 - p) <= R
    BY <2>1 DEF ScanPos
  <2> HIDE DEF D
  <2> QED BY <1>0, <2>2
<1>2. u = [h |-> IF k % ModBase = res THEN mark_clean(h, k) ELSE h,
           n |-> next_dirty(IF k % ModBase = res THEN mark_clean(h, k) ELSE h, n)]
    BY DEF clean_turn
<1> HIDE DEF h, n
<1>3. /\ h \in PoolRec /\ n \in Nodes /\ n \in Ran(A) /\ Len(A) \in Nat /\ Len(A) <= NodeTotal /\ Ran(A) \subseteq Nodes
      /\ NodeTotal \in Nat
  <2>1. n \in Ran(A)
    BY <1>1 DEF Ran
  <2> QED BY <1>1, <2>1, AddListIs, ShapeFacts, Sets
<1>4. T \subseteq Ran(A) /\ (n \in T <=> k % ModBase = res) /\ k \in Nat
  <2>1. T \subseteq Ran(A) /\ h.node[n].key_ = h0.node[n].key_
    BY <1>1, <1>3 DEF SameKeys
  <2>2. h.node[n].key_ \in Keys \cup {0}
    BY <1>3 DEF PoolRec, NodeRec
  <2>3. k \in Nat
    <3>1. Keys \cup {0} \subseteq Nat
      BY NodeAssumption
    <3> QED BY <2>2, <3>1
  <2> QED BY <1>1, <1>3, <2>1, <2>3
<1>5. ASSUME NEW X, X \subseteq T PROVE IsFiniteSet(X) /\ Cost(X) \in Nat
  <2>1. IsFiniteSet(Ran(A))
    BY <1>1, AddListIs
  <2>2. IsFiniteSet(X)
    BY <1>4, <1>5, <2>1, FS_Subset
  <2> QED BY <2>2, CostOf
<1>6. CASE k % ModBase # res
  <2>1. u = [h |-> h, n |-> next_dirty(h, A[p])]
    BY <1>1, <1>2, <1>6
  <2>2. \A i \in 1..p : A[i] \notin T \cap Dirty(h)
    <3>1. \A i \in 1..p : i = p \/ i \in 1..(p - 1)
      BY <1>3
    <3> QED BY <1>1, <1>4, <1>6, <3>1
  <2>3. Cost(D) \in Nat
    BY <1>5
  <2> HIDE DEF D
  <2>4. Cost(D) + (NodeTotal - p) <= R - 1 /\ R - 1 \in Int
    BY <1>1, <1>3, <2>3
  <2>5. Cost(T \cap Dirty(h)) + (NodeTotal - p) <= R - 1
    BY <2>4 DEF D
  <2> QED BY <1>1, <1>4, <2>1, <2>2, <2>4, <2>5, ScanNext
<1>7. CASE k % ModBase = res
  <2> DEFINE g == mark_clean(h, k)
  <2> DEFINE l == lookup(h, k)
  <2> DEFINE A2 == Touch(A, n)
  <2>1. l = n
    <3>1. \/ l = Nil /\ \A m \in Ran(A) : h.node[m].key_ # k
          \/ l \in Ran(A) /\ h.node[l].key_ = k
      BY <1>1, <1>4, LookupFinds
    <3>2. \A i, m \in Ran(A) : h.node[i].key_ = h.node[m].key_ => i = m
      BY <1>1 DEF Shape
    <3> QED BY <1>3, <3>1, <3>2
  <2>2. n # Nil
    BY <1>3, Sets
  <2>3. /\ Shape(g, A2, B, F, C, G) /\ Ran(A2) = Ran(A) /\ SameKeys(g, h)
        /\ \A m \in Nodes : g.node[m].flag_ = IF m = n THEN "unchg" ELSE h.node[m].flag_
    BY <1>1, <1>4, <2>1, <2>2, MarkShape
  <2>4. 1 \in 1..Len(A2) /\ A2[1] = n
    BY <1>1, <1>3, TouchFirst
  <2> HIDE DEF l, A2, g
  <2>5. u = [h |-> g, n |-> next_dirty(g, A2[1])]
    BY <1>2, <1>7, <2>4 DEF g
  <2>6. Dirty(g) = Dirty(h) \ {n}
    BY <2>3 DEF Dirty
  <2>7. \A i \in 1..1 : A2[i] \notin T \cap Dirty(g)
    BY <2>4, <2>6
  <2>8. T \cap Dirty(g) = D \ {n}
    BY <2>6
  <2>9. Cost(T \cap Dirty(g)) + (NodeTotal - 1) <= R - 1
    <3>1. Cost(D) \in Nat /\ IsFiniteSet(D)
      BY <1>5
    <3> HIDE DEF D
    <3>2. CASE n \in D
      <4>1. Cost(D \ {n}) = Cost(D) - (NodeTotal + 1)
        BY <3>1, <3>2, CostOf
      <4>2. Cost(D) + (NodeTotal + 1 - p) <= R /\ p <= NodeTotal /\ p \in Nat
        BY <1>1, <1>3
      <4> DEFINE c == Cost(D)
      <4> DEFINE e == Cost(D \ {n})
      <4>3. c \in Nat /\ e = c - (NodeTotal + 1) /\ c + (NodeTotal + 1 - p) <= R
        BY <3>1, <4>1, <4>2
      <4> HIDE DEF c, e
      <4>4. e + (NodeTotal - 1) <= R - 1
        BY <1>3, <4>2, <4>3
      <4> QED BY <2>8, <4>4 DEF e
    <3>3. CASE n \notin D
      <4>1. D \ {n} = D /\ p = 1
        BY <1>1, <1>4, <1>7, <3>3 DEF D
      <4>2. T \cap Dirty(g) = D
        BY <2>8, <4>1
      <4>3. Cost(D) + NodeTotal <= R
        BY <1>1, <1>3, <3>1, <4>1
      <4>4. Cost(T \cap Dirty(g)) = Cost(D)
        BY <4>2
      <4> DEFINE c == Cost(D)
      <4>5. c \in Nat /\ c + NodeTotal <= R
        BY <3>1, <4>3
      <4> HIDE DEF c
      <4>6. c + (NodeTotal - 1) <= R - 1
        BY <1>3, <4>5
      <4> QED BY <4>4, <4>6 DEF c
    <3> QED BY <3>2, <3>3
  <2>10. T \subseteq Ran(A2) /\ Ran(A2) = Ran(A0) /\ SameKeys(g, h0) /\ R - 1 \in Int
    BY <1>1, <1>4, <2>3 DEF SameKeys
  <2> DEFINE Q == R - 1
  <2> DEFINE one == 1
  <2>11. /\ Shape(g, A2, B, F, C, G) /\ Ran(A2) = Ran(A0) /\ SameKeys(g, h0) /\ T \subseteq Ran(A2)
         /\ one \in 1..Len(A2) /\ (\A i \in 1..one : A2[i] \notin T \cap Dirty(g)) /\ Q \in Int
         /\ Cost(T \cap Dirty(g)) + (NodeTotal - one) <= Q /\ u = [h |-> g, n |-> next_dirty(g, A2[one])]
    BY <2>3, <2>4, <2>5, <2>7, <2>9, <2>10
  <2> HIDE DEF D, Q, one
  <2>12. u \in Scans /\ ScanAt(u, h0, A0, T, Q)
    BY <2>11, ScanNext
  <2> QED BY <2>12 DEF Q
<1> QED BY <1>6, <1>7

\* mark_clean(modbase, mobres) ends, and leaves no selected node dirty.
LEMMA ScanLoop ==
    ASSUME NEW h, NEW A, NEW B, NEW F, NEW C, NEW G, Shape(h, A, B, F, C, G), NEW res,
           NEW T, T = {m \in Ran(A) : h.node[m].key_ % ModBase = res},
           NEW z, z = mark_clean_all(h, res)
    PROVE  /\ z.n = Nil /\ WF(z.h) /\ SameKeys(z.h, h) /\ T \cap Dirty(z.h) = {}
<1> DEFINE N == ScanBound
<1> DEFINE b == [h |-> h, n |-> h.add_head_]
<1> DEFINE Body(w, i) == IF i = 0 THEN b ELSE IF w[i - 1].n = Nil THEN w[i - 1] ELSE clean_turn(w[i - 1], res)
<1> DEFINE w0 == CHOOSE w : w = [i \in 0..N |-> Body(w, i)]
<1> DEFINE V == [i \in 0..N |-> {st \in Scans : ScanAt(st, h, A, T, N - i)}]
<1> DEFINE K == [x \in (1..N) \X Scans |-> IF x[2].n = Nil THEN x[2] ELSE clean_turn(x[2], res)]
<1>0. N \in Nat /\ NodeTotal \in Nat /\ N = NodeTotal * (NodeTotal + 1) + (NodeTotal + 1)
  <2>1. NodeTotal \in Nat
    BY Sets
  <2>2. \A m \in Nat : (m + 1) * (m + 1) \in Nat /\ (m + 1) * (m + 1) = m * (m + 1) + (m + 1)
    OBVIOUS
  <2> QED BY <2>1, <2>2 DEF ScanBound
<1>1. z = w0[N]
    BY DEF mark_clean_all, clean_turn
<1>2. b \in V[0]
  <2>1. /\ h \in PoolRec /\ Len(A) \in Nat /\ Len(A) <= NodeTotal /\ IsFiniteSet(Ran(A))
        /\ Cardinality(Ran(A)) = Len(A) /\ IsList(Nodes, add_nexts(h), h.add_head_, A)
    BY AddListIs, ShapeFacts
  <2>2. b \in Scans /\ b.h = h /\ b.n = h.add_head_
    BY <2>1 DEF Scans, PoolRec
  <2>3. SameKeys(h, h) /\ 0 \in 0..N /\ N - 0 = N
    BY <1>0 DEF SameKeys
  <2> HIDE DEF N
  <2>4. CASE Len(A) = 0
    <3>1. h.add_head_ = Nil /\ Ran(A) = {}
      BY <2>1, <2>4 DEF IsList, Ran
    <3>2. T \cap Dirty(h) = {}
      BY <3>1
    <3> HIDE DEF b
    <3>3. ScanAt(b, h, A, T, N)
      BY <2>2, <2>3, <3>1, <3>2 DEF ScanAt
    <3> QED BY <2>2, <2>3, <3>3
  <2>5. CASE Len(A) # 0
    <3>1. h.add_head_ = A[1] /\ 1 \in 1..Len(A)
      BY <2>1, <2>5 DEF IsList
    <3> DEFINE D == T \cap Dirty(h)
    <3>2. Cost(D) <= NodeTotal * (NodeTotal + 1) /\ Cost(D) \in Nat
      <4>1. D \subseteq Ran(A)
        OBVIOUS
      <4> HIDE DEF D
      <4>2. IsFiniteSet(D) /\ Cardinality(D) <= Len(A) /\ Cardinality(D) \in Nat
        BY <2>1, <4>1, FS_Subset, FS_CardinalityType
      <4>3. \A x, y, t \in Nat : x <= y => x * t <= y * t
        OBVIOUS
      <4> DEFINE c == Cardinality(D)
      <4> DEFINE N1 == NodeTotal + 1
      <4>4. c \in Nat /\ c <= NodeTotal /\ N1 \in Nat
        BY <1>0, <2>1, <4>2
      <4> HIDE DEF c, N1
      <4>5. c * N1 <= NodeTotal * N1
        BY <1>0, <4>3, <4>4
      <4> QED BY <4>2, <4>5, CostOf DEF Cost, c, N1
    <3> HIDE DEF D
    <3> DEFINE P == NodeTotal * (NodeTotal + 1)
    <3>3. P \in Nat
      BY <1>0
    <3>4. Cost(D) + (NodeTotal + 1 - 1) <= N
      <4>1. Cost(D) <= P /\ N = P + (NodeTotal + 1)
        BY <1>0, <3>2
      <4> HIDE DEF P
      <4> QED BY <1>0, <3>2, <3>3, <4>1
    <3>5. ScanPos(h, h.add_head_, A, T, N, 1)
      BY <3>1, <3>4 DEF ScanPos, D
    <3> HIDE DEF b
    <3>6. ScanAt(b, h, A, T, N)
      BY <2>2, <2>3, <3>1, <3>5 DEF ScanAt
    <3> QED BY <2>2, <2>3, <3>6
  <2> QED BY <2>4, <2>5
<1> HIDE DEF N, b
<1>3. ASSUME NEW i \in 1..N, NEW st \in V[i - 1]
      PROVE  st \in Scans /\ (IF st.n = Nil THEN st ELSE clean_turn(st, res)) \in V[i]
  <2>1. i - 1 \in 0..N /\ i \in 0..N /\ (N - (i - 1)) - 1 = N - i /\ N - (i - 1) \in Int
    BY <1>0
  <2>2. st \in Scans /\ ScanAt(st, h, A, T, N - (i - 1))
    BY <2>1
  <2>3. CASE st.n = Nil
    <3>1. ScanAt(st, h, A, T, N - i)
      <4>1. PICK A2, B2, F2, C2, G2 :
              /\ Shape(st.h, A2, B2, F2, C2, G2) /\ Ran(A2) = Ran(A) /\ SameKeys(st.h, h)
              /\ \/ st.n = Nil /\ T \cap Dirty(st.h) = {}
                 \/ \E p \in 1..Len(A2) : ScanPos(st.h, st.n, A2, T, N - (i - 1), p)
        BY <2>2 DEF ScanAt
      <4>2. \A p \in 1..Len(A2) : A2[p] # Nil
        <5>1. A2 \in Seq(Nodes)
          BY <4>1, AddListIs
        <5> QED BY <5>1, Sets
      <4>3. T \cap Dirty(st.h) = {}
        BY <2>3, <4>1, <4>2 DEF ScanPos
      <4> QED BY <2>3, <4>1, <4>3 DEF ScanAt
    <3> QED BY <2>1, <2>2, <2>3, <3>1
  <2>4. CASE st.n # Nil
    <3> DEFINE u == clean_turn(st, res)
    <3> DEFINE R == N - (i - 1)
    <3>1. R \in Int /\ ScanAt(st, h, A, T, R) /\ R - 1 = N - i
      BY <2>1, <2>2
    <3> HIDE DEF u, R
    <3>2. u \in Scans /\ ScanAt(u, h, A, T, R - 1)
      BY <2>2, <2>4, <3>1, ScanTurn DEF u
    <3>3. u \in V[i]
      BY <2>1, <3>1, <3>2
    <3> QED BY <2>2, <2>4, <3>3 DEF u
  <2> QED BY <2>3, <2>4
<1>4. \A i \in 1..N, st \in Scans : K[<<i, st>>] = IF st.n = Nil THEN st ELSE clean_turn(st, res)
    OBVIOUS
<1>12. ASSUME NEW st \in V[N]
       PROVE  st.n = Nil /\ WF(st.h) /\ SameKeys(st.h, h) /\ T \cap Dirty(st.h) = {}
  <2>1. N \in 0..N /\ N - N = 0
    BY <1>0
  <2>2. ScanAt(st, h, A, T, 0)
    BY <2>1
  <2>3. PICK A2, B2, F2, C2, G2 :
          /\ Shape(st.h, A2, B2, F2, C2, G2) /\ Ran(A2) = Ran(A) /\ SameKeys(st.h, h)
          /\ \/ st.n = Nil /\ T \cap Dirty(st.h) = {}
             \/ \E p \in 1..Len(A2) : ScanPos(st.h, st.n, A2, T, 0, p)
    BY <2>2 DEF ScanAt
  <2>4. ASSUME NEW p \in 1..Len(A2), ScanPos(st.h, st.n, A2, T, 0, p) PROVE FALSE
    <3> DEFINE c == Cost(T \cap Dirty(st.h))
    <3>1. c \in Nat
      <4>1. IsFiniteSet(Ran(A))
        BY AddListIs
      <4>2. IsFiniteSet(T \cap Dirty(st.h))
        BY <4>1, FS_Subset
      <4> QED BY <4>2, CostOf
    <3>2. c + (NodeTotal + 1 - p) <= 0
      BY <2>4 DEF ScanPos
    <3>3. p <= NodeTotal /\ p \in Nat
      <4>1. Len(A2) \in Nat /\ Len(A2) <= NodeTotal
        BY <2>3, AddListIs
      <4> QED BY <1>0, <4>1
    <3> HIDE DEF c
    <3> QED BY <1>0, <3>1, <3>2, <3>3
  <2> QED BY <2>3, <2>4 DEF WF
<1> HIDE DEF V, K
<1>5. TurnLeads(K, N, b, V)
    BY <1>2, <1>3, <1>4 DEF TurnLeads
<1>6. PICK f : TurnsOf(f, K, N, b, V)
    BY <1>0, <1>5, TurnsExist
<1>7. f = [i \in 0..N |-> Body(f, i)]
  <2>1. ASSUME NEW i \in 0..N PROVE f[i] = Body(f, i)
    <3>1. CASE i = 0
      BY <1>6, <3>1 DEF TurnsOf
    <3>2. CASE i # 0
      <4>1. i \in 1..N /\ i - 1 \in 0..N
        BY <1>0, <3>2
      <4>2. f[i - 1] \in V[i - 1] /\ f[i] = K[<<i, f[i - 1]>>]
        BY <1>6, <3>2, <4>1 DEF TurnsOf
      <4>3. f[i - 1] \in Scans
        BY <1>3, <4>1, <4>2
      <4>4. f[i] = IF f[i - 1].n = Nil THEN f[i - 1] ELSE clean_turn(f[i - 1], res)
        BY <1>4, <4>1, <4>2, <4>3
      <4> QED BY <3>2, <4>4
    <3> QED BY <3>1, <3>2
  <2>2. f = [i \in 0..N |-> f[i]]
    BY <1>6 DEF TurnsOf
  <2> HIDE DEF Body
  <2> QED BY <2>1, <2>2
<1>8. w0 = [i \in 0..N |-> Body(w0, i)]
  <2> HIDE DEF Body
  <2> QED BY <1>7, Zenon
<1> HIDE DEF w0
<1>9. \A i \in 0..N : w0[i] = Body(w0, i)
  <2> HIDE DEF Body
  <2> QED BY <1>8
<1>10. \A i \in 0..N : w0[i] \in V[i]
  <2>1. w0[0] \in V[0]
    BY <1>0, <1>2, <1>9
  <2>2. ASSUME NEW i \in 1..N, w0[i - 1] \in V[i - 1] PROVE w0[i] \in V[i]
    <3>1. i \in 0..N /\ i # 0
      BY <1>0
    <3>2. w0[i] = IF w0[i - 1].n = Nil THEN w0[i - 1] ELSE clean_turn(w0[i - 1], res)
      BY <1>9, <3>1
    <3>3. (IF w0[i - 1].n = Nil THEN w0[i - 1] ELSE clean_turn(w0[i - 1], res)) \in V[i]
      BY <1>3, <2>2
    <3> QED BY <3>2, <3>3
  <2> QED BY <1>0, <2>1, <2>2, TurnsKeep
<1>11. w0[N] \in V[N]
    BY <1>0, <1>10
<1> QED BY <1>1, <1>11, <1>12

-----------------------------------------------------------------------------
(* The invariant and what it says.                                         *)

\* Every operation of CacheAccess keeps the pool well formed.
LEMMA NextKeeps ==
    ASSUME WF(cache), [Next]_cache
    PROVE  WF(cache')
<1>1. PICK A, B, F, C, G : Shape(cache, A, B, F, C, G)
    BY DEF WF
<1>2. Keys \subseteq Nat /\ \A v \in Values : v \in Seq(Nat)
    BY NodeAssumption, ValueAssumption
<1>3. ASSUME NEW k \in Nat
      PROVE  WF(find_node(cache, k).h)
  <2> DEFINE s == find_node(cache, k)
  <2>1. /\ s.n = Nil => s.h = cache
        /\ s.n # Nil => Shape(s.h, Touch(A, s.n), B, F, C, G)
    BY <1>1, FindShape
  <2> HIDE DEF s
  <2>2. WF(s.h)
    BY <1>1, <2>1 DEF WF
  <2> QED BY <2>2 DEF s
<1>4. ASSUME NEW k \in Keys, Get(k) PROVE WF(cache')
    BY <1>2, <1>3, <1>4 DEF Get
<1>5. ASSUME NEW k \in Keys, MarkClean(k) PROVE WF(cache')
  <2>1. k \in Nat /\ cache' = mark_clean(cache, k)
    BY <1>2, <1>5 DEF MarkClean
  <2> DEFINE n == lookup(cache, k)
  <2>2. /\ n = Nil => cache' = cache
        /\ n # Nil => Shape(cache', Touch(A, n), B, F, C, G)
    BY <1>1, <2>1, MarkShape
  <2> HIDE DEF n
  <2> QED BY <1>1, <2>2 DEF WF
<1>6. ASSUME NEW k \in Keys, Del(k) PROVE WF(cache')
  <2> DEFINE s == find_node(cache, k)
  <2>1. k \in Nat /\ cache' = IF s.n = Nil THEN s.h ELSE delete_node(s.h, s.n)
    BY <1>2, <1>6 DEF Del
  <2>2. /\ s.n = Nil => s.h = cache
        /\ s.n # Nil => /\ s.n \in Ran(A) /\ Shape(s.h, Touch(A, s.n), B, F, C, G)
                        /\ Ran(Touch(A, s.n)) = Ran(A)
    BY <1>1, <2>1, FindShape
  <2> HIDE DEF s
  <2>3. CASE s.n = Nil
    BY <1>1, <2>1, <2>2, <2>3 DEF WF
  <2>4. CASE s.n # Nil
    <3> DEFINE A2 == Touch(A, s.n)
    <3> DEFINE g == s.h
    <3> DEFINE n == s.n
    <3>1. Shape(g, A2, B, F, C, G) /\ n \in Ran(A2) /\ cache' = delete_node(g, n)
      BY <2>1, <2>2, <2>4
    <3> HIDE DEF A2, g, n
    <3>2. \E B2, F2, G2 : Shape(delete_node(g, n), Without(A2, n), B2, F2, C, G2)
      BY <3>1, DeleteShape
    <3> QED BY <3>1, <3>2 DEF WF
  <2> QED BY <2>3, <2>4
<1>7. ASSUME NEW k \in Keys, NEW v \in Values, NEW f \in Flags, Set(k, v, f) PROVE WF(cache')
  <2>1. v \in Seq(Nat)
    BY <1>2
  <2> DEFINE r == set(cache, k, v, f)
  <2>2. cache' = r.h
    BY <1>7 DEF Set
  <2>3. WF(r.h)
    BY <2>1, SetShape
  <2> QED BY <2>2, <2>3
<1>8. ASSUME OldestKeyTouch PROVE WF(cache')
  <2> DEFINE k == cache.node[cache.add_tail_].key_
  <2>1. cache' = find_node(cache, k).h /\ cache.add_tail_ # Nil
    BY <1>8 DEF OldestKeyTouch
  <2>2. k \in Nat
    <3>1. cache \in PoolRec
      BY <1>1, ShapeFacts
    <3>2. cache.add_tail_ \in Nodes
      BY <2>1, <3>1 DEF PoolRec, NodePtr
    <3>3. cache.node[cache.add_tail_].key_ \in Keys \cup {0}
      BY <3>1, <3>2 DEF PoolRec, NodeRec
    <3>4. Keys \cup {0} \subseteq Nat
      BY <1>2
    <3> QED BY <3>3, <3>4
  <2> QED BY <1>3, <2>1, <2>2
<1>9. ASSUME NEW res \in 0..(ModBase - 1), MarkCleanAll(res) PROVE WF(cache')
  <2> DEFINE z == mark_clean_all(cache, res)
  <2> DEFINE T == {m \in Ran(A) : cache.node[m].key_ % ModBase = res}
  <2>1. cache' = z.h
    BY <1>9 DEF MarkCleanAll
  <2>2. WF(z.h)
    <3>1. z = mark_clean_all(cache, res) /\ T = {m \in Ran(A) : cache.node[m].key_ % ModBase = res}
      OBVIOUS
    <3> HIDE DEF z, T
    <3> QED BY <1>1, <3>1, ScanLoop
  <2> QED BY <2>1, <2>2
<1>10. ASSUME NEW res \in 0..(ModBase - 1), DelNode(res) PROVE WF(cache')
    BY <1>10, DelNodeShape
<1>11. ASSUME UNCHANGED cache PROVE WF(cache')
    BY <1>11
<1> QED BY <1>4, <1>5, <1>6, <1>7, <1>8, <1>9, <1>10, <1>11 DEF Next, Oldest

\* The pool is always well formed.
THEOREM PoolWellFormed == Spec => []WF(cache)
<1>1. Init => WF(cache)
    BY InitShape DEF Init, WF
<1>2. WF(cache) /\ [Next]_cache => WF(cache)'
  <2> SUFFICES ASSUME WF(cache), [Next]_cache PROVE WF(cache')
    BY DEF WF
  <2> QED BY NextKeeps
<1> QED BY <1>1, <1>2, PTL DEF Spec

\* The members of all the sets of the family R.
Together(R, S) == UNION {R[n] : n \in S}

\* The sum of the sizes of disjoint finite sets is the size of their union.
LEMMA SumIs ==
    ASSUME NEW S, IsFiniteSet(S), NEW f, NEW R, \A n \in S : IsFiniteSet(R[n]) /\ Cardinality(R[n]) = f[n],
           \A n, m \in S : n # m => R[n] \cap R[m] = {}
    PROVE  IsFiniteSet(Together(R, S)) /\ SumFunctionOnSet(f, S) = Cardinality(Together(R, S))
<1> DEFINE Body(w, s) == IF s = {} THEN 0 ELSE f[CHOOSE x \in s : TRUE] + w[s \ {CHOOSE x \in s : TRUE}]
<1> DEFINE w0 == CHOOSE w : w = [s \in SUBSET S |-> Body(w, s)]
<1> DEFINE ch == [s \in SUBSET S |-> CHOOSE x \in s : TRUE]
<1> DEFINE K == [p \in S \X Nat |-> f[p[1]] + p[2]]
<1>1. SumFunctionOnSet(f, S) = w0[S]
    BY DEF SumFunctionOnSet, FoldFunctionOnSet, MapThenFoldSet
<1>2. \A s \in SUBSET S : ch[s] = CHOOSE x \in s : TRUE
    OBVIOUS
<1>3. \A s \in SUBSET S : s # {} => (CHOOSE x \in s : TRUE) \in s
    BY Zenon
<1>4. IsChoice(ch, S)
    BY <1>2, <1>3 DEF IsChoice
<1>5. \A n \in S : f[n] \in Nat
    BY FS_CardinalityType
<1>6. \A n \in S, i \in Nat : K[<<n, i>>] = f[n] + i /\ f[n] + i \in Nat
    BY <1>5
<1> HIDE DEF K, ch
<1>7. PICK g : IsFold(g, S, ch, 0, K)
    BY <1>4, FoldExists
<1>8. \A s \in SUBSET S : g[s] = IF s = {} THEN 0 ELSE K[<<ch[s], g[s \ {ch[s]}]>>]
    BY <1>7 DEF IsFold
<1>9. \A s \in SUBSET S : g[s] \in Nat
  <2> DEFINE X == {s \in SUBSET S : g[s] \in Nat}
  <2>1. {} \in X
    <3>1. {} \in SUBSET S
      OBVIOUS
    <3>2. g[{}] = 0
      BY <1>8, <3>1
    <3> QED BY <3>1, <3>2
  <2>2. ASSUME NEW s \in SUBSET S, s # {}, s \ {ch[s]} \in X PROVE s \in X
    <3>1. ch[s] \in S
      BY <1>4, <2>2 DEF IsChoice
    <3>2. K[<<ch[s], g[s \ {ch[s]}]>>] \in Nat
      BY <1>6, <2>2, <3>1
    <3> QED BY <1>8, <2>2, <3>2
  <2> HIDE DEF X
  <2>3. Inductive(X, S, ch)
    BY <2>1, <2>2 DEF Inductive
  <2>4. SUBSET S \subseteq X
    BY <1>4, <2>3, SubsetInd
  <2> QED BY <2>4 DEF X
<1>10. g = [s \in SUBSET S |-> Body(g, s)]
  <2>1. ASSUME NEW s \in SUBSET S PROVE g[s] = Body(g, s)
    <3>1. CASE s = {}
      BY <1>8, <3>1
    <3>2. CASE s # {}
      <4>1. ch[s] \in S /\ s \ {ch[s]} \in SUBSET S
        BY <1>4, <3>2 DEF IsChoice
      <4>2. g[s] = f[ch[s]] + g[s \ {ch[s]}]
        BY <1>6, <1>8, <1>9, <3>2, <4>1
      <4> QED BY <1>2, <3>2, <4>2, Zenon
    <3> QED BY <3>1, <3>2
  <2>2. g = [s \in SUBSET S |-> g[s]]
    BY <1>7 DEF IsFold
  <2> HIDE DEF Body
  <2> QED BY <2>1, <2>2
<1>11. w0 = [s \in SUBSET S |-> Body(w0, s)]
  <2> HIDE DEF Body
  <2> QED BY <1>10, Zenon
<1> HIDE DEF w0
<1>12. \A s \in SUBSET S : w0[s] = Body(w0, s)
  <2> HIDE DEF Body
  <2> QED BY <1>11
<1>13. \A s \in SUBSET S : w0[s] = IF s = {} THEN 0 ELSE f[ch[s]] + w0[s \ {ch[s]}]
  <2> TAKE s \in SUBSET S
  <2>1. w0[s] = Body(w0, s)
    BY <1>12
  <2>2. CASE s = {}
    BY <2>1, <2>2
  <2>3. CASE s # {}
    <3>1. ch[s] = CHOOSE x \in s : TRUE
      BY <1>2, Zenon
    <3> QED BY <2>1, <2>3, <3>1, Zenon
  <2> QED BY <2>2, <2>3
<1> HIDE DEF Body
<1> DEFINE X == {s \in SUBSET S : IsFiniteSet(Together(R, s)) /\ w0[s] = Cardinality(Together(R, s))}
<1>14. {} \in X
  <2>1. Together(R, {}) = {}
    BY DEF Together
  <2> QED BY <1>13, <2>1, FS_EmptySet
<1>15. ASSUME NEW s \in SUBSET S, s # {}, s \ {ch[s]} \in X PROVE s \in X
  <2> DEFINE n == ch[s]
  <2> DEFINE t == s \ {n}
  <2> DEFINE P == Together(R, t)
  <2>1. n \in s /\ n \in S
    BY <1>4, <1>15 DEF IsChoice
  <2>2. Together(R, s) = R[n] \cup P
    BY <2>1 DEF Together
  <2>3. R[n] \cap P = {}
    <3>1. \A m \in t : R[n] \cap R[m] = {}
      BY <2>1
    <3> HIDE DEF t
    <3> QED BY <3>1 DEF Together
  <2>4. IsFiniteSet(P) /\ w0[t] = Cardinality(P)
    BY <1>15
  <2> HIDE DEF P, t
  <2>5. IsFiniteSet(R[n]) /\ Cardinality(R[n]) = f[n]
    BY <2>1
  <2>6. /\ IsFiniteSet(R[n] \cup P)
        /\ Cardinality(R[n] \cup P) = Cardinality(R[n]) + Cardinality(P) - Cardinality(R[n] \cap P)
    BY <2>4, <2>5, FS_Union
  <2>7. Cardinality(R[n] \cap P) = 0 /\ Cardinality(P) \in Nat /\ f[n] \in Nat
    BY <1>5, <2>1, <2>3, <2>4, FS_EmptySet, FS_CardinalityType
  <2>8. w0[s] = f[n] + w0[t]
    BY <1>13, <1>15 DEF t
  <2>9. Cardinality(R[n] \cup P) = f[n] + Cardinality(P)
    BY <2>5, <2>6, <2>7
  <2> QED BY <2>2, <2>4, <2>6, <2>8, <2>9
<1> HIDE DEF X
<1>16. Inductive(X, S, ch)
    BY <1>14, <1>15 DEF Inductive
<1>17. SUBSET S \subseteq X
    BY <1>4, <1>16, SubsetInd
<1>18. S \in X
    BY <1>17
<1> QED BY <1>1, <1>18 DEF X

\* Members of a sequence, in the library's words.
LEMMA ToSetIs ==
    ASSUME NEW D, NEW s \in Seq(D)
    PROVE  ToSet(s) = Ran(s) /\ DOMAIN s = 1..Len(s)
    BY DEF ToSet, Ran

\* Disjoint lists that together hold a finite set have its size.
LEMMA Counted ==
    ASSUME NEW D, IsFiniteSet(D), NEW X, NEW Y, X \cup Y = D, X \cap Y = {}
    PROVE  /\ Cardinality(X) \in Nat /\ Cardinality(Y) \in Nat
           /\ Cardinality(X) + Cardinality(Y) = Cardinality(D)
<1>1. IsFiniteSet(X) /\ IsFiniteSet(Y)
    BY FS_Subset
<1>2. Cardinality(X \cup Y) = Cardinality(X) + Cardinality(Y) - Cardinality(X \cap Y)
    BY <1>1, FS_Union
<1>3. Cardinality(X) \in Nat /\ Cardinality(Y) \in Nat /\ Cardinality(X \cap Y) = 0
    BY <1>1, FS_CardinalityType, FS_EmptySet
<1> QED BY <1>2, <1>3

\* The lists that the code's pointers form.
LEMMA ListsAre ==
    ASSUME NEW h, NEW A, NEW B, NEW F, NEW C, NEW G, Shape(h, A, B, F, C, G)
    PROVE  /\ AddList(h) = A /\ ToSet(A) = Ran(A) /\ FreeNodes(h) = F /\ ToSet(F) = Ran(F)
           /\ A \in Seq(Nodes) /\ DOMAIN A = 1..Len(A)
           /\ \A b \in Buckets : /\ BucketList(h, b) = B[b] /\ ToSet(B[b]) = Ran(B[b])
                                 /\ B[b] \in Seq(Nodes) /\ DOMAIN B[b] = 1..Len(B[b])
                                 /\ Len(B[b]) = Cardinality(Ran(B[b]))
           /\ Chain(h.a.next_, h.a.free_list_) = G /\ ToSet(G) = Ran(G)
           /\ \A n \in Ran(A) : /\ Chain(h.a.next_, h.node[n].chunk_head_) = C[n] /\ ToSet(C[n]) = Ran(C[n])
                                /\ IsFiniteSet(Ran(C[n])) /\ Cardinality(Ran(C[n])) = Len(C[n])
                                /\ Ran(C[n]) \subseteq Chunks
           /\ Len(A) + Len(F) = NodeTotal
           /\ IsFiniteSet(Ran(G)) /\ Cardinality(Ran(G)) = Len(G) /\ Len(G) <= ChunkTotal
<1>1. h \in PoolRec /\ LinkShape(h, Ran(A), B, F) /\ AllocShape(h.a, Ran(A), heads(h), C, G)
    BY ShapeFacts
<1>2. /\ node_nexts(h) \in [Nodes -> Nodes \cup {Nil}] /\ h.a.next_ \in [Chunks -> Chunks \cup {Nil}]
      /\ IsFiniteSet(Nodes) /\ Nil \notin Nodes /\ IsFiniteSet(Chunks) /\ Nil \notin Chunks
  <2>1. node_nexts(h) \in [Nodes -> Nodes \cup {Nil}]
    BY <1>1 DEF node_nexts, PoolRec, NodeRec, NodePtr
  <2>2. h.a.next_ \in [Chunks -> Chunks \cup {Nil}]
    BY <1>1 DEF PoolRec, AllocRec, ChunkPtr
  <2> QED BY <2>1, <2>2, Sets
<1>3. /\ AddList(h) = A /\ A \in Seq(Nodes) /\ Cardinality(Ran(A)) = Len(A) /\ Len(A) \in Nat
    BY AddListIs
<1>4. ToSet(A) = Ran(A) /\ DOMAIN A = 1..Len(A)
    BY <1>3, ToSetIs
<1>5. IsList(Nodes, node_nexts(h), h.free_list_, F)
    BY <1>1 DEF LinkShape
<1>6. FreeNodes(h) = F
    BY <1>2, <1>5, ChainIs DEF FreeNodes
<1>7. F \in Seq(Nodes) /\ Cardinality(Ran(F)) = Len(F)
  <2>1. F \in Seq(Nodes)
    BY <1>5 DEF IsList
  <2>2. Cardinality(Ran(F)) = Len(F)
    BY <1>2, <1>5, ListBound
  <2> QED BY <2>1, <2>2
<1>8. ToSet(F) = Ran(F)
    BY <1>7, ToSetIs
<1>9. ASSUME NEW b \in Buckets
      PROVE  /\ BucketList(h, b) = B[b] /\ ToSet(B[b]) = Ran(B[b])
             /\ B[b] \in Seq(Nodes) /\ DOMAIN B[b] = 1..Len(B[b])
             /\ Len(B[b]) = Cardinality(Ran(B[b]))
  <2>1. IsList(Nodes, node_nexts(h), h.bucket[b], B[b])
    BY <1>1 DEF LinkShape
  <2>2. BucketList(h, b) = B[b]
    BY <1>2, <2>1, ChainIs DEF BucketList
  <2>3. B[b] \in Seq(Nodes)
    BY <2>1 DEF IsList
  <2>4. Len(B[b]) = Cardinality(Ran(B[b]))
    BY <1>2, <2>1, ListBound
  <2> QED BY <2>2, <2>3, <2>4, ToSetIs
<1>10. IsList(Chunks, h.a.next_, h.a.free_list_, G)
    BY <1>1 DEF AllocShape
<1>11. Chain(h.a.next_, h.a.free_list_) = G
    BY <1>2, <1>10, ChainIs
<1>12. /\ G \in Seq(Chunks) /\ IsFiniteSet(Ran(G)) /\ Cardinality(Ran(G)) = Len(G) /\ Len(G) <= ChunkTotal
  <2>1. G \in Seq(Chunks)
    BY <1>10 DEF IsList
  <2>2. IsFiniteSet(Ran(G)) /\ Cardinality(Ran(G)) = Len(G) /\ Len(G) <= Cardinality(Chunks)
    BY <1>2, <1>10, ListBound
  <2> QED BY <2>1, <2>2, Sets
<1>13. ToSet(G) = Ran(G)
    BY <1>12, ToSetIs
<1>14. ASSUME NEW n \in Ran(A)
       PROVE  /\ Chain(h.a.next_, h.node[n].chunk_head_) = C[n] /\ ToSet(C[n]) = Ran(C[n])
              /\ IsFiniteSet(Ran(C[n])) /\ Cardinality(Ran(C[n])) = Len(C[n])
              /\ Ran(C[n]) \subseteq Chunks
  <2>1. heads(h)[n] = h.node[n].chunk_head_
    BY ShapeFacts
  <2>2. IsList(Chunks, h.a.next_, h.node[n].chunk_head_, C[n])
    BY <1>1, <2>1 DEF AllocShape
  <2>3. Chain(h.a.next_, h.node[n].chunk_head_) = C[n]
    BY <1>2, <2>2, ChainIs
  <2>4. C[n] \in Seq(Chunks)
    BY <2>2 DEF IsList
  <2>5. IsFiniteSet(Ran(C[n])) /\ Cardinality(Ran(C[n])) = Len(C[n]) /\ Ran(C[n]) \subseteq Chunks
    BY <1>2, <2>2, ListBound
  <2> QED BY <2>3, <2>4, <2>5, ToSetIs
<1>15. Len(A) + Len(F) = NodeTotal
  <2>1. Ran(A) \cup Ran(F) = Nodes /\ Ran(A) \cap Ran(F) = {}
    BY ShapeFacts
  <2>2. Cardinality(Ran(A)) + Cardinality(Ran(F)) = Cardinality(Nodes)
    BY <1>2, <2>1, Counted
  <2> QED BY <1>3, <1>7, <2>2, Sets
<1> QED BY <1>3, <1>4, <1>6, <1>8, <1>9, <1>11, <1>12, <1>13, <1>14, <1>15

-----------------------------------------------------------------------------
(* The properties that the runs check follow from the invariant.           *)

\* A well formed pool has its fields in their ranges.
LEMMA TypeFollows ==
    ASSUME WF(cache)
    PROVE  TypeOK
<1>1. PICK A, B, F, C, G : Shape(cache, A, B, F, C, G)
    BY DEF WF
<1>2. /\ cache \in PoolRec /\ cache.used_node_num_ = Len(A) /\ Len(A) \in Nat /\ Len(G) \in Nat
      /\ cache.a \in AllocRec /\ cache.a.free_total_ = Len(G)
    BY <1>1, ShapeFacts
<1>3. Len(A) <= NodeTotal /\ Len(G) <= ChunkTotal /\ NodeTotal \in Nat /\ ChunkTotal \in Nat
    BY <1>1, AddListIs, ListsAre, Sets
<1>4. cache.used_node_num_ \in 0..NodeTotal /\ cache.a.free_total_ \in 0..ChunkTotal
    BY <1>2, <1>3
<1>5. cache.node \in [Nodes -> [key_ : Keys \cup {0}, chunk_len_ : Nat,
                                 chunk_head_ : Chunks \cup {Nil},
                                 node_prev_ : Nodes \cup {Nil}, node_next_ : Nodes \cup {Nil},
                                 add_prev_ : Nodes \cup {Nil}, add_next_ : Nodes \cup {Nil},
                                 flag_ : Flags]]
    BY <1>2 DEF PoolRec, NodeRec, NodePtr, ChunkPtr
<1>6. /\ cache.bucket \in [Buckets -> Nodes \cup {Nil}]
      /\ {cache.add_head_, cache.add_tail_, cache.free_list_} \subseteq Nodes \cup {Nil}
    BY <1>2 DEF PoolRec, NodePtr
<1>7. cache.a.next_ \in [Chunks -> Chunks \cup {Nil}] /\ cache.a.free_list_ \in Chunks \cup {Nil}
    BY <1>2 DEF AllocRec, ChunkPtr
<1> QED BY <1>4, <1>5, <1>6, <1>7 DEF TypeOK

\* The keys of different nodes differ, so there are as many as nodes.
LEMMA KeysCount ==
    ASSUME NEW h, NEW A, NEW B, NEW F, NEW C, NEW G, Shape(h, A, B, F, C, G)
    PROVE  Cardinality({h.node[n].key_ : n \in Ran(A)}) = Cardinality(Ran(A))
<1> DEFINE U == Ran(A)
<1> DEFINE T == {h.node[n].key_ : n \in U}
<1> DEFINE f == [n \in U |-> h.node[n].key_]
<1>1. IsFiniteSet(U)
    BY AddListIs
<1>2. \A n, m \in U : h.node[n].key_ = h.node[m].key_ => n = m
    BY DEF Shape
<1> HIDE DEF U
<1>3. f \in [U -> T] /\ \A n \in U : f[n] = h.node[n].key_
    OBVIOUS
<1>4. f \in Surjection(U, T)
    BY <1>3 DEF Surjection
<1>5. f \in Injection(U, T)
    BY <1>2, <1>3 DEF Injection, IsInjective
<1> HIDE DEF T, f
<1>6. Cardinality(T) = Cardinality(U)
    BY <1>1, <1>4, <1>5, FS_Surjection
<1> QED BY <1>6 DEF T, U

\* The nodes of a well formed pool are divided among its lists.
LEMMA NodesFollow ==
    ASSUME WF(cache)
    PROVE  NodesPartitioned
<1>1. PICK A, B, F, C, G : Shape(cache, A, B, F, C, G)
    BY DEF WF
<1> DEFINE prevs == [n \in Nodes |-> cache.node[n].node_prev_]
<1>2. /\ AddList(cache) = A /\ ToSet(A) = Ran(A) /\ FreeNodes(cache) = F /\ ToSet(F) = Ran(F)
      /\ Len(A) + Len(F) = NodeTotal /\ A \in Seq(Nodes) /\ DOMAIN A = 1..Len(A)
    BY <1>1, ListsAre
<1>3. /\ cache.used_node_num_ = Len(A) /\ Ran(A) \cup Ran(F) = Nodes /\ AddShape(cache, A)
      /\ LinkShape(cache, Ran(A), B, F)
    BY <1>1, ShapeFacts
<1>4. BackPointers(A, add_prevs(cache))
    BY <1>2, <1>3 DEF BackPointers, AddShape, IsBack
<1>5. cache.add_tail_ = IF A = <<>> THEN Nil ELSE Last(A)
  <2>1. cache.add_tail_ = IF Len(A) = 0 THEN Nil ELSE A[Len(A)]
    BY <1>3 DEF AddShape, End
  <2>2. A = <<>> <=> Len(A) = 0
    BY <1>2
  <2> QED BY <2>1, <2>2 DEF Last
<1>6. ASSUME NEW b \in Buckets
      PROVE  /\ BackPointers(BucketList(cache, b), prevs)
             /\ Len(BucketList(cache, b)) = Cardinality(ToSet(BucketList(cache, b)))
             /\ ToSet(BucketList(cache, b)) = {n \in Ran(A) : get_bucket_id(cache.node[n].key_) = b}
  <2>1. /\ BucketList(cache, b) = B[b] /\ ToSet(B[b]) = Ran(B[b]) /\ DOMAIN B[b] = 1..Len(B[b])
        /\ Len(B[b]) = Cardinality(Ran(B[b]))
    BY <1>1, ListsAre
  <2>2. IsBack(node_prevs(cache), B[b]) /\ Ran(B[b]) = {n \in Ran(A) : get_bucket_id(cache.node[n].key_) = b}
    BY <1>3 DEF LinkShape
  <2>3. BackPointers(B[b], prevs)
    BY <2>1, <2>2 DEF BackPointers, IsBack, node_prevs
  <2> QED BY <2>1, <2>2, <2>3
<1>7. Cardinality({cache.node[n].key_ : n \in Ran(A)}) = Cardinality(Ran(A))
    BY <1>1, KeysCount
<1>8. Len(A) = cache.used_node_num_ /\ ToSet(A) \cup ToSet(F) = Nodes
    BY <1>2, <1>3
<1> HIDE DEF prevs
<1> QED BY <1>2, <1>4, <1>5, <1>6, <1>7, <1>8 DEF NodesPartitioned, prevs

\* The chunks of a well formed pool are divided among its chains.
LEMMA ChunksFollow ==
    ASSUME WF(cache)
    PROVE  ChunksPartitioned
<1>1. PICK A, B, F, C, G : Shape(cache, A, B, F, C, G)
    BY DEF WF
<1> DEFINE U == Ran(A)
<1> DEFINE chain == [n \in U |-> Chain(cache.a.next_, cache.node[n].chunk_head_)]
<1> DEFINE f == [n \in U |-> Len(chain[n])]
<1> DEFINE R == [n \in U |-> Ran(C[n])]
<1>2. /\ UsedNodes = U /\ Chain(cache.a.next_, cache.a.free_list_) = G /\ ToSet(G) = Ran(G)
      /\ IsFiniteSet(Ran(G)) /\ Cardinality(Ran(G)) = Len(G) /\ IsFiniteSet(U)
    BY <1>1, ListsAre, AddListIs DEF UsedNodes
<1>3. \A n \in U : /\ chain[n] = C[n] /\ ToSet(C[n]) = Ran(C[n]) /\ f[n] = Len(C[n]) /\ R[n] = Ran(C[n])
                     /\ IsFiniteSet(Ran(C[n])) /\ Cardinality(Ran(C[n])) = Len(C[n]) /\ Ran(C[n]) \subseteq Chunks
    BY <1>1, ListsAre
<1>4. /\ cache.a.free_total_ = Len(G) /\ Len(G) \in Nat /\ AllocShape(cache.a, U, heads(cache), C, G)
      /\ \A n \in U : Len(C[n]) = get_chunk_num(cache.node[n].chunk_len_)
    BY <1>1, ShapeFacts DEF Shape
<1> HIDE DEF U, chain, f, R
<1>5. \A n, m \in U : n # m => R[n] \cap R[m] = {}
    BY <1>3, <1>4 DEF AllocShape
<1>6. IsFiniteSet(Together(R, U)) /\ SumFunctionOnSet(f, U) = Cardinality(Together(R, U))
    BY <1>2, <1>3, <1>5, SumIs
<1>7. Ran(G) \cup Together(R, U) = Chunks
  <2>1. \A c \in Chunks : c \in Ran(G) \/ \E n \in U : c \in R[n]
    BY <1>3, <1>4 DEF AllocShape
  <2>2. Ran(G) \subseteq Chunks
    BY <1>4 DEF AllocShape, IsList, Ran
  <2>3. Together(R, U) \subseteq Chunks
    BY <1>3 DEF Together
  <2> QED BY <2>1, <2>2, <2>3 DEF Together
<1>8. Ran(G) \cap Together(R, U) = {}
  <2>1. \A n \in U : R[n] \cap Ran(G) = {}
    BY <1>3, <1>4 DEF AllocShape
  <2> QED BY <2>1 DEF Together
<1>9. Len(G) + SumFunctionOnSet(f, U) = ChunkTotal
  <2>1. Cardinality(Ran(G)) + Cardinality(Together(R, U)) = Cardinality(Chunks)
    BY <1>7, <1>8, Counted, Sets
  <2> QED BY <1>2, <1>6, <2>1, Sets
<1>10. UNION {ToSet(chain[n]) : n \in U} = Together(R, U)
  <2>1. \A n \in U : ToSet(chain[n]) = R[n]
    BY <1>3
  <2> QED BY <2>1 DEF Together
<1>11. \A n \in U : Len(chain[n]) = get_chunk_num(cache.node[n].chunk_len_)
    BY <1>3, <1>4
<1>12. f = [n \in U |-> Len(chain[n])] /\ chain = [n \in U |-> Chain(cache.a.next_, cache.node[n].chunk_head_)]
    BY DEF f, chain
<1>13. ToSet(G) \cup UNION {ToSet(chain[n]) : n \in U} = Chunks
    BY <1>2, <1>7, <1>10
<1> QED BY <1>2, <1>4, <1>9, <1>11, <1>12, <1>13 DEF ChunksPartitioned

\* A well formed pool passes the checks of open().
LEMMA VerifyFollows ==
    ASSUME WF(cache)
    PROVE  CompletePoolVerifies
<1>1. PICK A, B, F, C, G : Shape(cache, A, B, F, C, G)
    BY DEF WF
<1>2. FreeNodes(cache) = F /\ Len(A) + Len(F) = NodeTotal /\ Chain(cache.a.next_, cache.a.free_list_) = G
    BY <1>1, ListsAre
<1>3. cache.used_node_num_ = Len(A) /\ cache.a.free_total_ = Len(G)
    BY <1>1, ShapeFacts
<1> QED BY <1>2, <1>3 DEF CompletePoolVerifies, verify_pool, verify_chunks

\* The bulk mark_clean of a well formed pool ends and leaves nothing selected dirty.
LEMMA MarkCleanFollows ==
    ASSUME WF(cache)
    PROVE  BulkMarkCleanCompletes
<1>1. PICK A, B, F, C, G : Shape(cache, A, B, F, C, G)
    BY DEF WF
<1>2. UsedNodes = Ran(A) /\ Ran(A) \subseteq Nodes
    BY <1>1, ListsAre, ShapeFacts DEF UsedNodes
<1>3. ASSUME NEW res
      PROVE  /\ mark_clean_all(cache, res).n = Nil
             /\ \A n \in UsedNodes : mark_clean_all(cache, res).h.node[n].key_ % ModBase = res
                                       => mark_clean_all(cache, res).h.node[n].flag_ = "unchg"
  <2> DEFINE z == mark_clean_all(cache, res)
  <2> DEFINE T == {m \in Ran(A) : cache.node[m].key_ % ModBase = res}
  <2>1. z = mark_clean_all(cache, res) /\ T = {m \in Ran(A) : cache.node[m].key_ % ModBase = res}
    OBVIOUS
  <2> HIDE DEF z, T
  <2>2. z.n = Nil /\ SameKeys(z.h, cache) /\ T \cap Dirty(z.h) = {}
    BY <1>1, <2>1, ScanLoop
  <2>3. ASSUME NEW n \in Ran(A), z.h.node[n].key_ % ModBase = res PROVE z.h.node[n].flag_ = "unchg"
    <3>1. n \in T
      BY <1>2, <2>1, <2>2, <2>3 DEF SameKeys
    <3> QED BY <1>2, <2>2, <3>1 DEF Dirty
  <2> QED BY <1>2, <2>2, <2>3 DEF z
<1> QED BY <1>3 DEF BulkMarkCleanCompletes

-----------------------------------------------------------------------------
(* What set() answers.                                                     *)

\* A finite set of numbers that is not empty has a largest one.
LEMMA LargestKey ==
    ASSUME NEW S, IsFiniteSet(S), S \subseteq Nat, S # {}
    PROVE  Max(S) \in S /\ \A y \in S : Max(S) >= y
<1> DEFINE ch == [s \in SUBSET S |-> CHOOSE x \in s : TRUE]
<1> DEFINE Has(s) == s = {} \/ \E x \in s : \A y \in s : x >= y
<1> DEFINE X == {s \in SUBSET S : Has(s)}
<1>1. IsChoice(ch, S)
  <2>1. \A s \in SUBSET S : ch[s] = CHOOSE x \in s : TRUE
    OBVIOUS
  <2>2. \A s \in SUBSET S : s # {} => (CHOOSE x \in s : TRUE) \in s
    BY Zenon
  <2> QED BY <2>1, <2>2 DEF IsChoice
<1> HIDE DEF ch
<1>2. {} \in X
    OBVIOUS
<1>3. ASSUME NEW s \in SUBSET S, s # {}, s \ {ch[s]} \in X PROVE s \in X
  <2>1. ch[s] \in s /\ ch[s] \in Nat
    BY <1>1, <1>3 DEF IsChoice
  <2> DEFINE t == s \ {ch[s]}
  <2>2. Has(t)
    BY <1>3
  <2>3. CASE t = {}
    <3>1. \A y \in s : y = ch[s]
      BY <2>3
    <3> QED BY <2>1, <3>1
  <2>4. CASE t # {}
    <3>1. PICK x \in t : \A y \in t : x >= y
      BY <2>2, <2>4
    <3>2. x \in Nat /\ x \in s /\ \A y \in s : y \in Nat /\ (y = ch[s] \/ y \in t)
      OBVIOUS
    <3> HIDE DEF t
    <3>3. CASE x >= ch[s]
      <4>1. \A y \in s : x >= y
        BY <3>1, <3>2, <3>3
      <4> QED BY <3>2, <4>1
    <3>4. CASE ~(x >= ch[s])
      <4>1. \A y \in s : ch[s] >= y
        BY <2>1, <3>1, <3>2, <3>4
      <4> QED BY <2>1, <4>1
    <3> QED BY <3>3, <3>4
  <2> QED BY <2>3, <2>4
<1> HIDE DEF X
<1>4. Inductive(X, S, ch)
    BY <1>2, <1>3 DEF Inductive
<1>5. SUBSET S \subseteq X
    BY <1>1, <1>4, SubsetInd
<1>6. PICK x \in S : \A y \in S : x >= y
    BY <1>5 DEF X
<1> QED BY <1>6, Zenon DEF Max

\* The sum of need over all nodes in use, or over all but one.
TakenFrom(need, S, A, C, G) ==
    /\ SumFunctionOnSet(need, S) \in Nat
    /\ S = Ran(A) => SumFunctionOnSet(need, S) = ChunkTotal - Len(G)
    /\ \A n \in Ran(A) : S = Ran(A) \ {n} => SumFunctionOnSet(need, S) = ChunkTotal - Len(G) - Len(C[n])

\* The chunks that the values need are the ones that are not free.
LEMMA TakenIs ==
    ASSUME NEW h, NEW A, NEW B, NEW F, NEW C, NEW G, Shape(h, A, B, F, C, G), NEW S, S \subseteq Ran(A),
           NEW need, \A n \in Ran(A) : need[n] = get_chunk_num(h.node[n].chunk_len_)
    PROVE  TakenFrom(need, S, A, C, G)
<1> DEFINE U == Ran(A)
<1> DEFINE R == [n \in U |-> Ran(C[n])]
<1>1. IsFiniteSet(U) /\ IsFiniteSet(S)
  <2>1. IsFiniteSet(U)
    BY AddListIs
  <2> QED BY <2>1, FS_Subset
<1>2. \A n \in U : IsFiniteSet(Ran(C[n])) /\ Cardinality(Ran(C[n])) = Len(C[n]) /\ Ran(C[n]) \subseteq Chunks
    BY ListsAre
<1>3. \A n \in U : R[n] = Ran(C[n]) /\ Len(C[n]) = need[n]
    BY DEF Shape
<1>4. AllocShape(h.a, U, heads(h), C, G) /\ Len(G) \in Nat
    BY ShapeFacts
<1>5. IsFiniteSet(Ran(G)) /\ Cardinality(Ran(G)) = Len(G) /\ Ran(G) \subseteq Chunks
  <2>1. IsFiniteSet(Ran(G)) /\ Cardinality(Ran(G)) = Len(G)
    BY ListsAre
  <2>2. Ran(G) \subseteq Chunks
    BY <1>4 DEF AllocShape, IsList, Ran
  <2> QED BY <2>1, <2>2
<1> HIDE DEF U, R
<1>6. /\ \A n, m \in U : n # m => R[n] \cap R[m] = {}
      /\ \A n \in U : R[n] \cap Ran(G) = {}
      /\ \A c \in Chunks : c \in Ran(G) \/ \E n \in U : c \in R[n]
  <2>1. /\ \A n, m \in U : n # m => Ran(C[n]) \cap Ran(C[m]) = {}
        /\ \A n \in U : Ran(C[n]) \cap Ran(G) = {}
        /\ \A c \in Chunks : c \in Ran(G) \/ \E n \in U : c \in Ran(C[n])
    BY <1>4 DEF AllocShape
  <2>2. \A n \in U : R[n] = Ran(C[n])
    BY <1>3
  <2>3. \A n, m \in U : n # m => R[n] \cap R[m] = {}
    BY <2>1, <2>2
  <2>4. \A n \in U : R[n] \cap Ran(G) = {}
    BY <2>1, <2>2
  <2>5. \A c \in Chunks : c \in Ran(G) \/ \E n \in U : c \in R[n]
    BY <2>1, <2>2
  <2> QED BY <2>3, <2>4, <2>5
<1>7. IsFiniteSet(Together(R, S)) /\ SumFunctionOnSet(need, S) = Cardinality(Together(R, S))
  <2>1. /\ \A n \in S : IsFiniteSet(R[n]) /\ Cardinality(R[n]) = need[n]
        /\ \A n, m \in S : n # m => R[n] \cap R[m] = {}
    BY <1>2, <1>3, <1>6 DEF U
  <2> QED BY <1>1, <2>1, SumIs
<1>8. SumFunctionOnSet(need, S) \in Nat
    BY <1>7, FS_CardinalityType
<1>9. ASSUME S = U PROVE SumFunctionOnSet(need, S) = ChunkTotal - Len(G)
  <2>1. Ran(G) \cup Together(R, S) = Chunks
    <3>1. Together(R, S) \subseteq Chunks
      BY <1>2, <1>3, <1>9 DEF Together
    <3> QED BY <1>5, <1>6, <1>9, <3>1 DEF Together
  <2>2. Ran(G) \cap Together(R, S) = {}
    BY <1>6, <1>9 DEF Together
  <2>3. Cardinality(Ran(G)) + Cardinality(Together(R, S)) = Cardinality(Chunks)
    BY <2>1, <2>2, Counted, Sets
  <2> QED BY <1>4, <1>5, <1>7, <1>8, <2>3, Sets
<1>10. ASSUME NEW n \in U, S = U \ {n} PROVE SumFunctionOnSet(need, S) = ChunkTotal - Len(G) - Len(C[n])
  <2> DEFINE Y == Ran(G) \cup R[n]
  <2>1. IsFiniteSet(R[n]) /\ Cardinality(R[n]) = Len(C[n])
    BY <1>2, <1>3
  <2>2. Cardinality(Y) = Len(G) + Len(C[n]) /\ Len(C[n]) \in Nat
    <3>1. Cardinality(Y) = Cardinality(Ran(G)) + Cardinality(R[n]) - Cardinality(Ran(G) \cap R[n])
      BY <1>5, <2>1, FS_Union
    <3>2. Cardinality(Ran(G) \cap R[n]) = 0
      <4>1. Ran(G) \cap R[n] = {}
        BY <1>6
      <4> QED BY <4>1, FS_EmptySet
    <3>3. Cardinality(R[n]) \in Nat
      BY <2>1, FS_CardinalityType
    <3> QED BY <1>4, <1>5, <2>1, <3>1, <3>2, <3>3
  <2>3. Y \cup Together(R, S) = Chunks
    <3>1. Together(R, S) \subseteq Chunks /\ R[n] \subseteq Chunks
      BY <1>2, <1>3, <1>10 DEF Together
    <3> QED BY <1>5, <1>6, <1>10, <3>1 DEF Together
  <2>4. Y \cap Together(R, S) = {}
    <3>1. \A m \in S : Y \cap R[m] = {}
      BY <1>6, <1>10
    <3> HIDE DEF Y
    <3> QED BY <3>1 DEF Together
  <2> HIDE DEF Y
  <2>5. Cardinality(Y) + Cardinality(Together(R, S)) = Cardinality(Chunks)
    BY <2>3, <2>4, Counted, Sets
  <2> DEFINE z == Cardinality(Together(R, S))
  <2>6. Cardinality(Y) + z = ChunkTotal /\ z \in Nat /\ SumFunctionOnSet(need, S) = z /\ ChunkTotal \in Nat
    BY <1>7, <1>8, <2>5, Sets
  <2> HIDE DEF z
  <2>7. z = ChunkTotal - Len(G) - Len(C[n])
    BY <1>4, <2>2, <2>6
  <2> QED BY <2>6, <2>7
<1> QED BY <1>8, <1>9, <1>10 DEF U, TakenFrom

\* insert_node refuses a value for lack of a node, of chunks or of bytes.
LEMMA InsertRefuses ==
    ASSUME NEW h, NEW A, NEW B, NEW F, NEW C, NEW G, Shape(h, A, B, F, C, G), NEW k, NEW bytes \in Seq(Nat),
           NEW num, num = get_chunk_num(Len(bytes)), NEW r, r = insert_node(h, k, bytes)
    PROVE  r.n = Nil <=> (h.free_list_ = Nil \/ num > Len(G) \/ num = 0)
<1> DEFINE p == free_list_remove(h, h.free_list_)
<1> DEFINE m == malloc(h.a, num)
<1>1. Refused(r, h, num, G)
    BY InsertAnswer
<1> QED BY <1>1 DEF Refused

\* set() accepts exactly what fits.  A new key's value takes at least one chunk.
LEMMA SetAnswers ==
    ASSUME NEW h, WF(h), NEW k \in Nat, NEW v \in Seq(Nat), v # <<>>, NEW f,
           NEW U, U = ToSet(AddList(h)), NEW need, need = [n \in U |-> get_chunk_num(h.node[n].chunk_len_)],
           NEW others, others = {n \in U : h.node[n].key_ # k}
    PROVE  set(h, k, v, f).rc = 0 <=> /\ Cardinality(others) < NodeTotal
                                      /\ SumFunctionOnSet(need, others) + get_chunk_num(Len(v)) <= ChunkTotal
<1>1. PICK A, B, F, C, G : Shape(h, A, B, F, C, G)
    BY DEF WF
<1> DEFINE s == find_node(h, k)
<1> DEFINE t == IF s.n = Nil THEN insert_node(s.h, k, v) ELSE update_node(s.h, s.n, v)
<1> DEFINE num == get_chunk_num(Len(v))
<1>2. set(h, k, v, f).rc = 0 <=> t.n # Nil
    BY DEF set
<1>3. /\ s.n = Nil => s.h = h /\ \A m \in Ran(A) : h.node[m].key_ # k
      /\ s.n # Nil => /\ s.n \in Ran(A) /\ h.node[s.n].key_ = k /\ Shape(s.h, Touch(A, s.n), B, F, C, G)
                      /\ Ran(Touch(A, s.n)) = Ran(A)
    BY <1>1, FindShape
<1>4. /\ U = Ran(A) /\ Len(A) + Len(F) = NodeTotal /\ Cardinality(U) = Len(A) /\ IsFiniteSet(U)
      /\ Len(A) \in Nat /\ Len(A) <= NodeTotal
    BY <1>1, ListsAre, AddListIs
<1>5. \A n \in Ran(A) : need[n] = get_chunk_num(h.node[n].chunk_len_)
    BY <1>4
<1>6. /\ SumFunctionOnSet(need, others) \in Nat
      /\ others = Ran(A) => SumFunctionOnSet(need, others) = ChunkTotal - Len(G)
      /\ \A n \in Ran(A) : others = Ran(A) \ {n} => SumFunctionOnSet(need, others) = ChunkTotal - Len(G) - Len(C[n])
  <2>1. others \subseteq Ran(A)
    BY <1>4
  <2>2. TakenFrom(need, others, A, C, G)
    BY <1>1, <1>5, <2>1, TakenIs
  <2> QED BY <2>2 DEF TakenFrom
<1>7. num \in Nat /\ num # 0
  <2>1. Len(v) \in Nat /\ Len(v) # 0 /\ ChunkSize \in Nat \ {0}
    BY Sets
  <2>2. \A x, c \in Nat : c # 0 /\ x # 0 => (x + c - 1) \div c \in Nat /\ (x + c - 1) \div c # 0
    <3> TAKE x, c \in Nat
    <3>1. ASSUME c # 0, x # 0 PROVE (x + c - 1) \div c \in Nat /\ (x + c - 1) \div c # 0
      <4> DEFINE y == x + c - 1
      <4>1. y \in Nat /\ y >= c /\ c > 0 /\ c \in Nat \ {0}
        BY <3>1
      <4> HIDE DEF y
      <4>2. y \div c \in Nat /\ y = (y \div c) * c + (y % c) /\ (y % c) \in 0..(c - 1)
        BY <4>1, DivMod
      <4>3. y \div c # 0
        <5> SUFFICES ASSUME y \div c = 0 PROVE FALSE
          OBVIOUS
        <5>1. (y \div c) * c = 0
          BY <4>1
        <5>2. (y % c) \in Nat
          BY <4>1
        <5> QED BY <4>1, <4>2, <5>1, <5>2
      <4> QED BY <4>2, <4>3 DEF y
    <3> QED BY <3>1
  <2> QED BY <2>1, <2>2 DEF get_chunk_num
<1>8. Len(G) \in Nat /\ ChunkTotal \in Nat /\ NodeTotal \in Nat /\ Len(F) \in Nat /\ (h.free_list_ = Nil <=> Len(F) = 0)
  <2>1. IsList(Nodes, node_nexts(h), h.free_list_, F)
    BY <1>1, ShapeFacts DEF LinkShape
  <2>2. Len(F) \in Nat /\ (h.free_list_ = Nil <=> Len(F) = 0)
    BY <2>1, Sets DEF IsList
  <2> QED BY <1>1, <2>2, ShapeFacts, Sets
<1> DEFINE sum == SumFunctionOnSet(need, others)
<1>9. CASE s.n = Nil
  <2>1. t = insert_node(h, k, v)
    BY <1>3, <1>9
  <2>2. others = Ran(A)
    BY <1>3, <1>4, <1>9
  <2>3. num = get_chunk_num(Len(v))
    OBVIOUS
  <2> HIDE DEF num, t, s
  <2>4. t.n = Nil <=> (h.free_list_ = Nil \/ num > Len(G) \/ num = 0)
    BY <1>1, <2>1, <2>3, InsertRefuses
  <2>5. Cardinality(others) = Len(A) /\ sum = ChunkTotal - Len(G)
    BY <1>4, <1>6, <2>2
  <2>6. Cardinality(others) < NodeTotal <=> h.free_list_ # Nil
    BY <1>4, <1>8, <2>5
  <2>7. sum + num <= ChunkTotal <=> num <= Len(G)
    BY <1>7, <1>8, <2>5
  <2>8. num <= Len(G) <=> ~(num > Len(G))
    BY <1>7, <1>8
  <2> QED BY <1>2, <1>7, <2>3, <2>4, <2>6, <2>7, <2>8
<1>10. CASE s.n # Nil
  <2> DEFINE n == s.n
  <2> DEFINE g == s.h
  <2> DEFINE A2 == Touch(A, n)
  <2>1. t = update_node(g, n, v) /\ Shape(g, A2, B, F, C, G) /\ n \in Ran(A2) /\ n \in Ran(A) /\ h.node[n].key_ = k
    BY <1>3, <1>10
  <2>2. num = get_chunk_num(Len(v))
    OBVIOUS
  <2> HIDE DEF t, s, n, g, A2, num
  <2>3. others = Ran(A) \ {n}
    <3>1. \A i, m \in Ran(A) : h.node[i].key_ = h.node[m].key_ => i = m
      BY <1>1 DEF Shape
    <3> QED BY <1>4, <2>1, <3>1
  <2>4. Len(C[n]) \in Nat /\ (t.n = Nil <=> get_chunk_num(Len(v)) > Len(C[n]) + Len(G))
    BY <2>1, UpdateAnswer
  <2>5. sum = ChunkTotal - Len(G) - Len(C[n])
    BY <1>6, <2>1, <2>3
  <2>6. Cardinality(others) = Len(A) - 1
    <3>1. Cardinality(U \ {n}) = Cardinality(U) - 1
      BY <1>4, <2>1, FS_RemoveElement
    <3> QED BY <1>4, <2>3, <3>1
  <2>7. Cardinality(others) < NodeTotal
    BY <1>4, <1>8, <2>6
  <2>8. sum + num <= ChunkTotal <=> ~(num > Len(C[n]) + Len(G))
    BY <1>7, <1>8, <2>4, <2>5
  <2> QED BY <1>2, <2>2, <2>4, <2>7, <2>8
<1> QED BY <1>9, <1>10

\* set() on a well formed pool refuses exactly what does not fit.
LEMMA FitsFollows ==
    ASSUME WF(cache), IsFiniteSet(Keys), \A v \in Values : v # <<>>
    PROVE  SetRefusesOnlyWhatDoesNotFit
<1> DEFINE U == UsedNodes
<1> DEFINE need == [n \in U |-> get_chunk_num(cache.node[n].chunk_len_)]
<1> DEFINE another == 1 + Max(Keys \cup {0})
<1>1. another \in Nat
  <2>1. IsFiniteSet(Keys \cup {0}) /\ Keys \cup {0} \subseteq Nat
    <3>1. Keys \subseteq Nat
      BY NodeAssumption
    <3>2. IsFiniteSet(Keys \cup {0})
      BY FS_AddElement
    <3> QED BY <3>1, <3>2
  <2>2. Max(Keys \cup {0}) \in Keys \cup {0}
    BY <2>1, LargestKey
  <2>3. Max(Keys \cup {0}) \in Nat
    BY <2>1, <2>2
  <2> QED BY <2>3
<1>2. \A k \in Keys \cup {another} : k \in Nat
  <2>1. Keys \subseteq Nat
    BY NodeAssumption
  <2> HIDE DEF another
  <2> QED BY <1>1, <2>1
<1>3. \A v \in Values : v \in Seq(Nat)
    BY ValueAssumption
<1>4. U = ToSet(AddList(cache))
    BY DEF UsedNodes
<1> HIDE DEF U
<1>5. ASSUME NEW k \in Nat, NEW v \in Values
      PROVE  set(cache, k, v, "dirty").rc = 0 <=>
                /\ Cardinality({n \in U : cache.node[n].key_ # k}) < NodeTotal
                /\ SumFunctionOnSet(need, {n \in U : cache.node[n].key_ # k}) + get_chunk_num(Len(v)) <= ChunkTotal
  <2> DEFINE others == {n \in U : cache.node[n].key_ # k}
  <2>1. v \in Seq(Nat) /\ v # <<>>
    BY <1>3
  <2>2. need = [n \in U |-> get_chunk_num(cache.node[n].chunk_len_)] /\ others = {n \in U : cache.node[n].key_ # k}
    OBVIOUS
  <2> HIDE DEF need, others
  <2>3. set(cache, k, v, "dirty").rc = 0 <=>
                /\ Cardinality(others) < NodeTotal
                /\ SumFunctionOnSet(need, others) + get_chunk_num(Len(v)) <= ChunkTotal
    BY <1>4, <2>1, <2>2, SetAnswers
  <2> QED BY <2>3 DEF others
<1> HIDE DEF need, another
<1>6. \A k \in Keys \cup {another} : \A v \in Values :
          set(cache, k, v, "dirty").rc = 0 <=>
                /\ Cardinality({n \in U : cache.node[n].key_ # k}) < NodeTotal
                /\ SumFunctionOnSet(need, {n \in U : cache.node[n].key_ # k}) + get_chunk_num(Len(v)) <= ChunkTotal
    BY <1>2, <1>5
<1> QED BY <1>6, Zenon DEF SetRefusesOnlyWhatDoesNotFit, need, another, U

-----------------------------------------------------------------------------
(* core_dump_mem.                                                          *)

\* No member occurs twice.
Once(s) == \A i, j \in 1..Len(s) : s[i] = s[j] => i = j

\* A sequence without repetition is as long as its members are many.
LEMMA OnceCount ==
    ASSUME NEW D, NEW s \in Seq(D), Once(s)
    PROVE  Cardinality(Ran(s)) = Len(s)
<1>1. Len(s) \in Nat /\ DOMAIN s = 1..Len(s) /\ s \in [1..Len(s) -> Ran(s)]
  <2>1. Len(s) \in Nat /\ DOMAIN s = 1..Len(s) /\ s = [i \in 1..Len(s) |-> s[i]]
    OBVIOUS
  <2> QED BY <2>1 DEF Ran
<1>2. s \in Injection(1..Len(s), Ran(s)) /\ s \in Surjection(1..Len(s), Ran(s))
    BY <1>1 DEF Injection, IsInjective, Surjection, Ran, Once
<1>3. IsFiniteSet(1..Len(s)) /\ Cardinality(1..Len(s)) = Len(s)
    BY <1>1, MaximaChoose
<1> QED BY <1>2, <1>3, FS_Surjection

\* A new member in front of a sequence.
LEMMA Prepend ==
    ASSUME NEW D, NEW t \in Seq(D), Once(t), NEW x \in D, x \notin Ran(t), NEW s, s = <<x>> \o t
    PROVE  s \in Seq(D) /\ Once(s) /\ Ran(s) = {x} \cup Ran(t)
<1>1. /\ Len(t) \in Nat /\ s \in Seq(D) /\ Len(s) = Len(t) + 1 /\ s[1] = x
      /\ \A i \in 1..Len(t) : s[i + 1] = t[i]
    OBVIOUS
<1>2. \A i \in 1..Len(s) : i = 1 \/ (i - 1 \in 1..Len(t) /\ s[i] = t[i - 1])
  <2> TAKE i \in 1..Len(s)
  <2>1. i # 1 => i - 1 \in 1..Len(t) /\ (i - 1) + 1 = i
    BY <1>1
  <2> QED BY <1>1, <2>1
<1>3. \A i \in 1..Len(t) : t[i] # x
    BY DEF Ran
<1>4. Once(s)
  <2> SUFFICES ASSUME NEW i \in 1..Len(s), NEW j \in 1..Len(s), s[i] = s[j] PROVE i = j
    BY DEF Once
  <2>1. CASE i = 1 \/ j = 1
    BY <1>1, <1>2, <1>3, <2>1
  <2>2. CASE i # 1 /\ j # 1
    <3>1. i - 1 = j - 1
      BY <1>2, <2>2 DEF Once
    <3> QED BY <1>1, <3>1
  <2> QED BY <2>1, <2>2
<1>5. Ran(s) = {x} \cup Ran(t)
  <2>1. Ran(s) \subseteq {x} \cup Ran(t)
    BY <1>1, <1>2 DEF Ran
  <2>2. 1 \in 1..Len(s) /\ \A i \in 1..Len(t) : i + 1 \in 1..Len(s)
    BY <1>1
  <2>3. {x} \cup Ran(t) \subseteq Ran(s)
    BY <1>1, <2>2 DEF Ran
  <2> QED BY <2>1, <2>3
<1> QED BY <1>1, <1>4, <1>5

\* The members of A behind the p-th one that are in T.
Behind(A, p, T) == {A[q] : q \in {r \in (p + 1)..Len(A) : A[r] \in T}}

\* s is what the dirty iterator visits from the p-th node of A on.
Visits(s, A, p, T) == s \in Seq(Nodes) /\ Once(s) /\ Ran(s) = {A[p]} \cup Behind(A, p, T)

\* One node that the iterator visits, and what it visits after it.
LEMMA VisitStep ==
    ASSUME NEW A \in Seq(Nodes), Once(A), NEW p \in 1..Len(A), NEW T, NEW n, IsFirst(n, A, p + 1, Len(A), T),
           NEW t, n = Nil => t = <<>>, \A q \in (p + 1)..Len(A) : n = A[q] => Visits(t, A, q, T),
           NEW s, s = <<A[p]>> \o t
    PROVE  Visits(s, A, p, T)
<1> DEFINE L == Len(A)
<1>1. L \in Nat /\ p \in Nat /\ A[p] \in Nodes /\ (\A q \in (p + 1)..L : q \in 1..L /\ q # p)
    OBVIOUS
<1>2. t \in Seq(Nodes) /\ Once(t) /\ Ran(t) = Behind(A, p, T)
  <2>1. CASE n = Nil /\ \A i \in (p + 1)..L : A[i] \notin T
    <3>1. t = <<>>
      BY <2>1
    <3>2. Ran(t) = {} /\ Once(t) /\ t \in Seq(Nodes)
      BY <3>1 DEF Ran, Once
    <3>3. Behind(A, p, T) = {}
      BY <2>1 DEF Behind
    <3> QED BY <3>2, <3>3
  <2>2. CASE \E i \in (p + 1)..L : n = A[i] /\ A[i] \in T /\ \A m \in (p + 1)..(i - 1) : A[m] \notin T
    <3>1. PICK q \in (p + 1)..L : n = A[q] /\ A[q] \in T /\ \A m \in (p + 1)..(q - 1) : A[m] \notin T
      BY <2>2
    <3>2. Visits(t, A, q, T)
      BY <3>1
    <3>3. Behind(A, p, T) = {A[q]} \cup Behind(A, q, T)
      <4>1. \A r \in (p + 1)..L : r \in (p + 1)..(q - 1) \/ r = q \/ r \in (q + 1)..L
        BY <1>1
      <4>2. \A r \in (q + 1)..L : r \in (p + 1)..L
        BY <1>1
      <4>3. Behind(A, p, T) \subseteq {A[q]} \cup Behind(A, q, T)
        BY <3>1, <4>1 DEF Behind
      <4>4. {A[q]} \cup Behind(A, q, T) \subseteq Behind(A, p, T)
        BY <3>1, <4>2 DEF Behind
      <4> QED BY <4>3, <4>4
    <3> QED BY <3>2, <3>3 DEF Visits
  <2> QED BY <2>1, <2>2 DEF IsFirst
<1>3. A[p] \notin Ran(t)
  <2>1. \A r \in (p + 1)..L : A[r] # A[p]
    BY <1>1 DEF Once
  <2> QED BY <1>2, <2>1 DEF Behind
<1>4. s \in Seq(Nodes) /\ Once(s) /\ Ran(s) = {A[p]} \cup Ran(t)
    BY <1>1, <1>2, <1>3, Prepend
<1> QED BY <1>2, <1>4 DEF Visits

\* The answers of the iterator are nodes or Nil.
LEMMA NextDirtyType ==
    ASSUME NEW h, NEW A, NEW B, NEW F, NEW C, NEW G, Shape(h, A, B, F, C, G), NEW n \in Nodes
    PROVE  next_dirty(h, n) \in Nodes \cup {Nil}
<1> DEFINE nx == add_nexts(h)
<1>1. A \in Seq(Nodes) /\ nx \in [Nodes -> Nodes \cup {Nil}]
    BY AddListIs
<1>2. CASE n \in Ran(A)
  <2>1. PICK p \in 1..Len(A) : n = A[p]
    BY <1>2 DEF Ran
  <2>2. IsFirst(next_dirty(h, n), A, p + 1, Len(A), Dirty(h))
    BY <2>1, NextDirtyIs
  <2>3. \A i \in (p + 1)..Len(A) : A[i] \in Nodes
    BY <1>1
  <2> QED BY <2>2, <2>3 DEF IsFirst
<1>3. CASE n \notin Ran(A)
  <2>1. nx[n] = Nil
    <3>1. AddShape(h, A)
      BY ShapeFacts
    <3>2. h.node[n].add_next_ = Nil
      BY <1>3, <3>1 DEF AddShape
    <3> QED BY <3>2, NodeCols
  <2>2. PICK w : /\ IsFindWalk(w, Nodes, nx, NodeTotal, Dirty(h))
                 /\ \A m \in Nodes : next_dirty(h, m) = w[NodeTotal][nx[m]]
    BY NextDirtyWalk
  <2>3. IsList(Nodes, nx, Nil, <<>>) /\ Len(<<>>) <= NodeTotal /\ NodeTotal \in Nat /\ Nil \notin Nodes
    BY Sets DEF IsList
  <2> HIDE DEF nx
  <2>4. IsFirst(w[NodeTotal][Nil], <<>>, 1, Len(<<>>), Dirty(h))
    BY <1>1, <2>2, <2>3, FindIs
  <2>5. w[NodeTotal][Nil] = Nil
    BY <2>4 DEF IsFirst
  <2> QED BY <2>1, <2>2, <2>5
<1> QED BY <1>2, <1>3

\* The nodes the dirty iterator visits: the head of the list and the dirty ones behind it.
LEMMA VisitsAll ==
    ASSUME NEW h, NEW A, NEW B, NEW F, NEW C, NEW G, Shape(h, A, B, F, C, G),
           NEW nd, nd = [n \in Nodes |-> next_dirty(h, n)], NEW w, IsChainWalk(w, Nodes, nd, NodeTotal)
    PROVE  /\ Len(A) = 0 => w[NodeTotal][h.add_head_] = <<>>
           /\ Len(A) # 0 => Visits(w[NodeTotal][h.add_head_], A, 1, Dirty(h))
<1> DEFINE N == NodeTotal
<1> DEFINE L == Len(A)
<1> DEFINE T == Dirty(h)
<1> DEFINE E == Nodes \cup {Nil}
<1>1. /\ A \in Seq(Nodes) /\ Once(A) /\ L \in Nat /\ L <= N /\ N \in Nat /\ Nil \notin Nodes
      /\ h.add_head_ = IF L = 0 THEN Nil ELSE A[1]
  <2>1. A \in Seq(Nodes) /\ L \in Nat /\ L <= N /\ IsList(Nodes, add_nexts(h), h.add_head_, A)
    BY AddListIs
  <2> QED BY <2>1, Sets DEF Once, IsList
<1>2. \A i \in 0..N : \A p \in E : w[i][p] = IF p = Nil \/ i = 0 THEN <<>> ELSE <<p>> \o w[i - 1][nd[p]]
  <2> DEFINE Body(i, p) == IF p = Nil \/ i = 0 THEN <<>> ELSE <<p>> \o w[i - 1][nd[p]]
  <2>1. w = [i \in 0..N |-> [p \in E |-> Body(i, p)]]
    BY DEF IsChainWalk
  <2> HIDE DEF Body
  <2>2. \A i \in 0..N : \A p \in E : w[i][p] = Body(i, p)
    BY <2>1
  <2> QED BY <2>2 DEF Body
<1>3. \A i \in 0..N : w[i][Nil] = <<>>
    BY <1>2
<1>4. ASSUME NEW p \in 1..L
      PROVE  /\ A[p] \in Nodes /\ IsFirst(nd[A[p]], A, p + 1, L, T)
             /\ \A i \in 1..N : w[i][A[p]] = <<A[p]>> \o w[i - 1][nd[A[p]]]
  <2>1. A[p] \in Nodes
    BY <1>1
  <2>2. nd[A[p]] = next_dirty(h, A[p])
    BY <2>1
  <2>3. IsFirst(nd[A[p]], A, p + 1, L, T)
    BY <2>2, NextDirtyIs
  <2>4. ASSUME NEW i \in 1..N PROVE w[i][A[p]] = <<A[p]>> \o w[i - 1][nd[A[p]]]
    <3>1. i \in 0..N /\ i # 0 /\ A[p] # Nil /\ A[p] \in E
      BY <1>1, <2>1
    <3> QED BY <1>2, <3>1, Zenon
  <2> QED BY <2>1, <2>3, <2>4
<1> HIDE DEF N, L, T
<1> DEFINE X == {j \in 0..L : \A p \in 1..L : L - p < j => \A i \in (L - p + 1)..N : Visits(w[i][A[p]], A, p, T)}
<1>5. 0 \in X
  <2>1. \A p \in 1..L : ~(L - p < 0)
    BY <1>1
  <2>2. 0 \in 0..L
    BY <1>1
  <2> QED BY <2>1, <2>2
<1>6. ASSUME NEW j \in 0..(L - 1), j \in X PROVE j + 1 \in X
  <2>1. j + 1 \in 0..L
    BY <1>1
  <2>2. ASSUME NEW p \in 1..L, L - p < j + 1, NEW i \in (L - p + 1)..N PROVE Visits(w[i][A[p]], A, p, T)
    <3>1. i \in 1..N /\ i - 1 \in 0..N
      BY <1>1
    <3>2. w[i][A[p]] = <<A[p]>> \o w[i - 1][nd[A[p]]]
      BY <1>4, <3>1
    <3> DEFINE n == nd[A[p]]
    <3> DEFINE t == w[i - 1][n]
    <3>3. IsFirst(n, A, p + 1, Len(A), T)
      BY <1>4 DEF L
    <3>4. n = Nil => t = <<>>
      BY <1>3, <3>1
    <3>5. ASSUME NEW q \in (p + 1)..Len(A), n = A[q] PROVE Visits(t, A, q, T)
      <4>1. q \in 1..L /\ L - q < j /\ i - 1 \in (L - q + 1)..N
        BY <1>1, <2>2 DEF L
      <4>2. Visits(w[i - 1][A[q]], A, q, T)
        BY <1>6, <4>1
      <4> QED BY <3>5, <4>2
    <3>6. p \in 1..Len(A)
      BY DEF L
    <3> DEFINE s == w[i][A[p]]
    <3>7. s = <<A[p]>> \o t
      BY <3>2
    <3> HIDE DEF n, t, s
    <3>8. Visits(s, A, p, T)
      BY <1>1, <3>3, <3>4, <3>5, <3>6, <3>7, VisitStep
    <3> QED BY <3>8 DEF s
  <2> QED BY <2>1, <2>2
<1>7. \A j \in 0..L : j \in X
  <2> HIDE DEF X
  <2> QED BY <1>1, <1>5, <1>6, BoundedInd
<1>8. ASSUME L = 0 PROVE w[N][h.add_head_] = <<>>
  <2>1. N \in 0..N
    BY <1>1
  <2> QED BY <1>1, <1>3, <1>8, <2>1
<1>9. ASSUME L # 0 PROVE Visits(w[N][h.add_head_], A, 1, T)
  <2>1. h.add_head_ = A[1] /\ 1 \in 1..L /\ L \in 0..L /\ L - 1 < L /\ N \in (L - 1 + 1)..N
    BY <1>1, <1>9
  <2>2. L \in X
    BY <1>7, <2>1
  <2> QED BY <2>1, <2>2
<1> QED BY <1>8, <1>9 DEF N, L, T

\* What core_dump_mem writes.
LEMMA DumpIs ==
    ASSUME NEW h, NEW A, NEW B, NEW F, NEW C, NEW G, Shape(h, A, B, F, C, G), NEW selected,
           NEW d, d = core_dump_mem(h, selected)
    PROVE  /\ d \in Seq(Nodes) /\ Once(d)
           /\ Ran(d) = {n \in (Ran(A) \cap Dirty(h)) \cup ({h.add_head_} \ {Nil}) : h.node[n].key_ \in selected}
<1> DEFINE N == NodeTotal
<1> DEFINE nd == [n \in Nodes |-> next_dirty(h, n)]
<1> DEFINE w0 == CHOOSE w : w = [i \in 0..N |-> [n \in Nodes \cup {Nil} |->
                    IF n = Nil \/ i = 0 THEN <<>> ELSE <<n>> \o w[i - 1][next_dirty(h, n)]]]
<1> DEFINE W == {n \in Nodes : h.node[n].key_ \in selected}
<1> DEFINE s == w0[N][h.add_head_]
<1>1. d = collect(s, W)
    BY DEF core_dump_mem
<1>2. \A w : [i \in 0..N |-> [n \in Nodes \cup {Nil} |->
                    IF n = Nil \/ i = 0 THEN <<>> ELSE <<n>> \o w[i - 1][next_dirty(h, n)]]]
           = [i \in 0..N |-> [n \in Nodes \cup {Nil} |->
                    IF n = Nil \/ i = 0 THEN <<>> ELSE <<n>> \o w[i - 1][nd[n]]]]
  <2>1. \A n \in Nodes \cup {Nil} : n # Nil => nd[n] = next_dirty(h, n)
    OBVIOUS
  <2> HIDE DEF nd
  <2> TAKE w
  <2>2. ASSUME NEW i \in 0..N, NEW n \in Nodes \cup {Nil}
        PROVE  (IF n = Nil \/ i = 0 THEN <<>> ELSE <<n>> \o w[i - 1][next_dirty(h, n)]) =
               (IF n = Nil \/ i = 0 THEN <<>> ELSE <<n>> \o w[i - 1][nd[n]])
    BY <2>1
  <2> DEFINE P(i, n) == IF n = Nil \/ i = 0 THEN <<>> ELSE <<n>> \o w[i - 1][next_dirty(h, n)]
  <2> DEFINE Q(i, n) == IF n = Nil \/ i = 0 THEN <<>> ELSE <<n>> \o w[i - 1][nd[n]]
  <2>3. \A i \in 0..N : \A n \in Nodes \cup {Nil} : P(i, n) = Q(i, n)
    BY <2>2
  <2> HIDE DEF P, Q
  <2>4. [i \in 0..N |-> [n \in Nodes \cup {Nil} |-> P(i, n)]] = [i \in 0..N |-> [n \in Nodes \cup {Nil} |-> Q(i, n)]]
    BY <2>3
  <2> QED BY <2>4 DEF P, Q
<1>3. w0 = CHOOSE w : IsChainWalk(w, Nodes, nd, N)
  <2> DEFINE P(w) == [i \in 0..N |-> [n \in Nodes \cup {Nil} |->
                        IF n = Nil \/ i = 0 THEN <<>> ELSE <<n>> \o w[i - 1][next_dirty(h, n)]]]
  <2>1. w0 = CHOOSE w : w = P(w)
    OBVIOUS
  <2>2. \A w : IsChainWalk(w, Nodes, nd, N) <=> w = P(w)
    <3> TAKE w
    <3>1. P(w) = [i \in 0..N |-> [n \in Nodes \cup {Nil} |->
                    IF n = Nil \/ i = 0 THEN <<>> ELSE <<n>> \o w[i - 1][nd[n]]]]
      BY <1>2, Zenon
    <3> HIDE DEF P, nd
    <3> QED BY <3>1, Zenon DEF IsChainWalk
  <2> HIDE DEF P, nd, w0
  <2> QED BY <2>1, <2>2, Zenon
<1>4. nd \in [Nodes -> Nodes \cup {Nil}] /\ N \in Nat /\ Nil \notin Nodes
  <2>1. \A n \in Nodes : next_dirty(h, n) \in Nodes \cup {Nil}
    BY NextDirtyType
  <2> QED BY <2>1, Sets
<1> HIDE DEF w0
<1>5. IsChainWalk(w0, Nodes, nd, N)
  <2> HIDE DEF nd
  <2>1. \E w : IsChainWalk(w, Nodes, nd, N)
    BY <1>4, ChainWalkExists
  <2> QED BY <1>3, <2>1, Zenon
<1>6. /\ Len(A) = 0 => s = <<>>
      /\ Len(A) # 0 => Visits(s, A, 1, Dirty(h))
  <2>1. nd = [n \in Nodes |-> next_dirty(h, n)]
    OBVIOUS
  <2> HIDE DEF nd
  <2> QED BY <1>5, <2>1, VisitsAll
<1>7. /\ A \in Seq(Nodes) /\ Len(A) \in Nat /\ h.add_head_ = IF Len(A) = 0 THEN Nil ELSE A[1]
  <2>1. A \in Seq(Nodes) /\ Len(A) \in Nat /\ IsList(Nodes, add_nexts(h), h.add_head_, A)
    BY AddListIs
  <2> QED BY <2>1 DEF IsList
<1> HIDE DEF s, W
<1>8. s \in Seq(Nodes) /\ Once(s) /\ Ran(s) = (Ran(A) \cap Dirty(h)) \cup ({h.add_head_} \ {Nil})
  <2>1. CASE Len(A) = 0
    <3>1. s = <<>> /\ Ran(A) = {} /\ h.add_head_ = Nil
      BY <1>6, <1>7, <2>1 DEF Ran
    <3>2. s \in Seq(Nodes) /\ Once(s) /\ Ran(s) = {}
      BY <3>1 DEF Once, Ran
    <3> QED BY <3>1, <3>2
  <2>2. CASE Len(A) # 0
    <3>1. s \in Seq(Nodes) /\ Once(s) /\ Ran(s) = {A[1]} \cup Behind(A, 1, Dirty(h))
      BY <1>6, <2>2 DEF Visits
    <3>2. h.add_head_ = A[1] /\ A[1] # Nil /\ 1 \in 1..Len(A)
      BY <1>7, <2>2, Sets
    <3>3. \A i \in 1..Len(A) : i = 1 \/ i \in 2..Len(A)
      BY <1>7
    <3>4. \A i \in 2..Len(A) : i \in 1..Len(A)
      BY <1>7
    <3>5. Behind(A, 1, Dirty(h)) \subseteq Ran(A) \cap Dirty(h)
      BY <3>4 DEF Behind, Ran
    <3>6. Ran(A) \cap Dirty(h) \subseteq {A[1]} \cup Behind(A, 1, Dirty(h))
      BY <3>3 DEF Behind, Ran
    <3> QED BY <3>1, <3>2, <3>5, <3>6
  <2> QED BY <2>1, <2>2
<1>9. d \in Seq(Nodes) /\ Collected(s, W, Len(s), d)
    BY <1>1, <1>8, CollectIs DEF Once
<1>10. Once(d) /\ Ran(d) = {s[j] : j \in {l \in 1..Len(s) : s[l] \in W}}
    BY <1>9 DEF Collected, Once
<1>11. Ran(d) = Ran(s) \cap W
    BY <1>10 DEF Ran
<1>12. Ran(s) \subseteq Nodes
    BY <1>8 DEF Ran
<1> QED BY <1>8, <1>9, <1>10, <1>11, <1>12 DEF W

\* core_dump_mem of a well formed pool writes every dirty entry once.
LEMMA DumpFollows ==
    ASSUME WF(cache)
    PROVE  DumpKeepsDirtyData
<1>1. PICK A, B, F, C, G : Shape(cache, A, B, F, C, G)
    BY DEF WF
<1>2. UsedNodes = Ran(A) /\ Ran(A) \subseteq Nodes /\ cache \in PoolRec
    BY <1>1, ListsAre, ShapeFacts DEF UsedNodes
<1>3. {n \in UsedNodes : cache.node[n].flag_ = "dirty"} = Ran(A) \cap Dirty(cache)
  <2>1. \A n \in Nodes : cache.node[n].flag_ \in {"unchg", "dirty"}
    BY <1>2 DEF PoolRec, NodeRec, Flags
  <2>2. \A n \in Nodes : cache.node[n].flag_ = "dirty" <=> cache.node[n].flag_ # "unchg"
    BY <2>1
  <2> QED BY <1>2, <2>2 DEF Dirty
<1>4. ASSUME NEW selected
      PROVE  /\ Len(core_dump_mem(cache, selected)) = Cardinality(ToSet(core_dump_mem(cache, selected)))
             /\ ToSet(core_dump_mem(cache, selected)) =
                    {n \in {m \in UsedNodes : cache.node[m].flag_ = "dirty"} \cup ({cache.add_head_} \ {Nil}) :
                        cache.node[n].key_ \in selected}
  <2> DEFINE d == core_dump_mem(cache, selected)
  <2>1. /\ d \in Seq(Nodes) /\ Once(d)
        /\ Ran(d) = {n \in (Ran(A) \cap Dirty(cache)) \cup ({cache.add_head_} \ {Nil}) : cache.node[n].key_ \in selected}
    BY <1>1, DumpIs
  <2> HIDE DEF d
  <2>2. ToSet(d) = Ran(d)
    BY <2>1, ToSetIs
  <2>3. Len(d) = Cardinality(Ran(d))
    BY <2>1, OnceCount
  <2> QED BY <1>3, <2>1, <2>2, <2>3 DEF d
<1> QED BY <1>4 DEF DumpKeepsDirtyData

-----------------------------------------------------------------------------
(* The iterator of TfcShmMap.                                              *)

\* A with its last i members moved to its front.
Rotated(A, i) == [j \in 1..Len(A) |-> IF j <= i THEN A[Len(A) - i + j] ELSE A[j - i]]

\* Before the first step, and after as many steps as there are members.
LEMMA RotatedEnds ==
    ASSUME NEW D, NEW A \in Seq(D)
    PROVE  Rotated(A, 0) = A /\ Rotated(A, Len(A)) = A
<1>1. Len(A) \in Nat /\ A = [j \in 1..Len(A) |-> A[j]]
    OBVIOUS
<1>2. \A j \in 1..Len(A) : ~(j <= 0) /\ j - 0 = j /\ j <= Len(A) /\ Len(A) - Len(A) + j = j
    BY <1>1
<1>3. Rotated(A, 0) = [j \in 1..Len(A) |-> A[j]]
    BY <1>2 DEF Rotated
<1>4. Rotated(A, Len(A)) = [j \in 1..Len(A) |-> A[j]]
    BY <1>2 DEF Rotated
<1> QED BY <1>1, <1>3, <1>4

\* The members of the rotated sequence; its last one is the next to be visited.
LEMMA RotatedIs ==
    ASSUME NEW D, NEW A \in Seq(D), NEW i \in 0..Len(A)
    PROVE  /\ Rotated(A, i) \in Seq(D) /\ Len(Rotated(A, i)) = Len(A)
           /\ \A j \in 1..Len(A) : Rotated(A, i)[j] = IF j <= i THEN A[Len(A) - i + j] ELSE A[j - i]
<1> DEFINE L == Len(A)
<1>1. L \in Nat /\ \A j \in 1..L : A[j] \in D
    OBVIOUS
<1>2. \A j \in 1..L : (IF j <= i THEN A[L - i + j] ELSE A[j - i]) \in D
  <2> TAKE j \in 1..L
  <2>1. j <= i => L - i + j \in 1..L
    BY <1>1
  <2>2. ~(j <= i) => j - i \in 1..L
    BY <1>1
  <2> QED BY <1>1, <2>1, <2>2
<1> DEFINE e(j) == IF j <= i THEN A[L - i + j] ELSE A[j - i]
<1>3. Rotated(A, i) = [j \in 1..L |-> e(j)]
    BY DEF Rotated
<1>4. \A j \in 1..L : e(j) \in D
    BY <1>2
<1> HIDE DEF e, L
<1>5. /\ Rotated(A, i) \in Seq(D) /\ Len(Rotated(A, i)) = L /\ \A j \in 1..L : Rotated(A, i)[j] = e(j)
    BY <1>1, <1>3, <1>4
<1> QED BY <1>5 DEF e, L

\* s with every member a place further back and n in front, its last one dropped.
Shifted(s, n) == [j \in 1..Len(s) |-> IF j = 1 THEN n ELSE s[j - 1]]

\* Touching the last member of a list moves every other one a place back.
LEMMA TouchLast ==
    ASSUME NEW D, NEW s \in Seq(D), Once(s), Len(s) # 0, NEW n, n = s[Len(s)]
    PROVE  Touch(s, n) = Shifted(s, n)
<1> DEFINE L == Len(s)
<1>1. L \in Nat /\ L \in 1..L
    OBVIOUS
<1>2. n \in Ran(s)
    BY <1>1 DEF Ran
<1>3. (CHOOSE k \in 1..L : s[k] = n) = L
  <2>1. \E k \in 1..L : s[k] = n
    BY <1>1
  <2> DEFINE c == CHOOSE k \in 1..L : s[k] = n
  <2>2. c \in 1..L /\ s[c] = n
    BY <2>1, Zenon
  <2> HIDE DEF c
  <2>3. c = L
    BY <1>1, <2>2 DEF Once
  <2> QED BY <2>3 DEF c
<1>4. Without(s, n) = Cut(s, L)
    BY <1>2, <1>3, Zenon DEF Without
<1> DEFINE W == Cut(s, L)
<1>5. Len(W) = L - 1 /\ \A j \in 1..(L - 1) : W[j] = s[j]
  <2>1. W = [j \in 1..(L - 1) |-> IF j < L THEN s[j] ELSE s[j + 1]]
    BY DEF Cut
  <2>2. L - 1 \in Nat /\ \A j \in 1..(L - 1) : j < L
    BY <1>1
  <2> HIDE DEF W, L
  <2> QED BY <2>1, <2>2
<1> HIDE DEF W
<1>6. Touch(s, n) = [j \in 1..(Len(W) + 1) |-> IF j = 1 THEN n ELSE W[j - 1]]
    BY <1>4 DEF Touch, Push, W
<1>7. Len(W) + 1 = L /\ \A j \in 1..L : j # 1 => j - 1 \in 1..(L - 1)
    BY <1>1, <1>5
<1>8. \A j \in 1..L : j # 1 => W[j - 1] = s[j - 1]
    BY <1>5, <1>7
<1> HIDE DEF L
<1>9. [j \in 1..(Len(W) + 1) |-> IF j = 1 THEN n ELSE W[j - 1]] = [j \in 1..L |-> IF j = 1 THEN n ELSE s[j - 1]]
    BY <1>7, <1>8
<1> QED BY <1>6, <1>9 DEF L, Shifted

\* One step of the iterator rotates the add list by one.
LEMMA TouchRotates ==
    ASSUME NEW D, NEW A \in Seq(D), NEW i \in 0..(Len(A) - 1), Once(Rotated(A, i))
    PROVE  /\ Rotated(A, i)[Len(A)] = A[Len(A) - i] /\ Len(Rotated(A, i)) = Len(A)
           /\ Touch(Rotated(A, i), A[Len(A) - i]) = Rotated(A, i + 1)
<1> DEFINE L == Len(A)
<1> DEFINE s == Rotated(A, i)
<1> DEFINE n == A[L - i]
<1>1. L \in Nat /\ i \in 0..L /\ i + 1 \in 0..L /\ L # 0 /\ L \in 1..L
    OBVIOUS
<1>2. /\ s \in Seq(D) /\ Len(s) = L
      /\ \A j \in 1..L : s[j] = IF j <= i THEN A[L - i + j] ELSE A[j - i]
    BY <1>1, RotatedIs
<1>3. s[L] = n
  <2>1. ~(L <= i)
    BY <1>1
  <2> QED BY <1>1, <1>2, <2>1
<1> HIDE DEF s, n
<1>4. Touch(s, n) = [j \in 1..L |-> IF j = 1 THEN n ELSE s[j - 1]]
  <2>1. Once(s) /\ Len(s) # 0 /\ n = s[Len(s)]
    BY <1>1, <1>2, <1>3 DEF s
  <2>2. Touch(s, n) = Shifted(s, n)
    BY <1>2, <2>1, TouchLast
  <2> QED BY <1>2, <2>2 DEF Shifted
<1>5. ASSUME NEW j \in 1..L
      PROVE  (IF j = 1 THEN n ELSE s[j - 1]) = (IF j <= i + 1 THEN A[L - (i + 1) + j] ELSE A[j - (i + 1)])
  <2>1. CASE j = 1
    <3>1. j <= i + 1 /\ L - (i + 1) + j = L - i
      BY <1>1, <2>1
    <3> QED BY <2>1, <3>1 DEF n
  <2>2. CASE j # 1 /\ j <= i + 1
    <3>1. j - 1 \in 1..L /\ j - 1 <= i /\ L - i + (j - 1) = L - (i + 1) + j
      BY <1>1, <2>2
    <3>2. s[j - 1] = A[L - (i + 1) + j]
      BY <1>2, <3>1
    <3> QED BY <2>2, <3>2
  <2>3. CASE j # 1 /\ ~(j <= i + 1)
    <3>1. j - 1 \in 1..L /\ ~(j - 1 <= i) /\ (j - 1) - i = j - (i + 1)
      BY <1>1, <2>3
    <3>2. s[j - 1] = A[j - (i + 1)]
      BY <1>2, <3>1
    <3> QED BY <2>3, <3>2
  <2> QED BY <2>1, <2>2, <2>3
<1>6. Rotated(A, i + 1) = [j \in 1..L |-> IF j <= i + 1 THEN A[L - (i + 1) + j] ELSE A[j - (i + 1)]]
    BY DEF Rotated
<1>7. [j \in 1..L |-> IF j = 1 THEN n ELSE s[j - 1]] =
      [j \in 1..L |-> IF j <= i + 1 THEN A[L - (i + 1) + j] ELSE A[j - (i + 1)]]
    BY <1>5, Zenon
<1>8. Touch(s, n) = Rotated(A, i + 1)
    BY <1>4, <1>6, <1>7
<1> QED BY <1>2, <1>3, <1>8 DEF s, n

Iterations == [h : PoolRec, seen : Seq(Nat), done : BOOLEAN]

\* After i visits: the oldest i keys have been seen and are the newest now.
Visited(st, h0, A, i) ==
    /\ Len(st.seen) = i /\ \A j \in 1..i : st.seen[j] = h0.node[A[Len(A) - j + 1]].key_
    /\ \E B, F, C, G : Shape(st.h, Rotated(A, i), B, F, C, G)
    /\ SameKeys(st.h, h0)

\* After i turns of the loop, the last of which finds the first key again.
IterAt(st, h0, A, i) ==
    /\ i <= Len(A) => ~st.done /\ Visited(st, h0, A, i)
    /\ i > Len(A) => st.done /\ Visited(st, h0, A, Len(A))

\* operator++
iter_turn(st, first) ==
    IF st.done THEN st
    ELSE LET k == st.h.node[st.h.add_tail_].key_
         IN  IF st.seen # <<>> /\ k = first THEN [st EXCEPT !.done = TRUE]
             ELSE [h |-> get_for_iteration(st.h, k).h, seen |-> Append(st.seen, k), done |-> FALSE]

\* A visit of the oldest entry.
LEMMA VisitOne ==
    ASSUME NEW h0, NEW A0, NEW B0, NEW F0, NEW C0, NEW G0, Shape(h0, A0, B0, F0, C0, G0), NEW i \in 0..Len(A0),
           Len(A0) # 0, NEW st \in Iterations, Visited(st, h0, A0, i), NEW k, k = st.h.node[st.h.add_tail_].key_,
           NEW u, u = [h |-> get_for_iteration(st.h, k).h, seen |-> Append(st.seen, k), done |-> FALSE]
    PROVE  /\ k \in Nat
           /\ i = Len(A0) => k = h0.node[A0[Len(A0)]].key_
           /\ i < Len(A0) => /\ k = h0.node[A0[Len(A0) - i]].key_ /\ (i # 0 => k # h0.node[A0[Len(A0)]].key_)
                            /\ u \in Iterations /\ Visited(u, h0, A0, i + 1)
<1> DEFINE A == A0
<1> DEFINE L == Len(A)
<1> DEFINE h == st.h
<1> DEFINE R == Rotated(A, i)
<1>1. L \in Nat /\ A \in Seq(Nodes) /\ i \in Nat /\ L \in 1..L /\ L # 0
    BY AddListIs
<1>2. PICK B, F, C, G : Shape(h, R, B, F, C, G)
    BY DEF Visited
<1>3. /\ R \in Seq(Nodes) /\ Len(R) = L
      /\ \A j \in 1..L : R[j] = IF j <= i THEN A[L - i + j] ELSE A[j - i]
    BY <1>1, RotatedIs
<1>4. h \in PoolRec /\ AddShape(h, R) /\ SameKeys(h, h0)
    BY <1>2, ShapeFacts DEF Visited
<1> HIDE DEF R, h
<1>5. h.add_tail_ = R[L]
    BY <1>1, <1>3, <1>4 DEF AddShape, End
<1>6. R[L] \in Nodes /\ k = h0.node[R[L]].key_
    BY <1>1, <1>3, <1>4, <1>5 DEF SameKeys, h
<1>7. k \in Nat
  <2>1. h.node[R[L]].key_ \in Keys \cup {0} /\ h.node[R[L]].key_ = k
    BY <1>4, <1>6 DEF PoolRec, NodeRec, SameKeys
  <2>2. Keys \cup {0} \subseteq Nat
    BY NodeAssumption
  <2> QED BY <2>1, <2>2
<1>8. ASSUME i = L PROVE k = h0.node[A[L]].key_
  <2>1. L <= i /\ L - i + L = L
    BY <1>1, <1>8
  <2>2. R[L] = A[L]
    BY <1>1, <1>3, <2>1
  <2> QED BY <1>6, <2>2
<1>9. ASSUME i < L
      PROVE  /\ k = h0.node[A[L - i]].key_ /\ (i # 0 => k # h0.node[A[L]].key_)
             /\ u \in Iterations /\ Visited(u, h0, A, i + 1)
  <2> DEFINE n == A[L - i]
  <2>1. L - i \in 1..L /\ i \in 0..(L - 1) /\ ~(L <= i)
    BY <1>1, <1>9
  <2>2. R[L] = n
    BY <1>1, <1>3, <2>1
  <2>3. k = h0.node[n].key_
    BY <1>6, <2>2
  <2>4. Once(A) /\ n \in Ran(A) /\ A[L] \in Ran(A)
    <3>1. \A x, y \in 1..Len(A) : A[x] = A[y] => x = y
      BY AddListIs
    <3> QED BY <1>1, <2>1, <3>1 DEF Once, Ran
  <2>5. i # 0 => k # h0.node[A[L]].key_
    <3>1. \A x, y \in Ran(A) : h0.node[x].key_ = h0.node[y].key_ => x = y
      BY DEF Shape
    <3>2. i # 0 => n # A[L]
      BY <1>1, <2>1, <2>4 DEF Once
    <3> HIDE DEF n
    <3> QED BY <2>3, <2>4, <3>1, <3>2
  <2> HIDE DEF n
  <2>6. n \in Ran(R) /\ h.node[n].key_ = k
    <3>1. n \in Ran(R)
      BY <1>1, <1>3, <2>2 DEF Ran
    <3> QED BY <1>4, <1>6, <2>2, <2>3, <3>1 DEF SameKeys
  <2> DEFINE s == find_node(h, k)
  <2>7. /\ s.n = Nil => \A m \in Ran(R) : h.node[m].key_ # k
        /\ s.n # Nil => /\ s.n \in Ran(R) /\ h.node[s.n].key_ = k
                        /\ Shape(s.h, Touch(R, s.n), B, F, C, G) /\ OnlyAdd(s.h, h)
    BY <1>2, <1>7, FindShape
  <2> HIDE DEF s
  <2>8. s.n = n
    <3>1. \A x, y \in Ran(R) : h.node[x].key_ = h.node[y].key_ => x = y
      BY <1>2 DEF Shape
    <3> QED BY <2>6, <2>7, <3>1
  <2>9. n # Nil
    BY <1>6, <2>2, Sets
  <2>10. Shape(s.h, Touch(R, n), B, F, C, G) /\ OnlyAdd(s.h, h)
    BY <2>7, <2>8, <2>9
  <2>11. Touch(R, n) = Rotated(A, i + 1)
    <3>1. Once(R)
      BY <1>2, AddListIs DEF Once
    <3> QED BY <1>1, <2>1, <3>1, TouchRotates DEF R, n
  <2>12. u.h = s.h /\ u.seen = Append(st.seen, k) /\ u.done = FALSE
    BY DEF get_for_iteration, s, h
  <2>13. st.seen \in Seq(Nat) /\ Len(st.seen) = i /\ \A j \in 1..i : st.seen[j] = h0.node[A[L - j + 1]].key_
    BY DEF Iterations, Visited
  <2>14. /\ u.seen \in Seq(Nat) /\ Len(u.seen) = i + 1 /\ u.seen[i + 1] = k
         /\ \A j \in 1..i : u.seen[j] = st.seen[j]
    BY <1>7, <2>12, <2>13
  <2>15. \A j \in 1..(i + 1) : u.seen[j] = h0.node[A[L - j + 1]].key_
    <3> TAKE j \in 1..(i + 1)
    <3>1. CASE j = i + 1
      <4>1. L - j + 1 = L - i
        BY <1>1, <3>1
      <4> QED BY <2>3, <2>14, <3>1, <4>1 DEF n
    <3>2. CASE j # i + 1
      <4>1. j \in 1..i
        BY <1>1, <3>2
      <4> QED BY <2>13, <2>14, <4>1
    <3> QED BY <3>1, <3>2
  <2>16. SameKeys(u.h, h0)
    BY <1>4, <2>10, <2>12 DEF OnlyAdd, SameKeys
  <2>17. \E B2, F2, C2, G2 : Shape(u.h, Rotated(A, i + 1), B2, F2, C2, G2)
    BY <2>10, <2>11, <2>12
  <2>18. u \in Iterations
    <3>1. u.h \in PoolRec
      BY <2>17, ShapeFacts
    <3> QED BY <2>12, <2>14, <3>1 DEF Iterations
  <2> QED BY <2>3, <2>5, <2>14, <2>15, <2>16, <2>17, <2>18 DEF Visited, n
<1> QED BY <1>7, <1>8, <1>9

\* One turn of the iterator's loop.
LEMMA IterTurn ==
    ASSUME NEW h0, NEW A, NEW B, NEW F, NEW C, NEW G, Shape(h0, A, B, F, C, G), Len(A) # 0, NEW i \in Nat,
           NEW st \in Iterations, IterAt(st, h0, A, i), NEW first, first = h0.node[A[Len(A)]].key_,
           NEW v, v = iter_turn(st, first)
    PROVE  v \in Iterations /\ IterAt(v, h0, A, i + 1)
<1> DEFINE L == Len(A)
<1> DEFINE k == st.h.node[st.h.add_tail_].key_
<1> DEFINE u == [h |-> get_for_iteration(st.h, k).h, seen |-> Append(st.seen, k), done |-> FALSE]
<1>1. L \in Nat
    BY AddListIs
<1>2. v = IF st.done THEN st ELSE IF st.seen # <<>> /\ k = first THEN [st EXCEPT !.done = TRUE] ELSE u
    BY DEF iter_turn
<1>3. CASE i > L
  <2>1. st.done /\ Visited(st, h0, A, L) /\ v = st
    BY <1>2, <1>3 DEF IterAt
  <2>2. i + 1 > L /\ ~(i + 1 <= L)
    BY <1>1, <1>3
  <2> HIDE DEF L
  <2> QED BY <2>1, <2>2 DEF IterAt, L
<1>4. CASE i <= L
  <2>1. ~st.done /\ Visited(st, h0, A, i) /\ i \in 0..L
    BY <1>1, <1>4 DEF IterAt
  <2>2. k = st.h.node[st.h.add_tail_].key_
        /\ u = [h |-> get_for_iteration(st.h, k).h, seen |-> Append(st.seen, k), done |-> FALSE]
    OBVIOUS
  <2> HIDE DEF k, u
  <2>3. /\ k \in Nat
        /\ i = L => k = first
        /\ i < L => /\ (i # 0 => k # first)
                    /\ u \in Iterations /\ Visited(u, h0, A, i + 1)
    BY <2>1, <2>2, VisitOne
  <2>4. st.seen = <<>> <=> i = 0
    <3>1. st.seen \in Seq(Nat) /\ Len(st.seen) = i
      BY <2>1 DEF Visited, Iterations
    <3> QED BY <3>1
  <2>5. CASE i = L
    <3>1. v = [st EXCEPT !.done = TRUE]
      BY <1>2, <2>1, <2>3, <2>4, <2>5
    <3>2. v \in Iterations /\ v.h = st.h /\ v.seen = st.seen /\ v.done = TRUE
      BY <3>1 DEF Iterations
    <3>3. Visited(v, h0, A, L)
      BY <2>1, <2>5, <3>2 DEF Visited
    <3>4. i + 1 > L /\ ~(i + 1 <= L)
      BY <1>1, <2>5
    <3> QED BY <3>2, <3>3, <3>4 DEF IterAt
  <2>6. CASE i # L
    <3>1. i < L /\ i + 1 <= L /\ ~(i + 1 > L)
      BY <1>1, <1>4, <2>6
    <3>2. v = u
      BY <1>2, <2>1, <2>3, <2>4, <3>1
    <3>3. v \in Iterations /\ Visited(v, h0, A, i + 1) /\ v.done = FALSE
      BY <2>2, <2>3, <3>1, <3>2
    <3> QED BY <3>1, <3>3 DEF IterAt
  <2> QED BY <2>5, <2>6
<1> QED BY <1>1, <1>3, <1>4

\* The iterator ends, has seen every key, oldest first, and leaves the order as it was.
LEMMA IterLoop ==
    ASSUME NEW h, NEW A, NEW B, NEW F, NEW C, NEW G, Shape(h, A, B, F, C, G), Len(A) # 0,
           NEW z, z = iterate(h)
    PROVE  z.done /\ z.seen \in Seq(Nat) /\ Visited(z, h, A, Len(A))
<1> DEFINE N == NodeTotal + 1
<1> DEFINE first == h.node[h.add_tail_].key_
<1> DEFINE b == [h |-> h, seen |-> <<>>, done |-> FALSE]
<1> DEFINE Body(w, i) == IF i = 0 THEN b ELSE iter_turn(w[i - 1], first)
<1> DEFINE w0 == CHOOSE w : w = [i \in 0..N |-> Body(w, i)]
<1> DEFINE V == [i \in 0..N |-> {st \in Iterations : IterAt(st, h, A, i)}]
<1> DEFINE K == [x \in (1..N) \X Iterations |-> iter_turn(x[2], first)]
<1>0. N \in Nat /\ NodeTotal \in Nat /\ Len(A) \in Nat /\ Len(A) < N /\ N \in 0..N
  <2>1. NodeTotal \in Nat
    BY Sets
  <2>2. Len(A) \in Nat /\ Len(A) <= NodeTotal
    BY AddListIs
  <2> QED BY <2>1, <2>2
<1>a. A \in Seq(Nodes) /\ h \in PoolRec /\ AddShape(h, A)
    BY AddListIs, ShapeFacts
<1>b. h.add_tail_ = A[Len(A)] /\ A[Len(A)] \in Nodes /\ h.add_tail_ # Nil
  <2>1. A[Len(A)] \in Nodes
    BY <1>0, <1>a
  <2> QED BY <1>0, <1>a, <2>1, Sets DEF AddShape, End
<1>c. first = h.node[A[Len(A)]].key_
    BY <1>b
<1>1. z = w0[N]
  <2>1. iterate(h) = w0[N]
    BY <1>b DEF iterate, iter_turn
  <2> QED BY <2>1
<1>2. b \in V[0]
  <2>1. b \in Iterations /\ b.h = h /\ b.seen = <<>> /\ b.done = FALSE
    BY <1>a DEF Iterations
  <2>2. Rotated(A, 0) = A
    BY <1>a, RotatedEnds
  <2>3. SameKeys(h, h) /\ 0 \in 0..N /\ 0 <= Len(A) /\ ~(0 > Len(A))
    BY <1>0 DEF SameKeys
  <2>4. Len(b.seen) = 0 /\ \A j \in 1..0 : b.seen[j] = h.node[A[Len(A) - j + 1]].key_
    BY <2>1
  <2> HIDE DEF b, N
  <2>5. \E B2, F2, C2, G2 : Shape(b.h, Rotated(A, 0), B2, F2, C2, G2)
    BY <2>1, <2>2
  <2>6. Visited(b, h, A, 0)
    BY <2>1, <2>3, <2>4, <2>5 DEF Visited
  <2>7. IterAt(b, h, A, 0)
    BY <2>1, <2>3, <2>6 DEF IterAt
  <2> QED BY <2>1, <2>3, <2>7
<1> HIDE DEF N, b, first
<1>3. ASSUME NEW i \in 1..N, NEW st \in V[i - 1]
      PROVE  st \in Iterations /\ iter_turn(st, first) \in V[i]
  <2> DEFINE p == i - 1
  <2>1. p \in 0..N /\ i \in 0..N /\ p \in Nat /\ p + 1 = i
    BY <1>0
  <2>2. st \in Iterations /\ IterAt(st, h, A, p)
    BY <2>1
  <2> DEFINE v == iter_turn(st, first)
  <2> HIDE DEF p, v
  <2>3. v \in Iterations /\ IterAt(v, h, A, p + 1)
    BY <1>c, <2>1, <2>2, IterTurn DEF v
  <2>4. v \in V[i]
    BY <2>1, <2>3
  <2> QED BY <2>2, <2>4 DEF v
<1>4. \A i \in 1..N, st \in Iterations : K[<<i, st>>] = iter_turn(st, first)
    OBVIOUS
<1>5. ASSUME NEW st \in V[N] PROVE st.done /\ st.seen \in Seq(Nat) /\ Visited(st, h, A, Len(A))
  <2>1. st \in Iterations /\ IterAt(st, h, A, N)
    BY <1>0
  <2>2. N > Len(A)
    BY <1>0
  <2> QED BY <2>1, <2>2 DEF IterAt, Iterations
<1> HIDE DEF V, K
<1>6. TurnLeads(K, N, b, V)
    BY <1>2, <1>3, <1>4 DEF TurnLeads
<1>7. PICK f : TurnsOf(f, K, N, b, V)
    BY <1>0, <1>6, TurnsExist
<1>8. f = [i \in 0..N |-> Body(f, i)]
  <2>1. ASSUME NEW i \in 0..N PROVE f[i] = Body(f, i)
    <3>1. CASE i = 0
      BY <1>7, <3>1 DEF TurnsOf
    <3>2. CASE i # 0
      <4>1. i \in 1..N /\ i - 1 \in 0..N
        BY <1>0, <3>2
      <4>2. f[i - 1] \in V[i - 1] /\ f[i] = K[<<i, f[i - 1]>>]
        BY <1>7, <3>2, <4>1 DEF TurnsOf
      <4>3. f[i - 1] \in Iterations
        BY <1>3, <4>1, <4>2
      <4>4. f[i] = iter_turn(f[i - 1], first)
        BY <1>4, <4>1, <4>2, <4>3
      <4> QED BY <3>2, <4>4
    <3> QED BY <3>1, <3>2
  <2>2. f = [i \in 0..N |-> f[i]]
    BY <1>7 DEF TurnsOf
  <2> HIDE DEF Body
  <2> QED BY <2>1, <2>2
<1>9. w0 = [i \in 0..N |-> Body(w0, i)]
  <2> HIDE DEF Body
  <2> QED BY <1>8, Zenon
<1> HIDE DEF w0
<1>10. \A i \in 0..N : w0[i] = Body(w0, i)
  <2> HIDE DEF Body
  <2> QED BY <1>9
<1>11. \A i \in 0..N : w0[i] \in V[i]
  <2>1. w0[0] \in V[0]
    BY <1>0, <1>2, <1>10
  <2>2. ASSUME NEW i \in 1..N, w0[i - 1] \in V[i - 1] PROVE w0[i] \in V[i]
    <3>1. i \in 0..N /\ i # 0
      BY <1>0
    <3>2. w0[i] = iter_turn(w0[i - 1], first)
      BY <1>10, <3>1
    <3> QED BY <1>3, <2>2, <3>2
  <2> QED BY <1>0, <2>1, <2>2, TurnsKeep
<1>12. w0[N] \in V[N]
    BY <1>0, <1>11
<1> QED BY <1>1, <1>5, <1>12

\* Reversing a sequence.
LEMMA ReverseIs ==
    ASSUME NEW s, NEW L \in Nat, Len(s) = L
    PROVE  Reverse(s) = [j \in 1..L |-> s[(L - j) + 1]]
BY DEF Reverse

\* The iterator visits every entry once: the oldest first.
LEMMA IterFollows ==
    ASSUME WF(cache)
    PROVE  IterationVisitsAllOnce
<1>1. PICK A, B, F, C, G : Shape(cache, A, B, F, C, G)
    BY DEF WF
<1> DEFINE z == iterate(cache)
<1> DEFINE keys == [i \in DOMAIN A |-> cache.node[A[i]].key_]
<1>2. AddList(cache) = A /\ A \in Seq(Nodes) /\ Len(A) \in Nat /\ AddShape(cache, A)
    BY <1>1, AddListIs, ShapeFacts
<1>3. DOMAIN A = 1..Len(A)
    BY <1>2
<1>4. Len(keys) = Len(A) /\ \A i \in 1..Len(A) : keys[i] = cache.node[A[i]].key_
    BY <1>2, <1>3
<1> HIDE DEF keys
<1>5. Reverse(keys) = [j \in 1..Len(A) |-> keys[(Len(A) - j) + 1]]
    BY <1>2, <1>4, ReverseIs
<1>6. z.done /\ z.seen = Reverse(keys) /\ AddList(z.h) = A
  <2>1. CASE Len(A) = 0
    <3>1. cache.add_tail_ = Nil
      BY <1>2, <2>1 DEF AddShape, End
    <3>2. z = [h |-> cache, seen |-> <<>>, done |-> TRUE]
      BY <3>1 DEF iterate
    <3>3. Reverse(keys) = <<>>
      BY <1>5, <2>1
    <3> QED BY <1>2, <3>2, <3>3
  <2>2. CASE Len(A) # 0
    <3>0. z = iterate(cache)
      OBVIOUS
    <3> HIDE DEF z
    <3>1. z.done /\ z.seen \in Seq(Nat) /\ Visited(z, cache, A, Len(A))
      BY <1>1, <2>2, <3>0, IterLoop
    <3>2. /\ Len(z.seen) = Len(A)
          /\ \A j \in 1..Len(A) : z.seen[j] = cache.node[A[Len(A) - j + 1]].key_
      BY <3>1 DEF Visited
    <3>3. PICK B2, F2, C2, G2 : Shape(z.h, Rotated(A, Len(A)), B2, F2, C2, G2)
      BY <3>1 DEF Visited
    <3>4. Rotated(A, Len(A)) = A
      BY <1>2, RotatedEnds
    <3>5. Shape(z.h, A, B2, F2, C2, G2)
      BY <3>3, <3>4
    <3>6. AddList(z.h) = A
      BY <3>5, AddListIs
    <3>7. \A j \in 1..Len(A) : z.seen[j] = keys[(Len(A) - j) + 1]
      <4> TAKE j \in 1..Len(A)
      <4>1. (Len(A) - j) + 1 \in 1..Len(A)
        BY <1>2
      <4> QED BY <1>4, <3>2, <4>1
    <3>8. z.seen = [j \in 1..Len(A) |-> z.seen[j]]
      BY <3>1, <3>2
    <3>9. z.seen = [j \in 1..Len(A) |-> keys[(Len(A) - j) + 1]]
      BY <3>7, <3>8
    <3> QED BY <1>5, <3>1, <3>6, <3>9
  <2> QED BY <2>1, <2>2
<1> QED BY <1>2, <1>6 DEF IterationVisitsAllOnce, keys

-----------------------------------------------------------------------------
(* The properties hold in every reachable state.                           *)

\* Handles and fields stay in their ranges under every operation.
THEOREM TypeCorrect == Spec => []TypeOK
BY PoolWellFormed, TypeFollows, PTL

\* No sequence of operations breaks the add list, a bucket's list or the free list of nodes.
THEOREM NodesAlwaysPartitioned == Spec => []NodesPartitioned
BY PoolWellFormed, NodesFollow, PTL

\* No sequence of operations leaks a chunk, frees one twice or lets two values share one.
THEOREM ChunksAlwaysPartitioned == Spec => []ChunksPartitioned
BY PoolWellFormed, ChunksFollow, PTL

\* Every pool that complete operations leave behind passes the checks of open().
THEOREM PoolAlwaysVerifies == Spec => []CompletePoolVerifies
BY PoolWellFormed, VerifyFollows, PTL

\* mark_clean(modbase, mobres) always ends, although it moves the node its
\* iterator stands on, and leaves no selected entry dirty.
THEOREM BulkMarkCleanAlwaysCompletes == Spec => []BulkMarkCleanCompletes
BY PoolWellFormed, MarkCleanFollows, PTL

\* core_dump_mem never misses a dirty entry and never writes one twice.
THEOREM DumpAlwaysKeepsDirtyData == Spec => []DumpKeepsDirtyData
BY PoolWellFormed, DumpFollows, PTL

\* The iterator of TfcShmMap always ends, having visited every entry once,
\* oldest first, and leaves the order as it found it.
THEOREM IterationAlwaysVisitsAllOnce == Spec => []IterationVisitsAllOnce
BY PoolWellFormed, IterFollows, PTL

\* set() refuses exactly what does not fit.  An empty value is left out: the
\* code refuses it for a new key, and callers store none; finitely many keys
\* is what makes the "one more" of the property a key.
THEOREM SetAlwaysFits ==
    ASSUME IsFiniteSet(Keys), \A v \in Values : v # <<>>
    PROVE  Spec => []SetRefusesOnlyWhatDoesNotFit
<1>1. WF(cache) => SetRefusesOnlyWhatDoesNotFit
    BY FitsFollows
<1> QED BY <1>1, PoolWellFormed, PTL
=============================================================================
