-------------------------- MODULE SpinLock_proofs --------------------------
(***************************************************************************)
(* Mutual exclusion of the byte spin lock for every width of the byte and  *)
(* every number of threads up to Half + 1 (129 for the code's byte).       *)
(* MutualExclusion alone is not inductive: a decrement keeps it only       *)
(* because the byte of a held lock is not positive and does not wrap,      *)
(* which follows from ByteCountsWaiters and from there being at most Half  *)
(* threads besides the holder.                                             *)
(***************************************************************************)
EXTENDS SpinLock, FiniteSetTheorems, TLAPS

Inv == TypeOK /\ MutualExclusion /\ ByteCountsWaiters

-----------------------------------------------------------------------------
\* The waiters are a finite set of at most Half threads when another thread
\* holds the lock or is about to decrement the byte.
LEMMA WaitersBounded ==
    ASSUME NEW S \in SUBSET Threads, NEW t \in Threads, t \notin S
    PROVE  /\ IsFiniteSet(S)
           /\ Cardinality(S) \in Nat
           /\ Cardinality(S) <= Half
<1>1. IsFiniteSet(S) /\ Cardinality(S) \in Nat
    BY ThreadsAssumption, FS_Subset, FS_CardinalityType
<1>2. IsFiniteSet(S \cup {t}) /\ Cardinality(S \cup {t}) = Cardinality(S) + 1
    BY <1>1, FS_AddElement
<1>3. Cardinality(S \cup {t}) <= Cardinality(Threads) /\ Cardinality(Threads) \in Nat
    BY ThreadsAssumption, FS_Subset, FS_CardinalityType
<1> QED
    BY <1>1, <1>2, <1>3, ThreadsFit, HalfAssumption

\* The lock is free once spin_lock_init has run.
LEMMA InitInv == Init => Inv
    BY HalfAssumption
    DEF Init, Inv, TypeOK, Pcs, MutualExclusion, ByteCountsWaiters, Holders

\* A call of spin_lock changes neither holders nor waiters.
LEMMA CallInv == ASSUME NEW t \in Threads, Inv, Call(t) PROVE Inv'
<1>1. Holders' = Holders /\ Waiters' = Waiters /\ slock' = slock /\ TypeOK'
    BY DEF Inv, TypeOK, Pcs, Call, Holders, Waiters
<1> QED
    BY <1>1 DEF Inv, MutualExclusion, ByteCountsWaiters

\* A decrement takes a free lock, or counts one more waiter of a held one.
LEMMA DecrementInv == ASSUME NEW t \in Threads, Inv, Decrement(t) PROVE Inv'
<1> USE HalfAssumption DEF Inv, TypeOK
<1>1. /\ pc[t] = "dec" /\ t \notin Holders /\ t \notin Waiters
      /\ slock' = Dec(slock)
    BY DEF Decrement, Holders, Waiters
<1>2. CASE Holders = {}
  <2>1. slock = 1 /\ slock' = 0
      BY <1>1, <1>2 DEF ByteCountsWaiters, Dec
  <2>2. pc' = [pc EXCEPT ![t] = "held"]
    <3>1. slock' >= 0
        BY <2>1
    <3> QED
        BY <3>1, Zenon DEF Decrement
  <2>3. Holders' = {t} /\ Waiters' = Waiters
      BY <1>1, <1>2, <2>2 DEF Holders, Waiters
  <2>4. Cardinality(Waiters) \in Nat
      BY <1>1, WaitersBounded DEF Waiters
  <2>5. TypeOK'
      BY <2>1, <2>2 DEF Pcs
  <2> QED
      BY <2>1, <2>3, <2>4, <2>5 DEF MutualExclusion, ByteCountsWaiters
<1>3. CASE Holders # {}
  <2>1. PICK h \in Holders : TRUE
      BY <1>3
  <2>2. h \in Threads /\ h \notin Waiters \cup {t} /\ Waiters \cup {t} \subseteq Threads
      BY <1>1, <2>1 DEF Holders, Waiters
  <2>3. /\ IsFiniteSet(Waiters) /\ Cardinality(Waiters) \in Nat
        /\ Cardinality(Waiters \cup {t}) = Cardinality(Waiters) + 1
        /\ Cardinality(Waiters \cup {t}) <= Half
    <3>1. IsFiniteSet(Waiters) /\ Cardinality(Waiters) \in Nat
        BY <2>2, WaitersBounded
    <3>2. Cardinality(Waiters \cup {t}) <= Half
        BY <2>2, WaitersBounded
    <3>3. Cardinality(Waiters \cup {t}) = Cardinality(Waiters) + 1
        BY <1>1, <3>1, FS_AddElement
    <3> QED
        BY <3>1, <3>2, <3>3
  <2>4. slock <= 0 /\ -slock <= Cardinality(Waiters)
      BY <1>3 DEF ByteCountsWaiters
  <2>5. slock' = slock - 1 /\ slock' < 0 /\ slock' \in (-Half)..(Half - 1)
      BY <1>1, <2>3, <2>4 DEF Dec
  <2>6. pc' = [pc EXCEPT ![t] = "spin"]
    <3>1. ~(slock' >= 0)
        BY <2>5
    <3> QED
        BY <3>1, Zenon DEF Decrement
  <2>7. Holders' = Holders /\ Waiters' = Waiters \cup {t}
      BY <1>1, <2>6 DEF Holders, Waiters
  <2>8. TypeOK'
      BY <2>5, <2>6 DEF Pcs
  <2>9. ByteCountsWaiters'
      BY <1>3, <2>3, <2>4, <2>5, <2>7 DEF ByteCountsWaiters
  <2> QED
      BY <2>7, <2>8, <2>9 DEF MutualExclusion
<1> QED
    BY <1>2, <1>3

\* A waiter leaves the loop only when the lock is free, when no count matters.
LEMMA SpinInv == ASSUME NEW t \in Threads, Inv, Spin(t) PROVE Inv'
<1>1. Holders' = Holders /\ slock' = slock /\ slock > 0 /\ TypeOK'
    BY DEF Inv, TypeOK, Pcs, Spin, Holders
<1>2. Holders = {}
    BY <1>1 DEF Inv, TypeOK, ByteCountsWaiters
<1> QED
    BY <1>1, <1>2 DEF Inv, MutualExclusion, ByteCountsWaiters

\* Unlocking leaves no holder and the byte at 1.
LEMMA UnlockInv == ASSUME NEW t \in Threads, Inv, Unlock(t) PROVE Inv'
<1>1. t \in Holders /\ Holders = {t}
    BY DEF Inv, Unlock, Holders, MutualExclusion
<1>2. Holders' = {} /\ slock' = 1
    BY <1>1 DEF Inv, TypeOK, Unlock, Holders
<1>3. TypeOK'
    BY HalfAssumption DEF Inv, TypeOK, Pcs, Unlock
<1> QED
    BY <1>2, <1>3 DEF Inv, MutualExclusion, ByteCountsWaiters

-----------------------------------------------------------------------------
\* The invariant holds of every reachable state of the lock.
THEOREM Invariance == Spec => []Inv
<1>1. Inv /\ [Next]_vars => Inv'
  <2> SUFFICES ASSUME Inv, [Next]_vars PROVE Inv'
      OBVIOUS
  <2>1. CASE Next
      BY <2>1, CallInv, DecrementInv, SpinInv, UnlockInv DEF Next
  <2>2. CASE UNCHANGED vars
      BY <2>2 DEF vars, Inv, TypeOK, MutualExclusion, ByteCountsWaiters, Holders, Waiters
  <2> QED
      BY <2>1, <2>2
<1> QED
    BY InitInv, <1>1, PTL DEF Spec

\* The byte stays a byte and every thread at one of the four labels.
THEOREM TypeCorrect == Spec => []TypeOK
<1>1. Inv => TypeOK
    BY DEF Inv
<1> QED
    BY Invariance, <1>1, PTL

\* spin_lock admits one thread at a time as long as at most Half + 1 threads
\* use the lock.
THEOREM Exclusion == Spec => []MutualExclusion
<1>1. Inv => MutualExclusion
    BY DEF Inv
<1> QED
    BY Invariance, <1>1, PTL

\* The byte of a held lock counts waiters and never wraps around.
THEOREM NoWrap == Spec => []ByteCountsWaiters
<1>1. Inv => ByteCountsWaiters
    BY DEF Inv
<1> QED
    BY Invariance, <1>1, PTL
=============================================================================
