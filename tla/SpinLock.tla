------------------------------ MODULE SpinLock ------------------------------
(***************************************************************************)
(* The byte spin lock of tfc_spin_lock.h, the LockPolicy TfcShmMapLock.    *)
(* slock is 1 when free.  A thread takes the lock by decrementing the byte *)
(* and looking at the sign of the result; one that finds it negative reads *)
(* the byte until it is positive and tries again.  Unlocking stores 1.     *)
(*                                                                         *)
(* The byte is signed and wraps around: Half is 2^7 in the code.  Every    *)
(* waiting thread may have decremented it once, so that one holder and     *)
(* Half waiters are the most that the byte can tell apart.                 *)
(***************************************************************************)
EXTENDS Integers, FiniteSets

CONSTANTS
    Threads,    \* the threads that use the lock
    Half        \* slock ranges over -Half .. Half - 1

ASSUME ThreadsAssumption == IsFiniteSet(Threads)
ASSUME HalfAssumption == Half \in Nat /\ Half > 1
ASSUME ThreadsFit == Cardinality(Threads) <= Half + 1

VARIABLES
    slock,      \* the lock's byte
    pc          \* where each thread is

vars == <<slock, pc>>

\* "dec" is label 1 of __raw_spin_lock_string, "spin" label 2, "held" label 3.
Pcs == {"out", "dec", "spin", "held"}

TypeOK ==
    /\ slock \in (-Half)..(Half - 1)
    /\ pc \in [Threads -> Pcs]

\* spin_lock_init
Init ==
    /\ slock = 1
    /\ pc = [t \in Threads |-> "out"]

\* The value decb leaves.
Dec(v) == IF v = -Half THEN Half - 1 ELSE v - 1

\* A thread calls spin_lock.
Call(t) ==
    /\ pc[t] = "out"
    /\ pc' = [pc EXCEPT ![t] = "dec"]
    /\ UNCHANGED slock

\* lock; decb; jns 3f: one atomic instruction, its sign decides.
Decrement(t) ==
    /\ pc[t] = "dec"
    /\ slock' = Dec(slock)
    /\ pc' = [pc EXCEPT ![t] = IF slock' >= 0 THEN "held" ELSE "spin"]

\* Wrong variant: a waiter tries again without looking at the byte.
SpinBlindly(t) ==
    /\ pc[t] = "spin"
    /\ pc' = [pc EXCEPT ![t] = "dec"]
    /\ UNCHANGED slock

\* cmpb $0; jle 2b; jmp 1b: leave the loop once the byte is positive.
Spin(t) ==
    /\ pc[t] = "spin"
    /\ slock > 0
    /\ pc' = [pc EXCEPT ![t] = "dec"]
    /\ UNCHANGED slock

\* Wrong variant: the byte is incremented, which a waiter's decrement undoes.
UnlockIncrements(t) ==
    /\ pc[t] = "held"
    /\ slock' = slock + 1
    /\ pc' = [pc EXCEPT ![t] = "out"]

\* movb $1
Unlock(t) ==
    /\ pc[t] = "held"
    /\ slock' = 1
    /\ pc' = [pc EXCEPT ![t] = "out"]

Next == \E t \in Threads : Call(t) \/ Decrement(t) \/ Spin(t) \/ Unlock(t)

Spec == Init /\ [][Next]_vars

\* A thread that is scheduled goes on; nothing makes it call spin_lock again.
Fairness == \A t \in Threads : WF_vars(Decrement(t) \/ Spin(t) \/ Unlock(t))

FairSpec == Spec /\ Fairness

-----------------------------------------------------------------------------
Holders == {t \in Threads : pc[t] = "held"}
Waiters == {t \in Threads : pc[t] = "spin"}

\* At most one thread is between spin_lock and spin_unlock, although waiters go
\* on decrementing the byte while it is held.
MutualExclusion == \A t, u \in Holders : t = u

\* The byte is 1 when the lock is free; while it is held the byte is at most 0
\* and no further below 0 than there are waiters, so that it never wraps around.
ByteCountsWaiters ==
    IF Holders = {} THEN slock = 1
                    ELSE slock <= 0 /\ -slock <= Cardinality(Waiters)

\* The lock is never lost: whenever some thread waits for it, some thread gets
\* it, although unlocking forgets the decrements of those that wait.
WaitersNotForgotten == Waiters # {} ~> Holders # {}
=============================================================================
