------------------------ MODULE SpinLockInit_proofs ------------------------
(***************************************************************************)
(* Safety of shm_spin_lock_init for every set of processes, every request  *)
(* for locks and any number of segments and ends.  The invariant:          *)
(*   TypeInv    types, and a process past shmget has a segment;            *)
(*   KeyInv     the segment that the key names is the only one that is not *)
(*              removed;                                                   *)
(*   AloneInv   what the history variable alone promises;                  *)
(*   FreeInv    a segment somebody may still attach reads as held only if  *)
(*              somebody has the lock, is bound to initialise it, or died; *)
(*   ShareInv   without the two races: who is attached is attached to the  *)
(*              key's segment, and while the lock is held nobody is going  *)
(*              to initialise it.                                          *)
(* The properties themselves are not inductive: a process that is still    *)
(* attaching must be known to leave the lock alone once another has it.    *)
(***************************************************************************)
EXTENDS SpinLockInit, FiniteSetTheorems, SequenceTheorems, TLAPS

Pcs == {"start", "open", "probe", "statold", "rmid", "recreate", "null",
        "attach", "stat", "init", "ready", "held"}
AttachedPcs == {"stat", "init", "ready", "held"}
Segment == [size : Nat, slock : {0, 1}, removed : BOOLEAN]

TypeInv ==
    /\ segs \in Seq(Segment)
    /\ key \in 0..Len(segs)
    /\ pc \in [Procs -> Pcs]
    /\ id \in [Procs -> 0..Len(segs)]
    /\ first \in [Procs -> BOOLEAN]
    /\ alone \in [Procs -> BOOLEAN]
    /\ raced \in BOOLEAN
    /\ \A p \in Procs : pc[p] \in {"statold", "rmid", "attach"} \cup AttachedPcs => id[p] # 0

KeyInv == \A s \in 1..Len(segs) : segs[s].removed <=> s # key

AloneInv ==
    \A p, q \in Procs :
        pc[p] \in AttachedPcs /\ alone[p] /\ pc[q] \in AttachedPcs /\ id[q] = id[p] => p = q

\* p is going to execute spin_lock_init, unless it ends or its segment is gone.
BoundToInit(p) == pc[p] = "init" \/ (pc[p] \in {"attach", "stat"} /\ first[p])

\* Why the lock can be taken, or cannot yet.
Explained(s) ==
    \/ segs[s].slock = 1 \/ s \in orphan
    \/ \E q \in Procs : id[q] = s /\ (pc[q] = "held" \/ BoundToInit(q))

FreeInv == \A s \in 1..Len(segs) : Gone(s) \/ Explained(s)

ShareInv ==
    ~raced =>
      /\ \A p \in Procs : pc[p] \in AttachedPcs => id[p] = key
      /\ \A p \in Procs : pc[p] = "held" =>
           /\ segs[id[p]].slock = 0
           /\ \A q \in Procs : q # p /\ id[q] = id[p] => pc[q] # "held" /\ ~BoundToInit(q)

Inv == TypeInv /\ KeyInv /\ AloneInv /\ FreeInv /\ ShareInv

-----------------------------------------------------------------------------
\* What the steps that write the table of segments do to it, entry by entry.
Created(p) ==
    /\ key = 0 /\ key' = Len(segs) + 1
    /\ segs' \in Seq(Segment) /\ Len(segs') = Len(segs) + 1
    /\ \A s \in 1..Len(segs) : segs'[s] = segs[s]
    /\ segs'[Len(segs) + 1].slock = 0 /\ ~segs'[Len(segs) + 1].removed
    /\ pc' = [pc EXCEPT ![p] = "attach"]
    /\ id' = [id EXCEPT ![p] = Len(segs) + 1]
    /\ first' = [first EXCEPT ![p] = TRUE]
    /\ UNCHANGED <<raced, alone, orphan>>

Stored(i, v) ==
    /\ segs' \in Seq(Segment) /\ Len(segs') = Len(segs)
    /\ segs'[i].slock = v /\ segs'[i].removed = segs[i].removed
    /\ \A s \in 1..Len(segs) : s # i => segs'[s] = segs[s]

Marked(p) ==
    /\ segs' \in Seq(Segment) /\ Len(segs') = Len(segs)
    /\ segs'[id[p]].removed /\ segs'[id[p]].slock = segs[id[p]].slock
    /\ \A s \in 1..Len(segs) : s # id[p] => segs'[s] = segs[s]
    /\ key' = IF key = id[p] THEN 0 ELSE key
    /\ raced' \in BOOLEAN /\ (~raced' => ~raced /\ Attached(id[p]) = {})
    /\ pc' = [pc EXCEPT ![p] = "recreate"]
    /\ UNCHANGED <<id, first, alone, orphan>>

\* shmget that creates: a zero segment at the end of the table, named by the key.
LEMMA NewSegmentFacts ==
    ASSUME TypeInv, NEW p \in Procs, NewSegment(p)
    PROVE  Created(p)
<1> DEFINE r == [size |-> Size[p], slock |-> 0, removed |-> FALSE]
<1>1. r \in Segment
    BY SpinLockInitAssumption DEF Segment
<1>2. segs' = Append(segs, r) /\ segs \in Seq(Segment)
    BY DEF NewSegment, TypeInv
<1>3. /\ segs' \in Seq(Segment) /\ Len(segs') = Len(segs) + 1
      /\ \A s \in 1..Len(segs) : segs'[s] = segs[s]
      /\ segs'[Len(segs) + 1] = r
    BY <1>1, <1>2
<1> QED
    BY <1>3 DEF NewSegment, Goto, Created

\* A table of segments with one entry replaced.
LEMMA StoreFacts ==
    ASSUME NEW t \in Seq(Segment), NEW i \in 1..Len(t), NEW r \in Segment,
           NEW u, u = [t EXCEPT ![i] = r]
    PROVE  /\ u \in Seq(Segment) /\ Len(u) = Len(t)
           /\ u[i] = r
           /\ \A s \in 1..Len(t) : s # i => u[s] = t[s]
    BY ExceptSeq

\* spin_lock, spin_unlock and spin_lock_init store one byte of one segment.
LEMMA SlockFacts ==
    ASSUME TypeInv, NEW i \in 1..Len(segs), NEW v \in {0, 1},
           segs' = [segs EXCEPT ![i].slock = v]
    PROVE  Stored(i, v)
<1>1. segs \in Seq(Segment) /\ segs[i] \in Segment
    BY DEF TypeInv
<1>2. PICK r \in Segment : /\ segs' = [segs EXCEPT ![i] = r]
                           /\ r.slock = v /\ r.removed = segs[i].removed
  <2>1. [segs[i] EXCEPT !.slock = v] \in Segment
      BY <1>1 DEF Segment
  <2> QED
      BY <1>1, <2>1 DEF Segment
<1>3. /\ segs' \in Seq(Segment) /\ Len(segs') = Len(segs)
      /\ segs'[i] = r
      /\ \A s \in 1..Len(segs) : s # i => segs'[s] = segs[s]
    BY ONLY <1>1, <1>2, StoreFacts, i \in 1..Len(segs)
<1> QED
    BY <1>1, <1>2, <1>3 DEF Stored

\* IPC_RMID marks one segment.
LEMMA RemovedFacts ==
    ASSUME TypeInv, NEW p \in Procs, Remove(p), ~Gone(id[p])
    PROVE  Marked(p)
<1> DEFINE i == id[p]
<1>1. i \in 1..Len(segs) /\ segs \in Seq(Segment) /\ segs[i] \in Segment
    BY DEF TypeInv, Remove
<1>2. PICK r \in Segment : /\ segs' = [segs EXCEPT ![i] = r]
                           /\ r.removed = TRUE /\ r.slock = segs[i].slock
  <2>1. [segs[i] EXCEPT !.removed = TRUE] \in Segment
      BY <1>1 DEF Segment
  <2>2. segs' = [segs EXCEPT ![i].removed = TRUE]
      BY DEF Remove
  <2> QED
      BY <1>1, <2>1, <2>2 DEF Segment
<1>3. /\ segs' \in Seq(Segment) /\ Len(segs') = Len(segs)
      /\ segs'[i] = r
      /\ \A s \in 1..Len(segs) : s # i => segs'[s] = segs[s]
    BY ONLY <1>1, <1>2, StoreFacts
<1>4. raced' = (raced \/ Attached(id[p]) # {})
    BY DEF Remove
<1>5. raced' \in BOOLEAN /\ (~raced' => ~raced /\ Attached(id[p]) = {})
    BY <1>4, Zenon DEF TypeInv
<1>6. /\ key' = IF key = id[p] THEN 0 ELSE key
      /\ pc' = [pc EXCEPT ![p] = "recreate"]
      /\ UNCHANGED <<id, first, alone, orphan>>
    BY DEF Remove, Goto
<1> QED
    BY <1>1, <1>2, <1>3, <1>5, <1>6 DEF Marked

\* IPC_STAT counts one attachment exactly when the process is the only one.
LEMMA NattchOne ==
    ASSUME NEW p \in Procs, pc[p] = "stat"
    PROVE  nattch(id[p]) = 1 <=> \A q \in Procs : pc[q] \in AttachedPcs /\ id[q] = id[p] => q = p
<1> DEFINE A == Attached(id[p])
<1>1. A \subseteq Procs /\ p \in A
    BY DEF Attached
<1>2. IsFiniteSet(A)
    BY <1>1, FS_Subset, SpinLockInitAssumption
<1>3. Cardinality(A) = 1 <=> \E x : A = {x}
    BY <1>2, FS_Singleton
<1>4. (\E x : A = {x}) <=> A = {p}
    BY <1>1
<1>5. A = {p} <=> \A q \in Procs : pc[q] \in AttachedPcs /\ id[q] = id[p] => q = p
    BY <1>1 DEF Attached, AttachedPcs
<1> QED
    BY <1>3, <1>4, <1>5 DEF nattch

\* shmget with IPC_CREAT and IPC_EXCL that finds the key in use.
Refused(p) ==
    /\ key # 0
    /\ Goto(p, IF pc[p] = "start" THEN "open" ELSE "null")
    /\ UNCHANGED <<key, segs, id, first, ends, raced, alone, orphan>>

\* A step is one of these, with its store to the table of segments spelled out.
LEMMA StepCases ==
    ASSUME TypeInv, [Next]_vars
    PROVE  \/ UNCHANGED vars
           \/ \E p \in Procs :
                \/ pc[p] \in {"start", "recreate"} /\ (Created(p) \/ Refused(p))
                \/ Open(p) \/ Probe(p) \/ StatOld(p)
                \/ Remove(p) /\ Gone(id[p])
                \/ pc[p] = "rmid" /\ Marked(p)
                \/ Attach(p) \/ Stat(p)
                \/ InitLock(p) /\ Stored(id[p], 1)
                \/ Lock(p) /\ Stored(id[p], 0)
                \/ Unlock(p) /\ Stored(id[p], 1)
                \/ End(p)
<1> SUFFICES ASSUME NEW p \in Procs,
                    \/ Create(p) \/ Remove(p) \/ Recreate(p)
                    \/ InitLock(p) \/ Lock(p) \/ Unlock(p)
             PROVE  \/ pc[p] \in {"start", "recreate"} /\ (Created(p) \/ Refused(p))
                    \/ Remove(p) /\ Gone(id[p])
                    \/ pc[p] = "rmid" /\ Marked(p)
                    \/ InitLock(p) /\ Stored(id[p], 1)
                    \/ Lock(p) /\ Stored(id[p], 0)
                    \/ Unlock(p) /\ Stored(id[p], 1)
    BY Zenon DEF Next
<1>1. CASE Create(p)
    BY <1>1, NewSegmentFacts DEF Create, Refused
<1>2. CASE Recreate(p)
    BY <1>2, NewSegmentFacts DEF Recreate, Refused
<1>3. pc[p] \in {"rmid", "init", "ready", "held"} => id[p] \in 1..Len(segs)
    BY DEF TypeInv, AttachedPcs
<1>4. CASE Remove(p)
    BY <1>3, <1>4, RemovedFacts DEF Remove
<1>5. CASE InitLock(p)
    BY <1>3, <1>5, SlockFacts DEF InitLock
<1>6. CASE Lock(p)
    BY <1>3, <1>6, SlockFacts DEF Lock
<1>7. CASE Unlock(p)
    BY <1>3, <1>7, SlockFacts DEF Unlock
<1> QED
    BY <1>1, <1>2, <1>4, <1>5, <1>6, <1>7

\* Every step keeps the types.
LEMMA TypeStep == TypeInv /\ [Next]_vars => TypeInv'
<1> SUFFICES ASSUME TypeInv, [Next]_vars PROVE TypeInv'
    OBVIOUS
<1> USE DEF TypeInv, Pcs, AttachedPcs
<1>1. ASSUME NEW p \in Procs, pc[p] \in {"start", "recreate"}, Created(p) PROVE TypeInv'
    BY <1>1 DEF Created
<1>2. ASSUME NEW p \in Procs, pc[p] \in {"start", "recreate"}, Refused(p) PROVE TypeInv'
    BY <1>2 DEF Refused, Goto
<1>3. ASSUME NEW p \in Procs, Open(p) PROVE TypeInv'
    BY <1>3 DEF Open, Goto
<1>4. ASSUME NEW p \in Procs, Probe(p) PROVE TypeInv'
    BY <1>4 DEF Probe, Goto
<1>5. ASSUME NEW p \in Procs, StatOld(p) PROVE TypeInv'
    BY <1>5 DEF StatOld, Goto
<1>6. ASSUME NEW p \in Procs, Remove(p), Gone(id[p]) PROVE TypeInv'
    BY <1>6 DEF Remove, Goto
<1>7. ASSUME NEW p \in Procs, pc[p] = "rmid", Marked(p) PROVE TypeInv'
    BY <1>7 DEF Marked
<1>8. ASSUME NEW p \in Procs, Attach(p) PROVE TypeInv'
    BY <1>8 DEF Attach, Goto
<1>9. ASSUME NEW p \in Procs, Stat(p) PROVE TypeInv'
    BY <1>9 DEF Stat, Decide, Goto
<1>10. ASSUME NEW p \in Procs, InitLock(p), Stored(id[p], 1) PROVE TypeInv'
    BY <1>10 DEF InitLock, Stored, Goto
<1>11. ASSUME NEW p \in Procs, Lock(p), Stored(id[p], 0) PROVE TypeInv'
    BY <1>11 DEF Lock, Stored, Goto
<1>12. ASSUME NEW p \in Procs, Unlock(p), Stored(id[p], 1) PROVE TypeInv'
    BY <1>12 DEF Unlock, Stored, Goto
<1>13. ASSUME NEW p \in Procs, End(p) PROVE TypeInv'
    BY <1>13 DEF End, Goto
<1>14. CASE UNCHANGED vars
    BY <1>14 DEF vars
<1> QED
    BY StepCases, <1>1, <1>2, <1>3, <1>4, <1>5, <1>6, <1>7, <1>8, <1>9, <1>10, <1>11, <1>12, <1>13, <1>14

\* Every step keeps the key naming the only segment that is not removed.
LEMMA KeyStep == TypeInv /\ KeyInv /\ [Next]_vars => KeyInv'
<1> SUFFICES ASSUME TypeInv, KeyInv, [Next]_vars PROVE KeyInv'
    OBVIOUS
<1> USE DEF TypeInv, KeyInv, AttachedPcs
<1>1. ASSUME NEW p \in Procs, pc[p] \in {"start", "recreate"}, Created(p) PROVE KeyInv'
  <2>1. \A s \in 1..Len(segs) : segs[s].removed /\ segs'[s].removed /\ s # key'
      BY <1>1 DEF Created
  <2>2. \A s \in 1..Len(segs') : s \in 1..Len(segs) \/ s = Len(segs) + 1
      BY <1>1 DEF Created
  <2> QED
      BY <1>1, <2>1, <2>2 DEF Created
<1>2. ASSUME NEW p \in Procs, pc[p] \in {"start", "recreate"}, Refused(p) PROVE KeyInv'
    BY <1>2 DEF Refused, Goto
<1>3. ASSUME NEW p \in Procs, Open(p) PROVE KeyInv'
    BY <1>3 DEF Open, Goto
<1>4. ASSUME NEW p \in Procs, Probe(p) PROVE KeyInv'
    BY <1>4 DEF Probe, Goto
<1>5. ASSUME NEW p \in Procs, StatOld(p) PROVE KeyInv'
    BY <1>5 DEF StatOld, Goto
<1>6. ASSUME NEW p \in Procs, Remove(p), Gone(id[p]) PROVE KeyInv'
    BY <1>6 DEF Remove, Goto
<1>7. ASSUME NEW p \in Procs, pc[p] = "rmid", Marked(p) PROVE KeyInv'
    BY <1>7 DEF Marked
<1>8. ASSUME NEW p \in Procs, Attach(p) PROVE KeyInv'
    BY <1>8 DEF Attach, Goto
<1>9. ASSUME NEW p \in Procs, Stat(p) PROVE KeyInv'
    BY <1>9 DEF Stat, Decide, Goto
<1>10. ASSUME NEW p \in Procs, InitLock(p), Stored(id[p], 1) PROVE KeyInv'
    BY <1>10 DEF InitLock, Stored, Goto
<1>11. ASSUME NEW p \in Procs, Lock(p), Stored(id[p], 0) PROVE KeyInv'
    BY <1>11 DEF Lock, Stored, Goto
<1>12. ASSUME NEW p \in Procs, Unlock(p), Stored(id[p], 1) PROVE KeyInv'
    BY <1>12 DEF Unlock, Stored, Goto
<1>13. ASSUME NEW p \in Procs, End(p) PROVE KeyInv'
    BY <1>13 DEF End, Goto
<1>14. CASE UNCHANGED vars
    BY <1>14 DEF vars
<1> QED
    BY StepCases, <1>1, <1>2, <1>3, <1>4, <1>5, <1>6, <1>7, <1>8, <1>9, <1>10, <1>11, <1>12, <1>13, <1>14

\* Every step keeps the promise of alone.
LEMMA AloneStep == TypeInv /\ AloneInv /\ [Next]_vars => AloneInv'
<1> SUFFICES ASSUME TypeInv, AloneInv, [Next]_vars PROVE AloneInv'
    OBVIOUS
<1> USE DEF TypeInv, AloneInv, AttachedPcs, Pcs
<1>1. ASSUME NEW p \in Procs, pc[p] \in {"start", "recreate"}, Created(p) PROVE AloneInv'
    BY <1>1 DEF Created
<1>2. ASSUME NEW p \in Procs, pc[p] \in {"start", "recreate"}, Refused(p) PROVE AloneInv'
    BY <1>2 DEF Refused, Goto
<1>3. ASSUME NEW p \in Procs, Open(p) PROVE AloneInv'
    BY <1>3 DEF Open, Goto
<1>4. ASSUME NEW p \in Procs, Probe(p) PROVE AloneInv'
    BY <1>4 DEF Probe, Goto
<1>5. ASSUME NEW p \in Procs, StatOld(p) PROVE AloneInv'
    BY <1>5 DEF StatOld, Goto
<1>6. ASSUME NEW p \in Procs, Remove(p), Gone(id[p]) PROVE AloneInv'
    BY <1>6 DEF Remove, Goto
<1>7. ASSUME NEW p \in Procs, pc[p] = "rmid", Marked(p) PROVE AloneInv'
    BY <1>7 DEF Marked
<1>8. ASSUME NEW p \in Procs, Attach(p) PROVE AloneInv'
    BY <1>8 DEF Attach, Goto, Attached
<1>9. ASSUME NEW p \in Procs, Stat(p) PROVE AloneInv'
    BY <1>9 DEF Stat, Decide, Goto
<1>10. ASSUME NEW p \in Procs, InitLock(p), Stored(id[p], 1) PROVE AloneInv'
    BY <1>10 DEF InitLock, Stored, Goto
<1>11. ASSUME NEW p \in Procs, Lock(p), Stored(id[p], 0) PROVE AloneInv'
    BY <1>11 DEF Lock, Stored, Goto
<1>12. ASSUME NEW p \in Procs, Unlock(p), Stored(id[p], 1) PROVE AloneInv'
    BY <1>12 DEF Unlock, Stored, Goto
<1>13. ASSUME NEW p \in Procs, End(p) PROVE AloneInv'
    BY <1>13 DEF End, Goto
<1>14. CASE UNCHANGED vars
    BY <1>14 DEF vars
<1> QED
    BY StepCases, <1>1, <1>2, <1>3, <1>4, <1>5, <1>6, <1>7, <1>8, <1>9, <1>10, <1>11, <1>12, <1>13, <1>14

\* A segment that is gone stays gone: shmat fails on it.
GoneStays == \A s \in 1..Len(segs) : Gone(s) => Gone(s)'

\* No step attaches a segment that is gone.
LEMMA GoneStep == TypeInv /\ [Next]_vars => GoneStays
<1> SUFFICES ASSUME TypeInv, [Next]_vars PROVE GoneStays
    OBVIOUS
<1> USE DEF TypeInv, GoneStays, AttachedPcs, Pcs, Gone, Attached
<1>1. ASSUME NEW p \in Procs, pc[p] \in {"start", "recreate"}, Created(p) PROVE GoneStays
    BY <1>1 DEF Created
<1>2. ASSUME NEW p \in Procs, pc[p] \in {"start", "recreate"}, Refused(p) PROVE GoneStays
    BY <1>2 DEF Refused, Goto
<1>3. ASSUME NEW p \in Procs, Open(p) PROVE GoneStays
    BY <1>3 DEF Open, Goto
<1>4. ASSUME NEW p \in Procs, Probe(p) PROVE GoneStays
    BY <1>4 DEF Probe, Goto
<1>5. ASSUME NEW p \in Procs, StatOld(p) PROVE GoneStays
    BY <1>5 DEF StatOld, Goto
<1>6. ASSUME NEW p \in Procs, Remove(p), Gone(id[p]) PROVE GoneStays
    BY <1>6 DEF Remove, Goto
<1>7. ASSUME NEW p \in Procs, pc[p] = "rmid", Marked(p) PROVE GoneStays
    BY <1>7 DEF Marked
<1>8. ASSUME NEW p \in Procs, Attach(p) PROVE GoneStays
    BY <1>8 DEF Attach, Goto
<1>9. ASSUME NEW p \in Procs, Stat(p) PROVE GoneStays
    BY <1>9 DEF Stat, Decide, Goto
<1>10. ASSUME NEW p \in Procs, InitLock(p), Stored(id[p], 1) PROVE GoneStays
    BY <1>10 DEF InitLock, Stored, Goto
<1>11. ASSUME NEW p \in Procs, Lock(p), Stored(id[p], 0) PROVE GoneStays
    BY <1>11 DEF Lock, Stored, Goto
<1>12. ASSUME NEW p \in Procs, Unlock(p), Stored(id[p], 1) PROVE GoneStays
    BY <1>12 DEF Unlock, Stored, Goto
<1>13. ASSUME NEW p \in Procs, End(p) PROVE GoneStays
    BY <1>13 DEF End, Goto
<1>14. CASE UNCHANGED vars
    BY <1>14 DEF vars
<1> QED
    BY StepCases, <1>1, <1>2, <1>3, <1>4, <1>5, <1>6, <1>7, <1>8, <1>9, <1>10, <1>11, <1>12, <1>13, <1>14

\* A lock that may be attached does not lose its explanation.
ExplainedStays == \A s \in 1..Len(segs) : Explained(s) /\ ~Gone(s) => Explained(s)'

\* Every step keeps a reason for a lock that reads as held.
LEMMA ExplainedStep == TypeInv /\ AloneInv /\ [Next]_vars => ExplainedStays
<1> SUFFICES ASSUME TypeInv, AloneInv, [Next]_vars PROVE ExplainedStays
    OBVIOUS
<1> USE DEF TypeInv, ExplainedStays, AttachedPcs, Pcs, BoundToInit, Explained
<1>1. ASSUME NEW p \in Procs, pc[p] \in {"start", "recreate"}, Created(p) PROVE ExplainedStays
    BY <1>1 DEF Created
<1>2. ASSUME NEW p \in Procs, pc[p] \in {"start", "recreate"}, Refused(p) PROVE ExplainedStays
    BY <1>2 DEF Refused, Goto
<1>3. ASSUME NEW p \in Procs, Open(p) PROVE ExplainedStays
    BY <1>3 DEF Open, Goto
<1>4. ASSUME NEW p \in Procs, Probe(p) PROVE ExplainedStays
    BY <1>4 DEF Probe, Goto
<1>5. ASSUME NEW p \in Procs, StatOld(p) PROVE ExplainedStays
    BY <1>5 DEF StatOld, Goto
<1>6. ASSUME NEW p \in Procs, Remove(p), Gone(id[p]) PROVE ExplainedStays
    BY <1>6 DEF Remove, Goto
<1>7. ASSUME NEW p \in Procs, pc[p] = "rmid", Marked(p) PROVE ExplainedStays
    BY <1>7 DEF Marked
<1>8. ASSUME NEW p \in Procs, Attach(p) PROVE ExplainedStays
    BY <1>8 DEF Attach, Goto
<1>9. ASSUME NEW p \in Procs, Stat(p) PROVE ExplainedStays
  <2>1. /\ pc[p] = "stat" /\ UNCHANGED <<segs, id, first>>
        /\ alone[p] => nattch(id[p]) = 1
      BY <1>9, NattchOne DEF Stat, Decide, AloneInv
  <2>2. CASE nattch(id[p]) = 1 \/ first[p]
    <3>1. pc' = [pc EXCEPT ![p] = "init"] /\ orphan' = orphan
        BY <1>9, <2>2 DEF Stat, Decide, Goto
    <3> QED
        BY <2>1, <3>1
  <2>3. CASE ~(nattch(id[p]) = 1 \/ first[p])
    <3>1. pc' = [pc EXCEPT ![p] = "ready"] /\ orphan' = orphan
        BY <1>9, <2>1, <2>3 DEF Stat, Decide, Goto
    <3> QED
        BY <2>1, <2>3, <3>1
  <2> QED
      BY <2>2, <2>3
<1>10. ASSUME NEW p \in Procs, InitLock(p), Stored(id[p], 1) PROVE ExplainedStays
    BY <1>10 DEF InitLock, Stored, Goto
<1>11. ASSUME NEW p \in Procs, Lock(p), Stored(id[p], 0) PROVE ExplainedStays
    BY <1>11 DEF Lock, Stored, Goto
<1>12. ASSUME NEW p \in Procs, Unlock(p), Stored(id[p], 1) PROVE ExplainedStays
    BY <1>12 DEF Unlock, Stored, Goto
<1>13. ASSUME NEW p \in Procs, End(p) PROVE ExplainedStays
    BY <1>13 DEF End, Goto
<1>14. CASE UNCHANGED vars
    BY <1>14 DEF vars
<1> QED
    BY StepCases, <1>1, <1>2, <1>3, <1>4, <1>5, <1>6, <1>7, <1>8, <1>9, <1>10, <1>11, <1>12, <1>13, <1>14

\* A new segment is explained by its creator; the others keep what they have.
LEMMA FreeStep == TypeInv /\ AloneInv /\ FreeInv /\ [Next]_vars => FreeInv'
<1> SUFFICES ASSUME TypeInv, AloneInv, FreeInv, [Next]_vars PROVE FreeInv'
    OBVIOUS
<1>1. \A s \in 1..Len(segs) : Gone(s)' \/ Explained(s)'
    BY GoneStep, ExplainedStep DEF GoneStays, ExplainedStays, FreeInv
<1>2. \/ Len(segs') = Len(segs)
      \/ \E p \in Procs : Created(p)
    BY StepCases DEF vars, Refused, Open, Probe, StatOld, Remove, Marked, Attach, Stat,
                     Decide, Stored, End
<1>3. CASE Len(segs') = Len(segs)
    BY <1>1, <1>3 DEF FreeInv
<1>4. ASSUME NEW p \in Procs, Created(p) PROVE FreeInv'
  <2>1. Len(segs) \in Nat /\ \A s \in 1..Len(segs') : s \in 1..Len(segs) \/ s = Len(segs) + 1
      BY <1>4 DEF TypeInv, Created
  <2>2. key' = Len(segs) + 1 /\ Explained(key)'
      BY <1>4 DEF TypeInv, Created, Explained, BoundToInit
  <2> QED
      BY <1>1, <2>1, <2>2 DEF FreeInv
<1> QED
    BY <1>2, <1>3, <1>4

\* Without the two races every step keeps the lock shared and exclusive.
LEMMA ShareStep == TypeInv /\ KeyInv /\ ShareInv /\ [Next]_vars => ShareInv'
<1> SUFFICES ASSUME TypeInv, KeyInv, ShareInv, [Next]_vars PROVE ShareInv'
    OBVIOUS
<1> USE DEF TypeInv, KeyInv, ShareInv, AttachedPcs, Pcs, BoundToInit
<1>1. ASSUME NEW p \in Procs, pc[p] \in {"start", "recreate"}, Created(p) PROVE ShareInv'
    BY <1>1 DEF Created
<1>2. ASSUME NEW p \in Procs, pc[p] \in {"start", "recreate"}, Refused(p) PROVE ShareInv'
    BY <1>2 DEF Refused, Goto
<1>3. ASSUME NEW p \in Procs, Open(p) PROVE ShareInv'
  <2>1. CASE id' = id
      BY <1>3, <2>1 DEF Open, Goto
  <2>2. CASE id' = [id EXCEPT ![p] = key] /\ pc' = [pc EXCEPT ![p] = "attach"]
      BY <1>3, <2>2 DEF Open
  <2> QED
      BY <1>3, <2>1, <2>2 DEF Open, Goto
<1>4. ASSUME NEW p \in Procs, Probe(p) PROVE ShareInv'
    BY <1>4 DEF Probe, Goto
<1>5. ASSUME NEW p \in Procs, StatOld(p) PROVE ShareInv'
    BY <1>5 DEF StatOld, Goto
<1>6. ASSUME NEW p \in Procs, Remove(p), Gone(id[p]) PROVE ShareInv'
    BY <1>6 DEF Remove, Goto
<1>7. ASSUME NEW p \in Procs, pc[p] = "rmid", Marked(p) PROVE ShareInv'
  <2> SUFFICES ASSUME ~raced' PROVE ShareInv!2'
      BY <1>7 DEF Marked
  <2>1. ~raced /\ \A q \in Procs : pc[q] \in AttachedPcs => id[q] # id[p]
      BY <1>7 DEF Marked, Attached
  <2> QED
      BY <1>7, <2>1 DEF Marked
<1>8. ASSUME NEW p \in Procs, Attach(p) PROVE ShareInv'
  <2> SUFFICES ASSUME ~raced PROVE ShareInv!2'
      BY <1>8 DEF Attach
  <2>1. Gone(id[p]) \/ id[p] = key
      BY <1>8 DEF Attach, Gone, Attached
  <2> QED
      BY <1>8, <2>1 DEF Attach, Goto
<1>9. ASSUME NEW p \in Procs, Stat(p) PROVE ShareInv'
  <2> SUFFICES ASSUME ~raced PROVE ShareInv!2'
      BY <1>9 DEF Stat, Decide
  <2>1. pc[p] = "stat" /\ UNCHANGED <<key, segs, id, first>>
      BY <1>9 DEF Stat, Decide
  <2>2. CASE nattch(id[p]) = 1 \/ first[p]
    <3>1. pc' = [pc EXCEPT ![p] = "init"]
        BY <1>9, <2>2 DEF Stat, Decide, Goto
    <3>2. \A q \in Procs : pc[q] = "held" => id[q] # id[p]
        BY <2>1, <2>2, NattchOne
    <3> QED
        BY <2>1, <3>1, <3>2
  <2>3. CASE ~(nattch(id[p]) = 1 \/ first[p])
    <3>1. pc' = [pc EXCEPT ![p] = "ready"]
        BY <1>9, <2>3 DEF Stat, Decide, Goto
    <3> QED
        BY <2>1, <3>1
  <2> QED
      BY <2>2, <2>3
<1>10. ASSUME NEW p \in Procs, InitLock(p), Stored(id[p], 1) PROVE ShareInv'
    BY <1>10 DEF InitLock, Stored, Goto
<1>11. ASSUME NEW p \in Procs, Lock(p), Stored(id[p], 0) PROVE ShareInv'
  <2> SUFFICES ASSUME ~raced' PROVE ShareInv!2'
      BY <1>11 DEF Lock
  <2>1. ~raced /\ Initialising(id[p]) = {}
      BY <1>11 DEF Lock
  <2>2. \A q \in Procs : id[q] = id[p] => ~BoundToInit(q)
      BY <2>1 DEF Initialising
  <2>3. pc[p] = "ready" /\ segs[id[p]].slock = 1 /\ UNCHANGED <<key, id, first>>
        /\ pc' = [pc EXCEPT ![p] = "held"]
      BY <1>11 DEF Lock, Goto
  <2>4. \A q \in Procs : id[q] = id[p] => pc[q] # "held"
      BY <2>1, <2>3
  <2> QED
      BY <1>11, <2>1, <2>2, <2>3, <2>4 DEF Stored
<1>12. ASSUME NEW p \in Procs, Unlock(p), Stored(id[p], 1) PROVE ShareInv'
    BY <1>12 DEF Unlock, Stored, Goto
<1>13. ASSUME NEW p \in Procs, End(p) PROVE ShareInv'
    BY <1>13 DEF End, Goto
<1>14. CASE UNCHANGED vars
    BY <1>14 DEF vars
<1> QED
    BY StepCases, <1>1, <1>2, <1>3, <1>4, <1>5, <1>6, <1>7, <1>8, <1>9, <1>10, <1>11, <1>12, <1>13, <1>14

-----------------------------------------------------------------------------
\* No segment and no process past the start: the invariant holds.
LEMMA InitInv == Init => Inv
<1> SUFFICES ASSUME Init PROVE Inv
    OBVIOUS
<1>1. segs = <<>> /\ Len(segs) = 0 /\ segs \in Seq(Segment)
    BY DEF Init
<1>2. TypeInv
  <2>1. key \in 0..Len(segs) /\ id \in [Procs -> 0..Len(segs)]
      BY <1>1 DEF Init
  <2>2. \A p \in Procs : pc[p] = "start"
      BY DEF Init
  <2>3. pc \in [Procs -> Pcs] /\ first \in [Procs -> BOOLEAN] /\ alone \in [Procs -> BOOLEAN] /\ raced \in BOOLEAN
      BY DEF Init, Pcs
  <2> QED
      BY <1>1, <2>1, <2>2, <2>3 DEF TypeInv, AttachedPcs
<1>3. KeyInv /\ FreeInv
    BY <1>1 DEF KeyInv, FreeInv
<1>4. AloneInv /\ ShareInv
    BY DEF Init, AloneInv, ShareInv, AttachedPcs
<1> QED
    BY <1>2, <1>3, <1>4 DEF Inv

\* The invariant is inductive, for any processes that start and end anywhere.
THEOREM Invariance == Spec => []Inv
<1>1. Inv /\ [Next]_vars => Inv'
    BY TypeStep, KeyStep, AloneStep, FreeStep, ShareStep DEF Inv
<1> QED
    BY InitInv, <1>1, PTL DEF Spec

\* Without the two races all processes that returned from shm_spin_lock_init share
\* the segment that the key names, and at most one of them holds its lock.
THEOREM SharingCorrect == Spec => []SharedAndExclusive
<1>1. Inv => SharedAndExclusive
    BY DEF Inv, ShareInv, SharedAndExclusive, Returned, AttachedPcs
<1> QED
    BY Invariance, <1>1, PTL

\* A lock that nobody has can be taken, unless its holder or initialiser died and
\* nobody has initialised it since.
THEOREM RecoveryCorrect == Spec => []StuckOnlyAfterEnd
<1>1. Inv => StuckOnlyAfterEnd
  <2> SUFFICES ASSUME Inv, NEW p \in Procs, pc[p] \in {"ready", "held"},
                      segs[id[p]].slock # 1, id[p] \notin orphan
               PROVE  Initialising(id[p]) # {} \/ \E q \in Attached(id[p]) : pc[q] = "held"
      BY DEF StuckOnlyAfterEnd, Returned
  <2>1. id[p] \in 1..Len(segs) /\ ~Gone(id[p])
      BY DEF Inv, TypeInv, AttachedPcs, Gone, Attached
  <2>2. PICK q \in Procs : id[q] = id[p] /\ (pc[q] = "held" \/ BoundToInit(q))
      BY <2>1 DEF Inv, FreeInv, Explained
  <2> QED
      BY <2>2 DEF BoundToInit, Initialising, Attached
<1> QED
    BY Invariance, <1>1, PTL

=============================================================================
