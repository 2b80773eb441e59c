---------------------------- MODULE SpinLockInit ----------------------------
(***************************************************************************)
(* shm_spin_lock_init: processes that start, share the spin lock in a      *)
(* System V segment, and end, at any point.  Every system call is a step.  *)
(*                                                                         *)
(* A segment lives until it is removed and nobody has it attached; a new   *)
(* one is zero, which spin_lock reads as held.  slock is 1 or 0 here:      *)
(* module SpinLock has the byte.  Size[p] stands for iNumber.              *)
(***************************************************************************)
EXTENDS Naturals, FiniteSets, Sequences

CONSTANTS
    Procs,
    Size,         \* Size[p]: the number of locks p asks for
    MaxSegs,      \* bound: segments ever created
    MaxEnds       \* bound: ends of processes

ASSUME SpinLockInitAssumption ==
    /\ IsFiniteSet(Procs)
    /\ Size \in [Procs -> Nat \ {0}]
    /\ MaxSegs \in Nat /\ MaxEnds \in Nat

VARIABLES
    key,           \* the segment that iShmKey names, 0 if none
    segs,          \* the segments created so far
    pc, id, first, \* of each process: where it is, iShmID, iFirstCreate
    ends,          \* ends of processes so far
    raced,         \* history: see Races
    alone,         \* history: no other process attached since this one did
    orphan         \* history: segments whose holder or initialiser ended

vars == <<key, segs, pc, id, first, ends, raced, alone, orphan>>

Attached(s) == {p \in Procs : id[p] = s /\ pc[p] \in {"stat", "init", "ready", "held"}}
Initialising(s) == {p \in Procs : id[p] = s /\ pc[p] \in {"attach", "stat", "init"}}
nattch(s) == Cardinality(Attached(s))

\* IPC_RMID and the last detach destroy a segment.
Gone(s) == segs[s].removed /\ Attached(s) = {}

Init ==
    /\ key = 0 /\ segs = <<>>
    /\ pc = [p \in Procs |-> "start"]
    /\ id = [p \in Procs |-> 0]
    /\ first = [p \in Procs |-> FALSE]
    /\ ends = 0 /\ raced = FALSE /\ alone = [p \in Procs |-> FALSE] /\ orphan = {}

Goto(p, l) == pc' = [pc EXCEPT ![p] = l]

\* shmget(iShmKey, size, IPC_CREAT|IPC_EXCL): fails with the key in use.
NewSegment(p) ==
    /\ key = 0 /\ Len(segs) < MaxSegs
    /\ segs' = Append(segs, [size |-> Size[p], slock |-> 0, removed |-> FALSE])
    /\ key' = Len(segs')
    /\ id' = [id EXCEPT ![p] = Len(segs')]
    /\ first' = [first EXCEPT ![p] = TRUE]
    /\ Goto(p, "attach")
    /\ UNCHANGED <<ends, raced, alone, orphan>>

Create(p) ==
    /\ pc[p] = "start"
    /\ \/ NewSegment(p)
       \/ key # 0 /\ Goto(p, "open") /\ UNCHANGED <<key, segs, id, first, ends, raced, alone, orphan>>

\* shmget(iShmKey, size): fails without a segment and with one that is too small.
Open(p) ==
    /\ pc[p] = "open"
    /\ first' = [first EXCEPT ![p] = FALSE]
    /\ \/ /\ key # 0 /\ Size[p] <= segs[key].size
          /\ id' = [id EXCEPT ![p] = key]
          /\ Goto(p, "attach")
       \/ /\ ~(key # 0 /\ Size[p] <= segs[key].size)
          /\ Goto(p, "probe")
          /\ UNCHANGED id
    /\ UNCHANGED <<key, segs, ends, raced, alone, orphan>>

\* shmget(iShmKey, 0)
Probe(p) ==
    /\ pc[p] = "probe"
    /\ Goto(p, IF key = 0 THEN "null" ELSE "statold")
    /\ id' = [id EXCEPT ![p] = key]
    /\ UNCHANGED <<key, segs, first, ends, raced, alone, orphan>>

\* IPC_STAT; s_ds has no defined value when the segment is gone.
StatOld(p) ==
    /\ pc[p] = "statold"
    /\ \/ ~Gone(id[p]) /\ Goto(p, IF nattch(id[p]) > 0 THEN "null" ELSE "rmid")
       \/ Gone(id[p]) /\ \E l \in {"null", "rmid"} : Goto(p, l)
    /\ UNCHANGED <<key, segs, id, first, ends, raced, alone, orphan>>

\* IPC_RMID: the key is free at once, the segment only when nobody has it attached.
Remove(p) ==
    /\ pc[p] = "rmid"
    /\ \/ Gone(id[p]) /\ Goto(p, "null") /\ UNCHANGED <<key, segs, raced>>
       \/ /\ ~Gone(id[p])
          /\ segs' = [segs EXCEPT ![id[p]].removed = TRUE]
          /\ key' = IF key = id[p] THEN 0 ELSE key
          /\ raced' = (raced \/ Attached(id[p]) # {})
          /\ Goto(p, "recreate")
    /\ UNCHANGED <<id, first, ends, alone, orphan>>

Recreate(p) ==
    /\ pc[p] = "recreate"
    /\ \/ NewSegment(p)
       \/ key # 0 /\ Goto(p, "null") /\ UNCHANGED <<key, segs, id, first, ends, raced, alone, orphan>>

\* shmat
Attach(p) ==
    /\ pc[p] = "attach"
    /\ Goto(p, IF Gone(id[p]) THEN "null" ELSE "stat")
    /\ alone' = [q \in Procs |-> IF id[q] = id[p] THEN q = p /\ Attached(id[p]) = {} ELSE alone[q]]
    /\ UNCHANGED <<key, segs, id, first, ends, raced, orphan>>

\* The process has its answer: a start that nobody joined is to leave the lock usable.
Decide(p, init) ==
    /\ Goto(p, IF init THEN "init" ELSE "ready")
    /\ orphan' = IF ~init /\ alone[p] THEN orphan \ {id[p]} ELSE orphan
    /\ UNCHANGED <<key, segs, id, first, ends, raced, alone>>

\* Wrong variant: whoever starts initialises the lock.
StatAlways(p) == pc[p] = "stat" /\ Decide(p, TRUE)

\* Wrong variant: only the creator initialises the lock.
StatCreator(p) == pc[p] = "stat" /\ Decide(p, first[p])

\* IPC_STAT: alone, or the creator?
Stat(p) == pc[p] = "stat" /\ Decide(p, nattch(id[p]) = 1 \/ first[p])

\* spin_lock_init
InitLock(p) ==
    /\ pc[p] = "init"
    /\ segs' = [segs EXCEPT ![id[p]].slock = 1]
    /\ Goto(p, "ready")
    /\ orphan' = orphan \ {id[p]}
    /\ UNCHANGED <<key, id, first, ends, raced, alone>>

\* spin_lock
Lock(p) ==
    /\ pc[p] = "ready" /\ segs[id[p]].slock = 1
    /\ segs' = [segs EXCEPT ![id[p]].slock = 0]
    /\ Goto(p, "held")
    /\ raced' = (raced \/ Initialising(id[p]) # {})
    /\ UNCHANGED <<key, id, first, ends, alone, orphan>>

\* spin_unlock
Unlock(p) ==
    /\ pc[p] = "held"
    /\ segs' = [segs EXCEPT ![id[p]].slock = 1]
    /\ Goto(p, "ready")
    /\ UNCHANGED <<key, id, first, ends, raced, alone, orphan>>

\* The process ends, wherever it is, and may be started again.
End(p) ==
    /\ pc[p] # "start" /\ ends < MaxEnds
    /\ ends' = ends + 1
    /\ Goto(p, "start")
    /\ orphan' = IF pc[p] \in {"attach", "stat", "init", "held"} THEN orphan \cup {id[p]} ELSE orphan
    /\ id' = [id EXCEPT ![p] = 0]
    /\ UNCHANGED <<key, segs, first, raced, alone>>

Next ==
    \E p \in Procs :
        \/ Create(p) \/ Open(p) \/ Probe(p) \/ StatOld(p) \/ Remove(p) \/ Recreate(p)
        \/ Attach(p) \/ Stat(p) \/ InitLock(p) \/ Lock(p) \/ Unlock(p) \/ End(p)

Spec == Init /\ [][Next]_vars

-----------------------------------------------------------------------------
Returned == {p \in Procs : pc[p] \in {"ready", "held"}}

\* Unless a process took the lock while another was still initialising it, or
\* attached a segment between another's IPC_STAT and IPC_RMID, all processes that
\* returned from shm_spin_lock_init share one segment and at most one holds the lock,
\* whatever processes ended, where, and were started again.
SharedAndExclusive ==
    raced \/ \A p, q \in Returned :
        /\ id[p] = id[q]
        /\ pc[p] = "held" /\ pc[q] = "held" => p = q

\* The lock cannot be taken although nobody has it only if a process ended while it
\* held or initialised the lock, and since then nobody has initialised it and nobody
\* has started without being joined: such a start recovers the lock of a dead holder.
StuckOnlyAfterEnd ==
    \A p \in Returned :
        LET s == id[p] IN
          \/ segs[s].slock = 1 \/ s \in orphan
          \/ Initialising(s) # {} \/ \E q \in Attached(s) : pc[q] = "held"
=============================================================================
