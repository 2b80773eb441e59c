------------------------------- MODULE ShmPair -------------------------------
(***************************************************************************)
(* One CDBShmPair of src/cdb: two shared-memory statistics pools, one      *)
(* current (being written) and one standby (the finished period, read by   *)
(* cdb_shm_dump).  Connection threads (the writers) add samples to the     *)
(* current pool through cdb_ins_dml_add, cdb_ins_conn_add,                 *)
(* cdb_ins_client_dml_add and cdb_tab_dml_add; the switch thread           *)
(* (cdb_shm_pair_switch_function) wakes up every period, resets the        *)
(* standby pool, exchanges the two pointers and publishes the new roles in *)
(* the pools' meta data and in the pair map file.                          *)
(*                                                                         *)
(* A pool is abstracted to mem[s][k], the _total of the entry of key k     *)
(* (0: no entry).  How a pool stores its entries is module HashMap.        *)
(* Mutexes are pthread mutexes, one per pool (CDBShm::_lock).  An access   *)
(* to a pool that is being re-initialised, or through a deleted            *)
(* CacheAccess, is undefined behaviour: it sets ub and the process stops.  *)
(***************************************************************************)
EXTENDS Naturals, FiniteSets

CONSTANTS
    Shm1, Shm2,      \* the two pools of the pair
    Writers,         \* connection threads
    EarlyWriters,    \* those that copy s._ca before they lock (all adders but cdb_tab_dml_add)
    Keys,            \* keys of statistics entries
    NodeTotal,       \* CDBShmConf::_node_total, entries a pool can hold
    MaxCount,        \* bound: no add starts for an entry that counts MaxCount samples
    MaxLeftover,     \* bound: largest count a pool kept from an earlier mysqld holds
    Switcher,        \* the switch thread
    Free,            \* the owner of an unlocked mutex
    None             \* no pool, no key: the locals of an adder that is not running

Shms == {Shm1, Shm2}

ASSUME ShmsDistinct == Shm1 # Shm2
ASSUME WritersAssumption == EarlyWriters \subseteq Writers
ASSUME OwnersDistinct == /\ Switcher \notin Writers
                         /\ Free \notin Writers
                         /\ Free # Switcher
ASSUME NoneDistinct == None \notin Keys \cup {Shm1, Shm2}
ASSUME BoundsAreNat == /\ NodeTotal \in Nat
                       /\ MaxCount \in Nat
                       /\ MaxLeftover \in Nat

VARIABLES
    current, standby,  \* CDBShmPair::_current and ::_standby
    lock,              \* lock[s]: owner of the mutex of pool s
    mem,               \* mem[s][k]: samples counted by the entry of k in pool s
    ready,             \* ready[s]: pool s is initialised (not between memset and open)
    caLive,            \* caLive[s]: s._ca points to a CacheAccess that exists
    flag,              \* flag[s]: the "is current" byte of the pool's meta data
    mapFile,           \* standby pool named by the pair map file; None when it is empty
    swPc,              \* where the switch thread is
    wpc,               \* where each writer is
    ref,               \* ref[w]: the pool get_current() returned to w
    key,               \* key[w]: the key of the sample w adds
    entry,             \* entry[w]: the count w read from the entry
    dangling,          \* dangling[w]: the CacheAccess w copied was deleted
    ub,                \* undefined behaviour has happened
    added,             \* history: samples stored in the pool since its last reset
    old,               \* history: writers in flight since the switch thread fell asleep
    overrun            \* history: some writer outlived a whole sleep of the switch thread

pairVars   == <<current, standby>>
poolVars   == <<mem, ready, caLive, added>>
roleVars   == <<flag, mapFile>>
writerVars == <<wpc, ref, key, entry, dangling>>
histVars   == <<old, overrun>>
vars == <<pairVars, lock, poolVars, roleVars, swPc, writerVars, ub, histVars>>

WriterPcs == {"idle", "read_ca", "lock", "find", "insert", "update", "unlock"}
SwitchPcs == {"sleep", "memset", "delete", "new", "open", "lock_current",
              "lock_standby", "swap", "unlock_standby", "unlock_current",
              "flag_current", "flag_standby", "map_open", "map_write"}

\* Between pthread_mutex_lock(s._lock) and pthread_mutex_unlock(s._lock).
Critical == {"find", "insert", "update", "unlock"}
\* Critical steps that go through the CacheAccess.
Accessing == {"find", "insert", "update"}

TypeOK ==
    /\ current \in Shms /\ standby \in Shms
    /\ lock \in [Shms -> Writers \cup {Switcher, Free}]
    /\ mem \in [Shms -> [Keys -> Nat]]
    /\ added \in [Shms -> [Keys -> Nat]]
    /\ ready \in [Shms -> BOOLEAN]
    /\ caLive \in [Shms -> BOOLEAN]
    /\ flag \in [Shms -> BOOLEAN]
    /\ mapFile \in Shms \cup {None}
    /\ swPc \in SwitchPcs
    /\ wpc \in [Writers -> WriterPcs]
    /\ ref \in [Writers -> Shms \cup {None}]
    /\ key \in [Writers -> Keys \cup {None}]
    /\ entry \in [Writers -> Nat]
    /\ dangling \in [Writers -> BOOLEAN]
    /\ ub \in BOOLEAN
    /\ old \subseteq Writers
    /\ overrun \in BOOLEAN

\* The state cdb_init_shm_mgr leaves: a pool found in shared memory keeps the
\* entries of the earlier mysqld, shm_name1 is current, the roles are flushed
\* (the writes to the map file go unchecked, so it may be empty).
Init ==
    /\ current = Shm1 /\ standby = Shm2
    /\ lock = [s \in Shms |-> Free]
    /\ mem \in [Shms -> [Keys -> 0..MaxLeftover]]
    /\ added = mem
    /\ \A s \in Shms : Cardinality({k \in Keys : mem[s][k] > 0}) <= NodeTotal
    /\ ready = [s \in Shms |-> TRUE]
    /\ caLive = [s \in Shms |-> TRUE]
    /\ flag = [s \in Shms |-> s = Shm1]
    /\ mapFile \in {Shm2, None}
    /\ swPc = "sleep"
    /\ wpc = [w \in Writers |-> "idle"]
    /\ ref = [w \in Writers |-> None]
    /\ key = [w \in Writers |-> None]
    /\ entry = [w \in Writers |-> 0]
    /\ dangling = [w \in Writers |-> FALSE]
    /\ ub = FALSE
    /\ old = {}
    /\ overrun = FALSE

-----------------------------------------------------------------------------
(* The adders: one sample of key k by connection thread w.                 *)

\* Wrong variant: get_current answers the standby pool.
GetStandby(w, k) ==
    /\ wpc[w] = "idle"
    /\ mem[current][k] < MaxCount
    /\ ref' = [ref EXCEPT ![w] = standby]
    /\ key' = [key EXCEPT ![w] = k]
    /\ wpc' = [wpc EXCEPT ![w] = IF w \in EarlyWriters THEN "read_ca" ELSE "lock"]
    /\ UNCHANGED <<pairVars, lock, poolVars, roleVars, swPc, entry, dangling, ub, histVars>>

\* s = get_current(); the three TfcShmMap adders then copy s._ca.
GetCurrent(w, k) ==
    /\ wpc[w] = "idle"
    /\ mem[current][k] < MaxCount
    /\ ref' = [ref EXCEPT ![w] = current]
    /\ key' = [key EXCEPT ![w] = k]
    /\ wpc' = [wpc EXCEPT ![w] = IF w \in EarlyWriters THEN "read_ca" ELSE "lock"]
    /\ UNCHANGED <<pairVars, lock, poolVars, roleVars, swPc, entry, dangling, ub, histVars>>

\* m._ca = s._ca, with no lock held.
ReadCa(w) ==
    /\ wpc[w] = "read_ca"
    /\ dangling' = [dangling EXCEPT ![w] = ~caLive[ref[w]]]
    /\ wpc' = [wpc EXCEPT ![w] = "lock"]
    /\ UNCHANGED <<pairVars, lock, poolVars, roleVars, swPc, ref, key, entry, ub, histVars>>

\* Wrong variant: the adder does not wait for the mutex.
LockShmNoWait(w) ==
    /\ wpc[w] = "lock"
    /\ lock' = [lock EXCEPT ![ref[w]] = w]
    /\ wpc' = [wpc EXCEPT ![w] = "find"]
    /\ UNCHANGED <<pairVars, poolVars, roleVars, swPc, ref, key, entry, dangling, ub, histVars>>

\* pthread_mutex_lock(s._lock)
LockShm(w) ==
    /\ wpc[w] = "lock"
    /\ lock[ref[w]] = Free
    /\ lock' = [lock EXCEPT ![ref[w]] = w]
    /\ wpc' = [wpc EXCEPT ![w] = "find"]
    /\ UNCHANGED <<pairVars, poolVars, roleVars, swPc, ref, key, entry, dangling, ub, histVars>>

\* The access w makes is defined: the pool is initialised and the
\* CacheAccess (copied early, or read from s._ca now) exists.
Sound(w) ==
    /\ ready[ref[w]]
    /\ IF w \in EarlyWriters THEN ~dangling[w] ELSE caLive[ref[w]]

\* rv = m.find(); on a hit m.get(entry).
Find(w) ==
    /\ wpc[w] = "find"
    /\ Sound(w)
    /\ entry' = [entry EXCEPT ![w] = mem[ref[w]][key[w]]]
    /\ wpc' = [wpc EXCEPT ![w] = IF mem[ref[w]][key[w]] = 0 THEN "insert" ELSE "update"]
    /\ UNCHANGED <<pairVars, lock, poolVars, roleVars, swPc, ref, key, dangling, ub, histVars>>

Used(s) == {k \in Keys : mem[s][k] > 0}

\* The entry of key[w] in ref[w] now counts n samples.
Store(w, n) ==
    /\ mem' = [mem EXCEPT ![ref[w]][key[w]] = n]
    /\ added' = [added EXCEPT ![ref[w]][key[w]] = @ + 1]

\* A pool holds NodeTotal entries; those of cdb_tab_dml_add vary in size and
\* may run out of chunks before.
MayStore(w) == Cardinality(Used(ref[w])) < NodeTotal
MayRefuse(w) == Cardinality(Used(ref[w])) >= NodeTotal \/ w \notin EarlyWriters

\* m.insert(op) of a new entry; a pool without room drops the sample with a log line.
Insert(w) ==
    /\ wpc[w] = "insert"
    /\ Sound(w)
    /\ \/ MayStore(w) /\ Store(w, 1)
       \/ MayRefuse(w) /\ UNCHANGED <<mem, added>>
    /\ wpc' = [wpc EXCEPT ![w] = "unlock"]
    /\ UNCHANGED <<pairVars, lock, ready, caLive, roleVars, swPc, ref, key, entry, dangling,
                   ub, histVars>>

\* Wrong variant: the statistics of the entry found start over.
UpdateStartsOver(w) ==
    /\ wpc[w] = "update"
    /\ Sound(w)
    /\ Store(w, 1)
    /\ wpc' = [wpc EXCEPT ![w] = "unlock"]
    /\ UNCHANGED <<pairVars, lock, ready, caLive, roleVars, swPc, ref, key, entry, dangling,
                   ub, histVars>>

\* m.insert(entry) over the entry found, whose statistics grew by one sample.
Update(w) ==
    /\ wpc[w] = "update"
    /\ Sound(w)
    /\ Store(w, entry[w] + 1)
    /\ wpc' = [wpc EXCEPT ![w] = "unlock"]
    /\ UNCHANGED <<pairVars, lock, ready, caLive, roleVars, swPc, ref, key, entry, dangling,
                   ub, histVars>>

\* pthread_mutex_unlock(s._lock) and return, which ends the locals' lives.
UnlockShm(w) ==
    /\ wpc[w] = "unlock"
    /\ lock' = [lock EXCEPT ![ref[w]] = Free]
    /\ wpc' = [wpc EXCEPT ![w] = "idle"]
    /\ ref' = [ref EXCEPT ![w] = None]
    /\ key' = [key EXCEPT ![w] = None]
    /\ entry' = [entry EXCEPT ![w] = 0]
    /\ dangling' = [dangling EXCEPT ![w] = FALSE]
    /\ old' = old \ {w}
    /\ UNCHANGED <<pairVars, poolVars, roleVars, swPc, ub, overrun>>

\* An access to memory being reset (bucket_size_ may read 0, the list
\* handles may dangle) or through a deleted CacheAccess.
UndefinedAccess(w) ==
    /\ wpc[w] \in Accessing
    /\ ~Sound(w)
    /\ ub' = TRUE
    /\ UNCHANGED <<pairVars, lock, poolVars, roleVars, swPc, writerVars, histVars>>

Writer(w) ==
    \/ \E k \in Keys : GetCurrent(w, k)
    \/ ReadCa(w) \/ LockShm(w) \/ Find(w) \/ Insert(w) \/ Update(w)
    \/ UnlockShm(w) \/ UndefinedAccess(w)

-----------------------------------------------------------------------------
(* The switch thread: sleep, CDBShmPair::switch_shm, flush_pair_info.      *)

SwitchStep(from, to) == swPc = from /\ swPc' = to

\* sleep() returns and switch_shm starts to overwrite the standby pool.
Wake ==
    /\ SwitchStep("sleep", "memset")
    /\ ready' = [ready EXCEPT ![standby] = FALSE]
    /\ overrun' = (overrun \/ old # {})
    /\ UNCHANGED <<pairVars, lock, mem, caLive, added, roleVars, writerVars, ub, old>>

\* Wrong variant: the current pool is cleared.
MemsetCurrent ==
    /\ SwitchStep("memset", "delete")
    /\ mem' = [mem EXCEPT ![current] = [k \in Keys |-> 0]]
    /\ added' = [added EXCEPT ![current] = [k \in Keys |-> 0]]
    /\ UNCHANGED <<pairVars, lock, ready, caLive, roleVars, writerVars, ub, histVars>>

\* memset(_standby->_data_addr, 0, _standby->_data_size)
Memset ==
    /\ SwitchStep("memset", "delete")
    /\ mem' = [mem EXCEPT ![standby] = [k \in Keys |-> 0]]
    /\ added' = [added EXCEPT ![standby] = [k \in Keys |-> 0]]
    /\ UNCHANGED <<pairVars, lock, ready, caLive, roleVars, writerVars, ub, histVars>>

\* Writer w keeps a copy of the _ca of pool s.
Copied(w, s) ==
    /\ w \in EarlyWriters
    /\ wpc[w] \notin {"idle", "read_ca"}
    /\ ref[w] = s

\* Wrong variant: the CacheAccess of the current pool is deleted.
DeleteCaOfCurrent ==
    /\ SwitchStep("delete", "new")
    /\ caLive' = [caLive EXCEPT ![current] = FALSE]
    /\ dangling' = [w \in Writers |-> dangling[w] \/ Copied(w, current)]
    /\ UNCHANGED <<pairVars, lock, mem, ready, added, roleVars, wpc, ref, key, entry, ub, histVars>>

\* delete _standby->_ca
DeleteCa ==
    /\ SwitchStep("delete", "new")
    /\ caLive' = [caLive EXCEPT ![standby] = FALSE]
    /\ dangling' = [w \in Writers |-> dangling[w] \/ Copied(w, standby)]
    /\ UNCHANGED <<pairVars, lock, mem, ready, added, roleVars, wpc, ref, key, entry, ub, histVars>>

\* _standby->_ca = new CacheAccess()
NewCa ==
    /\ SwitchStep("new", "open")
    /\ caLive' = [caLive EXCEPT ![standby] = TRUE]
    /\ UNCHANGED <<pairVars, lock, mem, ready, added, roleVars, writerVars, ub, histVars>>

\* _standby->_ca->open(..., true, ...); its size was checked at start-up, so it succeeds.
OpenCa ==
    /\ SwitchStep("open", "lock_current")
    /\ ready' = [ready EXCEPT ![standby] = TRUE]
    /\ UNCHANGED <<pairVars, lock, mem, caLive, added, roleVars, writerVars, ub, histVars>>

LockCurrent ==
    /\ SwitchStep("lock_current", "lock_standby")
    /\ lock[current] = Free
    /\ lock' = [lock EXCEPT ![current] = Switcher]
    /\ UNCHANGED <<pairVars, poolVars, roleVars, writerVars, ub, histVars>>

LockStandby ==
    /\ SwitchStep("lock_standby", "swap")
    /\ lock[standby] = Free
    /\ lock' = [lock EXCEPT ![standby] = Switcher]
    /\ UNCHANGED <<pairVars, poolVars, roleVars, writerVars, ub, histVars>>

Swap ==
    /\ SwitchStep("swap", "unlock_standby")
    /\ current' = standby
    /\ standby' = current
    /\ UNCHANGED <<lock, poolVars, roleVars, writerVars, ub, histVars>>

UnlockStandby ==
    /\ SwitchStep("unlock_standby", "unlock_current")
    /\ lock' = [lock EXCEPT ![standby] = Free]
    /\ UNCHANGED <<pairVars, poolVars, roleVars, writerVars, ub, histVars>>

\* Wrong variant: the same mutex is unlocked twice, the other one never.
UnlockStandbyAgain ==
    /\ SwitchStep("unlock_current", "flag_current")
    /\ lock' = [lock EXCEPT ![standby] = Free]
    /\ UNCHANGED <<pairVars, poolVars, roleVars, writerVars, ub, histVars>>

UnlockCurrent ==
    /\ SwitchStep("unlock_current", "flag_current")
    /\ lock' = [lock EXCEPT ![current] = Free]
    /\ UNCHANGED <<pairVars, poolVars, roleVars, writerVars, ub, histVars>>

\* Wrong variant: the flag of the new standby pool is cleared first.
FlagStandbyFirst ==
    /\ SwitchStep("flag_current", "flag_standby")
    /\ flag' = [flag EXCEPT ![standby] = FALSE]
    /\ UNCHANGED <<pairVars, lock, poolVars, mapFile, writerVars, ub, histVars>>

\* flush_pair_meta_data: *cp = 1 for the current pool, then *sp = 0 for the standby.
FlagCurrent ==
    /\ SwitchStep("flag_current", "flag_standby")
    /\ flag' = [flag EXCEPT ![current] = TRUE]
    /\ UNCHANGED <<pairVars, lock, poolVars, mapFile, writerVars, ub, histVars>>

FlagStandby ==
    /\ SwitchStep("flag_standby", "map_open")
    /\ flag' = [flag EXCEPT ![standby] = FALSE]
    /\ UNCHANGED <<pairVars, lock, poolVars, mapFile, writerVars, ub, histVars>>

\* Writers in flight, none of which has seen the coming sleep pass.
InFlight == {w \in Writers : wpc[w] # "idle"}

\* flush_pair_map_file: opening the file truncates it ...
MapOpen ==
    /\ SwitchStep("map_open", "map_write")
    /\ mapFile' = None
    /\ UNCHANGED <<pairVars, lock, poolVars, flag, writerVars, ub, histVars>>

\* ... or fails, which is logged and leaves the file alone; back to sleep.
MapOpenFails ==
    /\ SwitchStep("map_open", "sleep")
    /\ old' = InFlight
    /\ UNCHANGED <<pairVars, lock, poolVars, roleVars, writerVars, ub, overrun>>

\* The file is written and closed; back to sleep.
MapWrite ==
    /\ SwitchStep("map_write", "sleep")
    /\ mapFile' = standby
    /\ old' = InFlight
    /\ UNCHANGED <<pairVars, lock, poolVars, flag, writerVars, ub, overrun>>

\* A write that fails goes unnoticed and leaves the file empty.
MapWriteFails ==
    /\ SwitchStep("map_write", "sleep")
    /\ old' = InFlight
    /\ UNCHANGED <<pairVars, lock, poolVars, roleVars, writerVars, ub, overrun>>

SwitchThread ==
    \/ Wake \/ Memset \/ DeleteCa \/ NewCa \/ OpenCa
    \/ LockCurrent \/ LockStandby \/ Swap \/ UnlockStandby \/ UnlockCurrent
    \/ FlagCurrent \/ FlagStandby \/ MapOpen \/ MapOpenFails \/ MapWrite \/ MapWriteFails

-----------------------------------------------------------------------------
\* After undefined behaviour nothing is known: the model stops there.
Stopped == ub /\ UNCHANGED vars

Next ==
    \/ ~ub /\ \E w \in Writers : Writer(w)
    \/ ~ub /\ SwitchThread
    \/ Stopped

Spec == Init /\ [][Next]_vars

\* The scheduler runs every thread that can run, a running thread ends what it
\* started, and sleep() returns.  Nothing makes a client run another statement.
Fairness ==
    /\ \A w \in Writers :
          WF_vars(~ub /\ (ReadCa(w) \/ LockShm(w) \/ Find(w) \/ Insert(w) \/ Update(w)
                          \/ UnlockShm(w) \/ UndefinedAccess(w)))
    /\ WF_vars(~ub /\ SwitchThread)

FairSpec == Spec /\ Fairness

-----------------------------------------------------------------------------
(* Properties.                                                             *)

\* A pool's mutex admits one thread: two adders are never between lock and
\* unlock of the same pool, and when switch_shm exchanges the pointers ("wait
\* for outstand write") no adder is inside either pool.
MutualExclusion ==
    /\ \A v, w \in Writers :
          (v # w /\ wpc[v] \in Critical /\ wpc[w] \in Critical) => ref[v] # ref[w]
    /\ swPc = "swap" => \A w \in Writers : wpc[w] \notin Critical

\* As long as every add ends within one period, no sample is lost or counted
\* twice: each entry counts exactly the samples stored since its pool's reset,
\* although switch_shm resets without the lock and adders may reach a pool
\* after it became standby.
NoLostUpdate == ~overrun => mem = added

\* As long as every add ends within one period, no adder touches a pool that
\* switch_shm is re-initialising, nor a CacheAccess it has deleted.
PromptAddsAreSafe == ~overrun => ~ub

\* switch_shm has exchanged the pointers and flush_pair_meta_data has not yet
\* flagged the new current pool.
Exchanged == {"unlock_standby", "unlock_current", "flag_current"}

\* cdb_shm_dump reads the standby pool's name from the map file and checks that
\* pool's flag (check_standby).  Even when the file is stale because the last
\* flush failed, the name of a pool that is being written never passes that
\* check, but for the moment between the exchange and the first flag.
UnwarnedReadIsStandby ==
    (swPc \notin Exchanged /\ mapFile \in Shms /\ ~flag[mapFile]) => mapFile = standby

\* As long as every add ends within one period, the counts of the period being
\* collected only grow: resetting is for the standby pool alone.
CurrentOnlyGrows ==
    [][~overrun' => \A k \in Keys : mem'[current][k] >= mem[current][k]]_vars

\* A locked mutex is unlocked again: the switch thread, which waits for one
\* mutex while it holds the other, deadlocks with no adder, and is not kept
\* waiting for the standby mutex for ever by adders that come later.
HeldLockReleased ==
    \A s \in Shms : lock[s] # Free ~> (lock[s] = Free \/ ub)

\* "no need to lock for reset" (comment in switch_shm): the reset without the
\* lock never meets an adder.
ResetNeedsNoLock == ~ub
=============================================================================
