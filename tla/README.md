# Formal model of the shared-memory statistics of mysql51-hack

The repository is a MySQL 5.1 server with one addition of its own: statistics that
`src/cdb` keeps in shared memory and `src/cdb-tools` reads. This directory models that
addition, and the two parts of the server it lives by: the connection threads, which
call it and must be gone before it is shut down, and the commit of a transaction,
whose end is what it counts.

## The system

mysqld counts statements, connections, clients and table accesses in
shared-memory pools that a second program, `cdb_shm_dump`, reads.

| Part | Source | State | Operations |
| --- | --- | --- | --- |
| Adders | `cdb/cdb.cpp`, `sql/sql_parse.cc` | none of their own | `cdb_stat_instance_dml_func`, `cdb_ins_dml_add`, `cdb_ins_conn_add`, `cdb_ins_client_dml_add`, `cdb_tab_dml_add` |
| Pool pairs, switch thread | `cdb/cdb_shm_mgr.cpp`, `cdb/cdb.cpp` | `_current`, `_standby`, one mutex and one `CacheAccess` per pool, a flag in each pool's meta data, a map file | `get_current`, `switch_shm`, `flush_pair_info` |
| Cache access | `cdb/tfc_cache_access.*` | one pool | `get`, `set`, `del`, `del_node`, `mark_clean` (one key, many keys), `oldest`, `oldest_key`, `get_lru_pre`, `core_dump_mem`; dump files, recovery |
| Hash map | `cdb/tfc_cache_hash_map.*` | nodes, buckets, free list, add list, counters | `find_node`, `insert_node`, `update_node`, `delete_node`, verification |
| Chunk allocator | `cdb/tfc_cache_chunk_alloc.*` | chunks, free list, counter | `malloc`, `free`, `split`, `merge`, verification |
| Typed map | `cdb/tfc_shm_map.h` | an iterator's position | `find`, `get`, `insert`, iteration |
| Spin lock | `cdb/tfc_spin_lock.h` | one byte in a segment | `spin_lock`, `spin_unlock`, `shm_spin_lock_init` |
| Binary log of the cache | `cdb/tfc_binlog.*` | rotating files | append, rotation, clearing, replay, reading from a time |
| Dump tool | `cdb-tools/` | a private copy of a pool | check of map file and flag, copy, iteration |
| Connection threads | `sql/mysqld.cc`, `sql/sql_connect.cc` | thread cache, counters, shutdown flags | admission, end of a connection, `FLUSH THREADS`, `kill_server`, end of main |
| Commit | `sql/handler.cc`, `sql/log.cc`, InnoDB | redo log, binary log files, two mutexes | `ha_commit_trans`, `rotate_and_purge`, `ha_recover` |

**How they interact.** A connection thread that ends a statement calls an adder. It
asks the pair for its current pool, locks that pool's mutex, looks the key up,
adds its sample to the entry or inserts a new one, and unlocks. The switch thread
wakes up once per period. For each pair it resets the standby pool, takes both
mutexes, exchanges the pointers, gives the mutexes back, writes the two flags and
rewrites the map file with the name of the new standby pool. The dump tool reads
the map file, checks the flag, and copies the pool without a lock. At shutdown
`signal_hand` destroys the pool mutexes once `clean_up` has run, when no connection
thread is supposed to be left.

**What is hard.** The adder's view of `_current` is stale from the moment it is
read; the reset runs without a lock; roles are published in three places; the
map is full of intrusive lists that look-ups reorder while iterators walk them;
pools outlive the process, which may die between any two stores; nodes and chunks
run out independently; four threads shut the server down together over one mutex and
four conditions; a transaction is in two logs and either may be ahead when the
machine dies. The list `hazards` in `PROJECT.json` names each place.

**What correctness means**, part by part:

* pair: no two threads inside a pool; no sample lost; no access to a pool being
  reset; a published standby pool is not the one being written; no deadlock;
* statistics: an entry says what its samples say, and the dump shows it under its key;
* dump tool: a dump without a warning is of the standby pool;
* cache, map, allocator: lists and chains stay intact, nothing leaks, only what does
  not fit is refused, and together they are a bounded map ordered by use; a pool that
  a start admits after a death can be used;
* iterators and dumps: visit everything they must although the list changes;
* log and dumps: what was dirty when the process died is back after a restart, and
  nothing else;
* spin lock: exclusion, no wrap-around, no lost lock, one segment for all processes;
* connection threads: every queued connection is served, counters do not drift, the
  shutdown completes, and no adder runs after it;
* commit: InnoDB and the binary log hold the same transactions in the same order, the
  client is told the truth, and a commit comes to an end.

## Modules

| Module | Models | Used by |
| --- | --- | --- |
| `ShmPair` | a pool pair, its adders and the switch thread | `ShmDump` |
| `ShmDump` | the dump tool as a second process, composed with `ShmPair` | `MCShmDump`, `ShmDump_proofs` |
| `TabDml` | marshalling of table keys, as operators | `TabStats` |
| `CommStat` | the arithmetic of one entry, as operators | `TabStats` |
| `TabStats` | what one period's pools and the dump say | `MCTabStats`, `TabStats_proofs` |
| `ChunkAlloc` | `CChunkAllocator` as operators on its memory | `HashMap` |
| `HashMap` | `CHashMap` as operators on the pool | `CacheAccess`, `PoolCrash` |
| `CacheAccess` | `CacheAccess` as a state machine on one pool; the iterators | `MCCacheAccess`, `CacheAccess_proofs` |
| `CacheStore` | abstract specification: a bounded map ordered by use | `MCCacheAccess` (refinement) |
| `PoolCrash` | the pool store by store, deaths, verification at start | |
| `Persist` | binary log, dump files, recovery, deaths | `MCPersist` |
| `BinLogFile` | the binary log word by word | `MCBinLogFile`, `BinLogFile_proofs` |
| `SpinLock` | the byte spin lock, instruction by instruction | `SpinLock_proofs` |
| `SpinLockInit` | creation of the lock by several processes | `MCSpinLockInit`, `SpinLockInit_proofs` |
| `ConnThreads` | connection threads, thread cache, shutdown | `ConnThreads_proofs` |
| `XaCommit` | two-phase commit, rotation, crash, recovery | `XaCommit_proofs` |
| `TrxOutcome` | abstract specification: outcomes decided once, answers that tell them | `XaCommit` (refinement) |
| `ShmDump_proofs`, `SpinLock_proofs`, `SpinLockInit_proofs`, `ConnThreads_proofs`, `XaCommit_proofs`, `TabStats_proofs`, `CacheAccess_proofs`, `BinLogFile_proofs` | theorems | |

Definitions called "Wrong variant" or "Mutant" in comments are used by nothing in
the specifications. Each is a plausible mistake in a definition that follows it;
put in that definition's place it breaks one of the properties.

### ShmPair

One step is one access to shared state. An adder goes through `idle`, `read_ca`
(not in `cdb_tab_dml_add`, which reads `s._ca` under the lock), `lock`, `find`,
`insert` or `update`, `unlock`; the switch thread has a step for each statement of
`switch_shm` and `flush_pair_info`. `EarlyWriters` are the threads in the three adders
that copy `s._ca` before they lock.

* A pool is abstracted to the number of samples per key (`mem`), which is what
  `_total` counts. How a pool stores its entries is the subject of `CacheAccess`.
* A pool between the first byte of `memset` and the end of `open` is not `ready`. An
  access to it, or through a deleted `CacheAccess`, is undefined behaviour: `ub`
  becomes true and the behaviour ends, since nothing more can be said.
* An insert is refused when the pool has no node left. Entries of
  `cdb_tab_dml_add` vary in size, so their chunks may run out before.
* `Init` is what `cdb_init_shm_mgr` leaves: pools found in shared memory keep the
  entries of an earlier mysqld.
* Both failures of the map file are modelled: it cannot be opened (logged, old content
  stays), and the unchecked write fails (the file stays empty).
* `added`, `old` and `overrun` are history variables. `overrun` becomes true
  when an adder has been in flight throughout a whole sleep of the switch
  thread, the condition under which the reset without a lock is dangerous.
* The switch thread serves four pairs one after the other. They share nothing else;
  the model has one. The names, the order of the pairs and `_last_switch_time`
  are left out.

### ShmDump

The tool has a step for each thing it reads: the name in the map file, the flag, and
the entries one by one. `memcpy` of a pool that adders change is a race; `torn` says
that the pool was accessed, or reset, during the copy, and the copy is then an
arbitrary mixture. `asleep` is the promise under which the tool can be right: the
switch thread has slept since the map file was read.

### TabStats, TabDml, CommStat

`TabStats` follows a statement from `cdb_stat_instance_dml_func` through the adders
to `cdb_shm_dump`. Each add runs under its pool's mutex, so that an add is a step;
pools do not depend on each other, so that the adds of one statement are one step.
The properties compare entries with the history of samples.

* `marshal_key` writes bytes, `de_marshal_key` reads them as signed characters. `Half`
  is 2^7 in the code; the names chosen look alike when a length is left out or
  mistaken for a character.
* A table key is found by the hash of its bytes; the model uses the bytes.
* Durations are inputs. The code subtracts two readings of the wall clock.

### ChunkAlloc, HashMap, CacheAccess, CacheStore

A pool is one record. Offsets into the shared memory become the numbers of nodes and
chunks; 0 is the invalid handle. The operators keep the names of the methods
they translate. All callers run these methods under the pool's lock, or on a
private copy, so that one method call is one step.

* Bytes are natural numbers and values short sequences of them. `split` and `merge`
  place and collect them chunk by chunk, and what a chunk held before stays beyond
  the last byte, as in the code.
* A key is its first 32 bits, which choose the bucket and decide the selection of
  the bulk operations.
* The time stamps `add_info_1_` and `add_info_2_` are left out: no modelled operation
  depends on them. `insert_add_list_tail` has no caller.
* Values are not empty: no caller stores an empty value. `malloc(0)` answers the
  invalid handle, so that `set` would report a full pool for one.
* The dump buffer is large enough, and values fit the 100 KB buffer of the bulk
  `mark_clean`.
* Walks over lists are bounded by the number of handles; a circular list exceeds the
  bound and violates the partition invariants.

`MCCacheAccess` maps a pool to `CacheStore`: the keys in the order of the add list,
what a look-up of each answers, and the free chunks. This view is kept in a
variable so that TLC computes it once per state. The map is found by *looking keys
up*, through the buckets, while the order is read from the add list: the refinement
fails if the two disagree.

### PoolCrash

An operation is the sequence of its stores, in program order, and mysqld may die after
any of them (`DieInSet`, `DieInReset`). The next start verifies the pool as
`verify_pool_data` does and goes on, refuses it, or follows a list for ever.
`StoresAreOperations` ties the sequences to `HashMap`: run to the end, they are its
operations. The order in which the processor lets stores be seen does not matter: a
process that dies takes none of its stores back.

### Persist

The pool is what `CacheStore` promises, the dump and log files are sequences, and
each step is one change of the pool or one file operation, so that the process can
die (`Die`), or the shared memory be lost (`LosePool`), between any two of them.
`setup` chooses between `core_dump`, which writes entries, and `mirror_dump`, which
writes the pool as it is (the two have the same renames, log and start-up), and the
size of the pool.

* mysqld itself runs with `_cache_dump_min = -1`; this module is about the
  library with a positive value.
* `gaps` is a history variable: the reasons, listed at its definition, for which
  dump and log may not lead to the pool. Each is opened by the step that causes it and
  closed by the next complete dump. The two properties say that there is no other.
* When a dump is due is left open: `time_check` may find it due at any time. The
  content of `.last` and `.tmp` is kept only where a later step reads it.
* The renames of a dump succeed if the old name exists. Lost pages of the file
  system are not modelled: the code flushes and does not sync. Torn records are in
  `BinLogFile`.
* The bulk `mark_clean` is the sequence of its `mark_clean` calls.

### BinLogFile

Time, length and payload of a record are one `fwrite` and a flush, of which a death or a
full disk may leave any number of words in the file. Later records are appended behind the torn one and read as part of
it. A reader starts from the oldest file, or from a time that
`SetReadRecordStartTime` looks up.

`ReplayIsExact` speaks of what is in the files; that rotation takes nothing out of them
but the last file is `OnlyTheLastFileGoes`. `rename` would replace a file that is
in its way without an error, and after a rotation that was cut short the numbers have
holes and the files may be of any size.

### SpinLock, SpinLockInit

`Half` is 2^7 in the code. `dec`, `spin` and `held` are the three labels of the
assembly. Memory accesses are single instructions on one byte, one of them locked;
each is one step. In `SpinLockInit` a step is one system call of `shm_spin_lock_init`;
processes end anywhere and start again, with different sizes. Segments follow System V:
a removed one lives on while it is attached. `raced` marks the two windows the code
leaves open, and the property says that there is no third.

### ConnThreads

A section under `LOCK_thread_count` is one step; `cache_thread` reads `abort_loop`,
which is set without the lock, twice, and keeps the lock in between, and
`kill_cached_threads++` outside the lock (`mysqld.cc:886`) is a read and a write. A
condition variable is the set of its sleepers; wake-ups may be spurious, and a signal
wakes any one sleeper. A connection is served, killed, or ends by itself. The timed
wait of the shutdown for the select thread is repeated until that has ended, and is one
step. `signal_hand` sets `abort_loop` and then creates the thread that runs
`kill_server`. When that fails (`mysqld.cc:2844`), `abort_loop` stays set, later signals
are ignored, and nobody wakes the select thread: `KillNotStarted`. `thr_alarm` and the other schedulers are left out.

### XaCommit, TrxOutcome

InnoDB is its redo log: the last record of a transaction is its state, and a crash
keeps the flushed records and any number of the others. A binary log file is the
sequence of its xids; the last file loses any part that was not synced. Every crash
is one of the machine; the death of mysqld alone is the case in which nothing
written is lost. A write to the binary log and its sync may fail. `sync_failed` is a
history variable: the transactions for which the sync failed.

A rotation closes the log file (`LOG_TO_BE_OPENED`) and opens the next one, and nobody
looks at the result (`log.cc:3842`). `log_state` says what comes of it:

* `OpenLog`: the next file is open and in the index;
* `OpenFails`: `LOG_CLOSED` until the next start, with or without the new file in the
  index. `is_open` is false from then on. A transaction that was prepared before finds
  the log closed in `WriteXid`, skips it without an error, commits, and discounts in
  `unlog` what was not counted; the model lets `prepared_xids` become negative where the
  unsigned counter wraps. One that begins later does not register the binary log, and
  InnoDB, being alone, commits in one phase (`alone`), without the mutex;
* `NotOpened`: the index cannot be opened or written, and the log remains to be opened.
  `is_open` is true, there is no file and no name: a write goes to a closed
  descriptor and fails, or to a file that has got it since; the next rotation follows
  the null pointer (`RotateNameless`), which is a crash;
* `KeepLog`: no name is found for the next file, and the old one goes on.

`unlogged` is a history variable: the transactions that came to a log that was closed or
had no file. The close itself, with its sync and the clearing of the flag
`LOG_EVENT_BINLOG_IN_USE_F`, is taken to succeed: the code goes on when it fails, too.

The settings are the durable ones: `innodb_support_xa`, flush at every commit,
`sync_binlog = 1`. With weaker settings the log and the engine are not promised to
agree after a crash of the machine.

`TrxOutcome` says what a client may rely on: the outcome of a transaction is decided
once, and it is told nothing else. The mapping decides a transaction when its xid is beyond
the reach of a crash, for an `unlogged` one its commit record in InnoDB (`Durable`), or
when its thread is gone without that.

## Runs

| Run | Module, configuration | Bounds | Distinct states | Checks |
| --- | --- | --- | --- | --- |
| `shm_pair` | `ShmPair` | an adder of each kind, 1 key, counts to 2, 1 leftover | 172,106 | `MutualExclusion`, `NoLostUpdate`, `PromptAddsAreSafe`, `UnwarnedReadIsStandby`, `CurrentOnlyGrows`, `HeldLockReleased` |
| `shm_dump` | `MCShmDump` | 1 adder, 2 keys, the tool any number of times | 3,912,888 | `PromptDumpIsOfStandby`, `QuietDumpIsExact` |
| `cache` | `MCCacheAccess` | 3 keys in one of 3 buckets, 3 nodes, 3 chunks of 2 bytes, values of 1 and 2 chunks | 104,810 | `NodesPartitioned`, `ChunksPartitioned`, `CompletePoolVerifies`, `SetRefusesOnlyWhatDoesNotFit`, `IterationVisitsAllOnce`, `BulkMarkCleanCompletes`, `DumpKeepsDirtyData`, `ImplementsStore` |
| `persist` | `MCPersist` | 2 keys, 2 values, 3 log files of 1 record; three set-ups: core dump with 2 nodes and with 1, mirror dump with 1 node and 3 records | 5,870,937 | `RecoveryLosesNothing`, `RecoveryInventsNothing` |
| `binlog_file` | `MCBinLogFile` | 3 files of 4 words, 4 records, clock to 3 | 1,021,581 | `ReplayIsExact`, `OnlyTheLastFileGoes` |
| `pool_crash` | `PoolCrash` | 3 keys, 3 nodes, 2 buckets, 2 chunks, 2 deaths | 5,928 | `StoresAreOperations`, `AdmittedPoolServes` |
| `tab_stats` | `MCTabStats` | a 3-bit byte, 2 thresholds, 2 entries per pool, 3 statements or connections | 138,550 | `InsStatsDescribeSamples`, `TabDumpDescribesSamples`, `FillsBuffer` |
| `spin_lock` | `SpinLock` | a 3-bit byte, 5 threads | 1,187 | `MutualExclusion`, `ByteCountsWaiters`, `WaitersNotForgotten` |
| `spin_lock_init` | `MCSpinLockInit` | 3 processes of 2 sizes, 3 segments, 3 ends | 1,153,009 | `SharedAndExclusive`, `StuckOnlyAfterEnd` |
| `conn_threads` | `ConnThreads` | 2 threads, 2 clients, cache of 1, 1 flush or SIGHUP beside the shutdown | 125,804 | `QueuedHaveThreads`, `CountersAgree`, `NoAdderAtCleanUp`, `QueuedIsServed`, `ShutdownCompletes` |
| `xa_commit` | `XaCommit` | 2 transactions, log files of 1, 2 crashes, forced rotation, rotations that fail | 127,240 | `LogAndEngineAgree`, `SameOrder`, `LastLogIsEnough`, `ImplementsTrxOutcome`, `CommitsComeToAnEnd` |
| `shm_pair_reset` | `ShmPair` | as `shm_pair` | violation | `ResetNeedsNoLock` |

`TypeOK` of `ShmPair`, `CacheAccess`, `Persist`, `ConnThreads` and `XaCommit` says which values
the variables take; no run is spent on it. For all but `Persist` it is part of a proved
invariant or follows from one.

**Bounds.**

* `shm_pair`: `MaxCount` stops new adds for an entry that counts enough; two tell
  a lost sample from a stored one. `MaxLeftover` bounds what an earlier mysqld left.
  The number of periods is not bounded. Two adders are enough for two to wait for one
  mutex while the switch thread waits for it too, and for one to sleep through a
  period while the other goes on; the proofs remove this bound.
* `shm_dump`: two keys make a copy take two steps, so that it can be torn.
* `cache`: nodes and chunks run out in either order, values of one and three bytes grow
  and shrink entries, and three nodes in one bucket are unlinked from head, middle and
  tail.
* `persist`: `MaxRecords` stops new operations until a dump has cleared the log; log
  files of one record make every rotation and every order of clearing happen, three of
  them leave one behind when the clearing is interrupted twice, and one node makes a
  replay meet a full pool.
* `binlog_file`: a file holds one record and the beginning of the next; four
  records rotate all three files.
* `pool_crash`: with two chunks for three nodes, an insert fails after it took a node;
  the second death hits a pool that the first has damaged.
* `tab_stats`: three events create, update and refuse entries, in each order of types.
* `spin_lock`: five threads are `Half + 1`, the most the lock admits: with one thread
  more, exclusion is violated when the byte wraps around.
* `spin_lock_init`: three processes are enough for one to hold the lock while a second
  starts and a third ends.
* `conn_threads`: with two clients, two threads and room for one in the cache, a client
  is refused, queued, and served by a new thread; the flush by SIGHUP or by a client
  meets that of the shutdown.
* `xa_commit`: `max_size` 1 makes every commit rotate; the second crash may hit the
  recovery from the first.

**Symmetry** is used in `shm_dump` (keys), `persist` (keys, values) and
`spin_lock_init` (processes of one size), which check no liveness.

**Fairness.** The operating system schedules runnable threads, and `sleep` returns.

* `shm_pair`: weak fairness of each adder once it has started and of the switch
  thread. Nothing makes a client start another statement. A mutex need not be fair:
  weak fairness of `LockShm` promises nothing to an adder that others overtake.
* `spin_lock`: weak fairness of each thread in `spin_lock` or holding the lock;
  progress of some waiter only, as the code promises no more.
* `conn_threads`: weak fairness of the server's threads. Clients need not end; a
  connection that was killed does, since its socket is closed. The end of main is fair
  only if `kill_server` was started, because that wakes the select thread. No fairness makes a
  signal arrive or a wake-up happen without cause.
* `xa_commit`: weak fairness of recovery and of rotation, which wait while they hold
  their mutex, and strong fairness of the steps of a commit, because two of them take
  a mutex that others use: it is assumed that no thread is passed over for ever
  while the mutex becomes free again and again. Failures, crashes and rotations are
  never forced.

### What the runs show

Where an add ends within a period the pair is sound: although an adder may reach a
pool after it became standby, no sample is lost, the reset meets nobody, and a dump
taken within a period is of the right pool. A pool that a start admits after a death
can be looked up in and stored to, although its add list may be cut. Replaying a log
over a dump that already contains it is harmless unless the pool fills up on the way,
and holes left by an interrupted rotation keep the order of the records. The thread
cache strands nobody, and no adder runs when the statistics are shut down. The commit
survives every crash, also in recovery; a binary log that was turned off costs the log its
transactions, and nothing else.

One statement is refuted by a run of its own, `shm_pair_reset`: *"standby is readonly,
no need to lock for reset"* (`cdb_shm_mgr.cpp:130`). An adder descheduled from
`get_current` until the next period meets memory being cleared or a deleted
`CacheAccess`. `PromptSafety` proves that this is the only way.

Other things that comments and names promise do not hold as they stand. In each case
the property checked says exactly how far they do:

| Said | In fact | Delimited by |
| --- | --- | --- |
| "standby is readonly" (`cdb_shm_mgr.cpp:130`) | an adder that waits for the mutex during the exchange writes to the standby pool | `PromptDumpIsOfStandby`, `QuietDumpIsExact` |
| "last switch time" (`cdb_shm_mgr.cpp:183`) | `_last_switch_time` is set at start-up only | not modelled |
| "只倒脏数据", only dirty data is dumped (`tfc_cache_access.cpp:442`) | the head of the add list is dumped clean or dirty | `DumpKeepsDirtyData`: the dirty entries and the head, nothing else |
| "ret 0: 恢复了dump file", the dump is recovered (`tfc_cache_access.cpp:737`) | a death between two renames leaves no file of that name, and `StartUp` answers 0 | `RecoveryLosesNothing`, gap `no_dump` |
| "非新建的共享内存,不用恢复", memory that is not new needs no recovery (`tfc_cache_access.cpp:741`) | a death in `StartUp` leaves a half recovered pool | `RecoveryLosesNothing`, gap `log` |
| "=0请忽略并继续", at 0 go on (`tfc_binlog.cpp:274`) | `StartUp` stops there (`tfc_cache_access.cpp:768`) | `ReplayIsExact`: up to the first torn record |
| "string is len(1byte) + data" (`cdb.cpp:494`) | a length of 128 or more reads as negative, and the dump ends; names may take 192 bytes | `TabDumpDescribesSamples`: at such names only |
| "time_min" (`cdb_shm_dump.cpp:276`) | 0 for all types but the one that created the entry | `TabDumpDescribesSamples` |
| ">20ms >40ms ..." (`cdb_shm_dump.cpp:123`) | a duration equal to a threshold is in no bucket | `InsStatsDescribeSamples`: only such ones |
| "Force server down. Kill all connections and threads and exit." (`mysqld.cc:1148`) | of two flushes of the thread cache the last cached thread wakes one (`mysqld.cc:1945`); the other waits for ever | `ShutdownCompletes`: but for `FlushForgotten` |
| the same | `abort_loop` is set and the thread to kill the server cannot be created, which is only logged (`mysqld.cc:2844`) | `ShutdownCompletes`: but for `KillNotStarted` |
| "taking the mutex on prepare, and releasing it on commit" (`ha_innodb.cc:8392`) | a rollback after prepare keeps `prepare_commit_mutex` (`ha_innodb.cc:2311`) | `CommitsComeToAnEnd`: but for `Leaked` |
| "if a statement is transactional, we just safely roll it back" (`log.cc:1589`) | when `my_sync` fails the transaction is in the file, and is rolled back | `LogAndEngineAgree`: but for `sync_failed` |
| "Should always be true" (`log.cc:4803`), of `is_open()` where a prepared transaction is written | a rotation that fails to open the next file turns the log off (`log.cc:3843`); InnoDB commits, and no log has the transaction. The assertions before that line and in `unlog` are compiled out of a release build | `LogAndEngineAgree`: but for `unlogged` |

## Proofs

TLAPS proves these for every value of the constants: any number of adders, keys,
processes, connection threads, clients, transactions, crashes, statements, tables, log files
and records, and pools of any size. The assumptions are the
`ASSUME`s of the modules (the identifiers of pools, threads and absent values differ;
the sets of threads are finite where they are counted; bounds are natural numbers), and
for `XaCommit` the setting `sync_binlog = 1` named in each of its theorems. TLC checked
the inductive invariants on the runs' instances first, but for those of `CacheAccess` and
`BinLogFile`, which say that lists and places in files exist without naming them.

`ShmDump_proofs`, about the pair:

| Theorem | States |
| --- | --- |
| `Invariance` | `Spec => []Inv` |
| `TypeCorrect` | `Spec => []TypeOK` |
| `Exclusion` | `Spec => []MutualExclusion` |
| `Accounts` | `Spec => []NoLostUpdate` |
| `PromptSafety` | `Spec => []PromptAddsAreSafe` |
| `UnwarnedRead` | `Spec => []UnwarnedReadIsStandby` |
| `Growth` | `Spec => CurrentOnlyGrows` |

The inductive invariant is `TypeOK /\ LockInv /\ RoleInv /\ PromptInv`.

* `LockInv` says who owns which mutex: an adder inside a pool owns that pool's
  mutex, and the switch thread owns those its position implies.
  `MutualExclusion` alone is not inductive, as it says nothing of `lock`.
* `RoleInv` says at which positions of the switch thread a pool may be
  uninitialised or without a `CacheAccess`, and which flags are set. The current
  pool is flagged except between the exchange and the first flag; hence a name in
  the map file without a flag is that of the standby pool, stale or not.
* `PromptInv` holds while `overrun` is false. Its heart is that an adder can refer to
  the standby pool only from the exchange of the pointers to the end of the next
  sleep, and during that sleep only if it is in `old`; one that stays longer makes
  `overrun` true. Hence the pool being reset has no adder, an entry read
  under the lock is still what the pool holds when it is written, and the counts equal
  the samples stored.

`ShmDump_proofs`, about the dump tool beside it:

| Theorem | States |
| --- | --- |
| `DumpInvariance` | `DumpSpec => []DumpInv` |
| `DumpOfStandby` | `DumpSpec => []PromptDumpIsOfStandby` |
| `DumpIsExact` | `DumpSpec => []QuietDumpIsExact` |

`DumpInv` is `Inv` of the pair and `FreshInv /\ ToolInv /\ SleepInv`.

* `FreshInv`: an adder between its find and its store overwrites the value it has
  read, `overrun` or not, but for the pool that the switch thread has cleared. This is
  what makes counts grow during a dump: the switch thread takes the mutexes of both pools
  before the exchange, and so outwaits such adders.
* `SleepInv`: as long as the switch thread has slept since the map file was read,
  the counts only grow, what has been copied lies between the first counts and the
  present ones, and a pool no adder referred to has not changed.

`SpinLock_proofs`:

| Theorem | States |
| --- | --- |
| `Exclusion` | `Spec => []MutualExclusion` |
| `NoWrap` | `Spec => []ByteCountsWaiters` |

They hold for every width of the byte and at most `Half + 1` threads, 129 for the
byte of the code. The inductive invariant is `TypeOK /\ MutualExclusion /\
ByteCountsWaiters`: the count of the waiters is what keeps the byte from wrapping
around, and exclusion rests on that.

`SpinLockInit_proofs`:

| Theorem | States |
| --- | --- |
| `Invariance` | `Spec => []Inv` |
| `SharingCorrect` | `Spec => []SharedAndExclusive` |
| `RecoveryCorrect` | `Spec => []StuckOnlyAfterEnd` |

The inductive invariant is `TypeInv /\ KeyInv /\ AloneInv /\ FreeInv /\ ShareInv`. The
properties speak of the processes that returned; the invariant has to speak of those on
their way. `KeyInv`: the segment of the key is the only one that is not removed.
`FreeInv`: a segment that reads as held has a holder, somebody bound to initialise
it, or a dead one. `ShareInv`: without the two races, who is attached is attached to the
key's segment, and while the lock is held nobody is bound to initialise it.

`ConnThreads_proofs`:

| Theorem | States |
| --- | --- |
| `Invariance` | `Spec => []Inv` |
| `TypeCorrect` | `Spec => []TypeOK` |
| `QueueCorrect` | `Spec => []QueuedHaveThreads` |
| `CountsCorrect` | `Spec => []CountersAgree` |
| `CleanUpCorrect` | `Spec => []NoAdderAtCleanUp` |

The inductive invariant is `TypeOK /\ PlaceInv /\ OwnerInv /\ CountInv /\ KillInv`.
`PlaceInv` says where each thread may be and that it has a THD exactly while it
serves; `OwnerInv` that no THD is in two places; `CountInv` what each counter counts, as
cardinalities; `KillInv` what `kill_server` has waited for at each of its positions:
the thread cache empty, then the select thread gone, then `thread_count` 0. The
last property needs all of them: the shutdown looks only at counters, and the conclusion is
that the threads are gone and that nobody is left to start one.

`XaCommit_proofs`, each theorem with `ASSUME sync_binlog_period = 1`:

| Theorem | States |
| --- | --- |
| `Invariance` | `Spec => []Inv` |
| `LogsAgree` | `Spec => []LogAndEngineAgree` |
| `LastLogSuffices` | `Spec => []LastLogIsEnough` |
| `CommitRefinement` | `Spec => ImplementsTrxOutcome`: the refinement of `TrxOutcome` |
| `OrderCorrect` | `Spec => []SameOrder` |

A first group of lemmas turns the two logs into sets (who has a record of which kind, who
has one on disk, who is in the last file, on disk, or in an earlier one) and says
what each action does to these sets; the rest of the proof does not look at a sequence. The
inductive invariant is `TypeOK` and

* `OrderInv`: a transaction is prepared once and then ends once, so that its last
  record is its state;
* `RecInv`, `LogInv`: what the two logs hold of a transaction, by the position of its
  thread, and that what is committed is logged on disk or `unlogged`, and never both;
  after a crash, a logged transaction that is not committed is in the last
  file, and that is marked in use;
* `LastInv`, `LockInv`: a log that is opened has a file in use; who may write to or rotate
  it. While the log is not closed, `prepared_xids` counts the
  transactions between `log_xid` and `unlog`, hence a file is left only when all in
  it are committed on disk; once the log is closed the counter says nothing, and no
  rotation reads it;
* `XidInv`: the xids of the transactions a recovery may meet differ, although numbering
  begins again with each life of the server;
* `ReplyInv`: who has an answer is done.

The refinement maps each step: an outcome changes only at the sync of the log, at the
flush of the commit record of a transaction that is in no log, at the
rollback of one whose xid could not be written, at a crash and in the recovery, and the
answer is given after.

`OrderCorrect` rests on a second invariant over `Inv`, `CommitOrder`:

* `MutexInv`: a transaction between its prepare and the end of its commit holds
  `prepare_commit_mutex`;
* `TailInv`: no transaction is in the binary log twice, and one that is there without
  an end on disk is the last;
* `PairInv`: the property, of the transactions with a commit record.

Across a crash the order rests on where the mutex is released: after InnoDB's commit record
is flushed (`trx0trx.c:905`, `ha_innodb.cc:2233`). Nobody is logged before the one ahead of
it has its end on disk, hence recovery has at most the last logged transaction to
commit, and its record follows all the others. Transactions that are `unlogged` are in no
log and have no place in that order.

`TabStats_proofs`:

| Theorem | States |
| --- | --- |
| `ReadBack` | `de_marshal_key(marshal_key(k))` is `k` if its names are shorter than `Half`, and fails otherwise |
| `Invariance` | `Spec => []Inv` |
| `InsCorrect` | `Spec => []InsStatsDescribeSamples` |
| `BufferCorrect` | `Spec => []FillsBuffer` |
| `DumpCorrect` | `Spec => []TabDumpDescribesSamples` |

They hold for every width of the byte, every set of statements whose names have less than
`2 * Half` bytes (256 in the code, where names may take 192), every limit `MaxTables`
below that, thresholds that increase (as `time_bucket_threshold` does,
`cdb.cpp:304`), and durations below `DBL_MAX`.

`marshal_size`, `marshal_key`, `de_marshal_key` and the sums of durations are folds
over sequences of any length. `NatInd` states induction about a set: one that holds 0 and
with each n also n + 1 holds all natural numbers; it follows from the library's
facts on finite sets. `FoldExists` shows with it that the recursive definition behind a
fold has a solution, and `SizeSteps`, `KeySteps` and `SumSteps` give each fold as a
sequence of intermediate values. From there:

* `KeyLength`: size and written bytes grow by the same amount with each table;
* `ReadBack`: after i tables the reader stands where the writer stood, and has read the
  first i names; a length of `Half` or more is read as negative, and stops it. Hence
  `marshal_key` is injective on short keys, so that no two of them share an entry;
* `AddTells`, `AddMin`: an entry that describes samples s describes s with one more
  after `cdb_comm_stat_add`; the loop over the thresholds chooses the bucket that
  the header promises (`BucketTest`), which is where they have to increase.

The inductive invariant is `TypeInv` and, for each pool, `InsGood` or `TabGood`: the pool
is what its samples make of it. `TabGood` says of the table pool that it has the marshalled
keys of the samples and no other, that each has its size, and what the entries say
as long as all names are short. An entry whose key has a long name may be shared; such a
key is never removed before the reset and ends the dump, so nothing need be said of it.

`CacheAccess_proofs`, about one pool with any number of nodes, chunks, buckets and keys and
chunks of any size:

| Theorem | States |
| --- | --- |
| `PoolWellFormed` | `Spec => []WF(cache)`: the inductive invariant |
| `TypeCorrect` | `Spec => []TypeOK` |
| `NodesAlwaysPartitioned` | `Spec => []NodesPartitioned` |
| `ChunksAlwaysPartitioned` | `Spec => []ChunksPartitioned` |
| `PoolAlwaysVerifies` | `Spec => []CompletePoolVerifies` |
| `BulkMarkCleanAlwaysCompletes` | `Spec => []BulkMarkCleanCompletes` |
| `DumpAlwaysKeepsDirtyData` | `Spec => []DumpKeepsDirtyData` |
| `IterationAlwaysVisitsAllOnce` | `Spec => []IterationVisitsAllOnce` |
| `SetAlwaysFits` | `Spec => []SetRefusesOnlyWhatDoesNotFit`, for finitely many keys and values that are not empty |

A pool is links in memory, and the properties are about the lists that the links
make. `WF` says that such lists exist: A, the add list; B, a list per bucket; F, the
free nodes; C, a chain of chunks per entry; G, the free chunks. `Shape` relates them to the
pool: each is a list without repetition whose links are those in memory, forward and
backward; A and F divide the nodes, C and G the chunks; a node is in the bucket of its
key, and no two have the same key; a chain is as long as its value needs; the counters
count. None of the properties is inductive by itself, since an operation on one list
relies on the others: a chunk is freed safely because no other chain has it, and a node
leaves its bucket safely because its back link is right.

* What a store through a link does to the list it belongs to, and that it leaves every
  disjoint list alone, is said once for all lists (`IsList` and its lemmas).
* The loops of `malloc`, `free`, `split`, `merge`, `del_node`, `mark_clean`, of
  the iterator and of the dump are followed turn by turn, by the induction of
  `TabStats_proofs`: the invariant of a turn names the part of the list that is done.
* The bulk `mark_clean` moves the node its iterator stands on to the head of the list it
  walks. Its turns are bounded by a measure: the entries still to be marked, and then the place of
  the iterator. `ScanBound` is that bound, hence the loop ends for every pool.
* The visits of the iterator rotate the list; after i visits it is the last i entries
  followed by the others, hence after all of them it is as before.
* `SetAlwaysFits`: the chunks that other keys use, counted key by key as the property
  does, are those of their chains; the allocator has the rest. An empty value is the
  exception named above (`malloc(0)` answers the invalid handle).

`BinLogFile_proofs`:

| Theorem | States |
| --- | --- |
| `Invariance` | `Spec => []Inv` |
| `ReplayCorrect` | `Spec => []ReplayIsExact` |
| `RotationCorrect` | `Spec => OnlyTheLastFileGoes` |

They hold for any number of files above 1, any limit of their size, any payloads of one word
to `MaxItem` words, and any number of records, deaths and rotations cut short. The
inductive invariant is `Types /\ Log /\ Waiting /\ Moving /\ Reader /\ Handed`.

* `Log`: the words of a file are its complete records one behind the other (`Places` says
  where each begins) and, once one was torn, anything. The times of the records
  never decrease from the oldest file to file 0 (`Sorted`). Holes that a rotation leaves do not
  disturb this, since a file only ever moves to the next number, and only if that is free.
* `Moving`: in `ShiftFiles` the number after `i` is free. A rotation cut short may
  leave several holes; the next one removes the last file and moves on from there.
* `Handed`: what has been handed out is `Since` of the records of the older files and of
  those that lie before the reader's place in its file (`Stands`, `Between`), or
  a torn record has been passed and the wanted records before it are a prefix of what was
  handed out (`Lost`). Where a torn record follows, whatever words are read
  as a record can only be appended; where none follows, the reader is at the beginning
  of a record or at the end of its file.
* The search: `Begins` are the places of the records (`BeginsAre`). Its invariant
  from file to file, `SeekInv`, says that all records of the files it has passed are of the
  time asked for or later, and that a file it has opened begins at that time; when it ends,
  nothing wanted lies before the reader's place. This is where `Sorted` is needed.

`BeforeTear`, `Since`, `Begins` and the search are folds, and are followed step by step
as in `TabStats_proofs`.

**Only model-checked.** Liveness (`HeldLockReleased`, `WaitersNotForgotten`,
`QueuedIsServed`, `ShutdownCompletes`, `CommitsComeToAnEnd`), since the prover has no
fairness; the pool's refinement of `CacheStore`, whose sequences are filtered with
`SelectSeq`, which the prover does not evaluate; `Persist` and `PoolCrash`, whose
replays and stores are folds of other operators.

## Not modelled

The tree is a whole MySQL 5.1: 1.4 million lines, of which `src/cdb` and
`src/cdb-tools` are about one in two hundred. The modules cover the stateful parts of
these, and of the server only the two parts named above; measured by lines, the share of the tree is
small and will remain so. Parser, optimiser, replication, the storage engines and NDB
are each a project of their own, upstream code that the repository does not change
and the statistics do not depend on.

* In the server: TC_LOG_MMAP, external XA, `innodb_support_xa` off,
  `innodb_flush_log_at_trx_commit` 0 or 2, `sync_binlog` other than 1; the other
  thread schedulers and the manager thread.
* In the shutdown: a connection thread broadcasts `COND_thread_count` after it is no
  longer counted, when main may have destroyed the condition (`mysqld.cc:2001`); main
  does not wait for `signal_hand` (`mysqld.cc:1435`), so that the statistics may not
  be shut down; the switch thread is not stopped at all and may lock a destroyed
  mutex (the question in the comment at `cdb.cpp:262`). The first two are
  behaviours of `ConnThreads`, the third is outside it.
* The clock: a wall clock that is set back between two readings makes a duration wrap
  (`cdb.cpp:340`); `_last_switch_time`; node times and expiry.
* Registration of the segments at start-up, the third-party hash functions (equal
  128-bit hashes of different keys merge two entries), the configuration parser, the
  scripts and the size calculator (see `components` in `PROJECT.json`).
* The dump of one bucket, and the arithmetic of dump times.

## Plan

Done: `ShmPair`, `ShmDump`, `SpinLock`, `SpinLockInit`, `ConnThreads`, `XaCommit`,
`TabStats`, the pool (`ChunkAlloc`, `HashMap`, `CacheAccess`) and `BinLogFile` with their
proofs; the refinement of the pool, `Persist` and `PoolCrash` with their runs. What is left
is to prove more:

1. `Persist`: the replay into a pool, on top of what `BinLogFile_proofs` says of the log.
2. The pool's refinement of `CacheStore`, from the shapes of `CacheAccess_proofs`.
3. `PoolCrash`: complete changes from the same shapes; the states that a death leaves behind
   need a weaker one.
