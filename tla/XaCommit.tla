------------------------------ MODULE XaCommit ------------------------------
(***************************************************************************)
(* The two-phase commit of ha_commit_trans between InnoDB and the server's *)
(* binary log (TC_LOG_BINLOG), the rotation of that log, the death of      *)
(* mysqld or of the machine at any step, and the recovery of the next      *)
(* start, which may die too.                                               *)
(*                                                                         *)
(* InnoDB is its redo log: the state of a transaction is its last record,  *)
(* and a crash keeps the flushed records and some of the others, in order. *)
(* A binary log file is the sequence of its Xid_log_events.                *)
(* innodb_flush_log_at_trx_commit is 1 and innodb_support_xa is on.  The   *)
(* rotation may fail to open the next file: the binary log is then off, or *)
(* without a file, until the server is started again.                      *)
(***************************************************************************)
EXTENDS Integers, FiniteSets, Sequences, SequencesExt

CONSTANTS
    Trx,                 \* transactions that change InnoDB tables
    Admin, None,         \* Admin: a thread that rotates the log without an xid
    max_size,            \* max_binlog_size, in transactions
    sync_binlog_period,
    MaxCrash,            \* bound: crashes
    MaxLogs              \* bound: binary log files

ASSUME XaCommitAssumption ==
    /\ IsFiniteSet(Trx) /\ Admin \notin Trx /\ None \notin Trx \union {Admin}
    /\ max_size \in Nat \ {0} /\ sync_binlog_period \in Nat
    /\ MaxCrash \in Nat /\ MaxLogs \in Nat \ {0}

VARIABLES
    mode,                  \* "up", "down", "recover"
    pc,                    \* where each thread is
    xid,                   \* xid[t]: the query id of its first statement
    query_id,
    redo, flushed,         \* InnoDB's log, and how much of it is on disk
    logs,                  \* binary log files of the index
    synced,                \* transactions on disk in the last of them
    sync_binlog_counter,
    log_state,             \* "LOG_OPENED", "LOG_TO_BE_OPENED", "LOG_CLOSED"
    prepared_xids,
    LOCK_log, prepare_commit_mutex,   \* who holds them
    commit_list,           \* of ha_recover
    reply,                 \* what the client was told
    crashes,
    sync_failed,           \* history: transactions whose my_sync failed
    unlogged               \* history: those that found no file to be logged in

engine == <<redo, flushed>>
binlog == <<logs, synced, sync_binlog_counter, log_state>>
locks == <<LOCK_log, prepare_commit_mutex>>
vars == <<mode, pc, xid, query_id, engine, binlog, prepared_xids, locks,
          commit_list, reply, crashes, sync_failed, unlogged>>

Threads == Trx \union {Admin}

EmptyLog == [xids |-> <<>>, in_use |-> TRUE]
LastLog == logs[Len(logs)]
RealLog(log) == {log.xids[i] : i \in DOMAIN log.xids}
Logged == UNION {RealLog(logs[i]) : i \in DOMAIN logs}

\* The state of t in InnoDB: its last record.
State(t) ==
    LET mine == {i \in DOMAIN redo : redo[i][2] = t}
    IN IF mine = {} THEN "active" ELSE redo[Max(mine)][1]
Prepared == {t \in Trx : State(t) = "prepared"}

Init ==
    /\ mode = "up"
    /\ pc = [t \in Threads |-> "idle"]
    /\ xid = [t \in Trx |-> 0] /\ query_id = 1
    /\ redo = <<>> /\ flushed = 0
    /\ logs = <<EmptyLog>> /\ synced = 0 /\ sync_binlog_counter = 0
    /\ log_state = "LOG_OPENED" /\ prepared_xids = 0
    /\ LOCK_log = None /\ prepare_commit_mutex = None
    /\ commit_list = {}
    /\ reply = [t \in Trx |-> "none"]
    /\ crashes = 0 /\ sync_failed = {} /\ unlogged = {}

Goto(t, l) == pc' = [pc EXCEPT ![t] = l]
At(t, l) == mode = "up" /\ pc[t] = l

----------------------------------------------------------------------------
(* ha_commit_trans.                                                        *)

\* is_open() of the log, and the end of new_file_impl for its caller.
is_open == log_state # "LOG_CLOSED"
AfterRotate(t) == IF t = Admin THEN "idle" ELSE "answer"

\* trans_register_ha: the xid of a transaction is its first query id.  The first
\* event it writes registers the binary log, too; without a log InnoDB is alone
\* and commits in one phase.
Begin(t) ==
    /\ At(t, "idle") /\ LOCK_log = None
    /\ xid' = [xid EXCEPT ![t] = query_id]
    /\ query_id' = query_id + 1
    /\ Goto(t, IF is_open THEN "prepare" ELSE "alone")
    /\ unlogged' = IF is_open THEN unlogged ELSE unlogged \union {t}
    /\ UNCHANGED <<mode, engine, binlog, prepared_xids, locks, commit_list, reply, crashes, sync_failed>>

\* Mutant: without prepare_commit_mutex.
LockPrepareUnordered(t) ==
    /\ At(t, "prepare")
    /\ redo' = Append(redo, <<"prepared", t>>)
    /\ Goto(t, "prepare_flush")
    /\ UNCHANGED <<mode, xid, query_id, flushed, binlog, prepared_xids, locks,
                   commit_list, reply, crashes, sync_failed, unlogged>>

\* innobase_xa_prepare; binlog_prepare does nothing.
LockPrepare(t) ==
    /\ At(t, "prepare") /\ prepare_commit_mutex = None
    /\ prepare_commit_mutex' = t
    /\ redo' = Append(redo, <<"prepared", t>>)
    /\ Goto(t, "prepare_flush")
    /\ UNCHANGED <<mode, xid, query_id, flushed, binlog, prepared_xids, LOCK_log,
                   commit_list, reply, crashes, sync_failed, unlogged>>

FlushPrepare(t) ==
    /\ At(t, "prepare_flush")
    /\ flushed' = Len(redo)
    /\ Goto(t, "log")
    /\ UNCHANGED <<mode, xid, query_id, redo, binlog, prepared_xids, locks, commit_list,
                   reply, crashes, sync_failed, unlogged>>

\* MYSQL_BIN_LOG::write up to flush_io_cache, which may fail.  A log that is
\* closed is not written, and that is no error.  After a rotation that has left
\* no file, the write goes to a closed descriptor and fails, or to whatever
\* file has got that descriptor since.
WriteXid(t) ==
    /\ At(t, "log") /\ LOCK_log = None
    /\ \/ /\ log_state = "LOG_OPENED"
          /\ LOCK_log' = t
          /\ logs' = [logs EXCEPT ![Len(logs)].xids = Append(@, t)]
          /\ Goto(t, "sync")
          /\ UNCHANGED unlogged
       \/ /\ log_state = "LOG_TO_BE_OPENED"
          /\ LOCK_log' = t
          /\ unlogged' = unlogged \union {t}
          /\ Goto(t, "sync")
          /\ UNCHANGED logs
       \/ /\ ~is_open
          /\ unlogged' = unlogged \union {t}
          /\ Goto(t, "commit")
          /\ UNCHANGED <<LOCK_log, logs>>
       \/ /\ Goto(t, "log_failed")
          /\ UNCHANGED <<LOCK_log, logs, unlogged>>
    /\ UNCHANGED <<mode, xid, query_id, engine, synced, sync_binlog_counter, log_state,
                   prepared_xids, prepare_commit_mutex, commit_list, reply, crashes, sync_failed>>

\* The rest of flush_and_sync: my_sync may fail, and the transaction stays in the
\* file.  Nothing reads the counter when the period is 0.
MustSync == sync_binlog_period > 0 /\ sync_binlog_counter + 1 >= sync_binlog_period

\* Mutant: the log is flushed and not synced.
SyncLogFlushOnly(t) ==
    /\ At(t, "sync")
    /\ sync_binlog_counter' = 0
    /\ Goto(t, "written")
    /\ UNCHANGED <<mode, xid, query_id, engine, logs, synced, log_state, prepared_xids, locks,
                   commit_list, reply, crashes, sync_failed, unlogged>>

SyncLog(t) ==
    /\ At(t, "sync")
    /\ sync_binlog_counter' = IF MustSync \/ sync_binlog_period = 0 THEN 0
                              ELSE sync_binlog_counter + 1
    /\ \/ /\ synced' = IF MustSync THEN Len(LastLog.xids) ELSE synced
          /\ Goto(t, "written")
          /\ UNCHANGED <<LOCK_log, sync_failed>>
       \/ /\ MustSync
          /\ sync_failed' = sync_failed \union {t}
          /\ Goto(t, "log_failed")
          /\ LOCK_log' = None
          /\ UNCHANGED synced
    /\ UNCHANGED <<mode, xid, query_id, engine, logs, log_state, prepared_xids,
                   prepare_commit_mutex, commit_list, reply, crashes, unlogged>>

CountXid(t) ==
    /\ At(t, "written")
    /\ prepared_xids' = prepared_xids + 1
    /\ LOCK_log' = None
    /\ Goto(t, "commit")
    /\ UNCHANGED <<mode, xid, query_id, engine, binlog, prepare_commit_mutex, commit_list,
                   reply, crashes, sync_failed, unlogged>>

\* log_xid failed: ha_rollback_trans.  A rollback ends like a commit, with a
\* record that is flushed; but innobase_rollback forgets that the transaction
\* holds prepare_commit_mutex.
Rollback(t) ==
    /\ At(t, "log_failed")
    /\ redo' = Append(redo, <<"aborted", t>>)
    /\ flushed' = Len(redo')
    /\ Goto(t, "answer")
    /\ UNCHANGED <<mode, xid, query_id, binlog, prepared_xids, locks,
                   commit_list, reply, crashes, sync_failed, unlogged>>

\* innobase_commit: in memory, on disk, and then the mutex, which a commit in
\* one phase does not have (active_trans is not 2); nor has it anything to unlog.
CommitInMemory(t) ==
    /\ mode = "up" /\ pc[t] \in {"commit", "alone"}
    /\ redo' = Append(redo, <<"committed", t>>)
    /\ Goto(t, IF pc[t] = "commit" THEN "commit_flush" ELSE "alone_flush")
    /\ UNCHANGED <<mode, xid, query_id, flushed, binlog, prepared_xids, locks,
                   commit_list, reply, crashes, sync_failed, unlogged>>

\* Mutant: the mutex is kept.
KeepMutex(t) == UNCHANGED prepare_commit_mutex

ReleaseMutex(t) ==
    prepare_commit_mutex' = IF pc[t] = "commit_flush" THEN None ELSE prepare_commit_mutex

FlushCommit(t) ==
    /\ mode = "up" /\ pc[t] \in {"commit_flush", "alone_flush"}
    /\ flushed' = Len(redo)
    /\ ReleaseMutex(t)
    /\ Goto(t, IF pc[t] = "commit_flush" THEN "unlog" ELSE "answer")
    /\ UNCHANGED <<mode, xid, query_id, redo, binlog, prepared_xids, LOCK_log,
                   commit_list, reply, crashes, sync_failed, unlogged>>

\* An xid that was not counted is discounted, too: the unsigned counter wraps,
\* which is a negative number here; with the log closed nothing reads it.
Unlog(t) ==
    /\ At(t, "unlog")
    /\ prepared_xids' = prepared_xids - 1
    /\ Goto(t, "rotate")
    /\ UNCHANGED <<mode, xid, query_id, engine, binlog, locks, commit_list, reply, crashes, sync_failed, unlogged>>

\* rotate_and_purge(0), at the end of unlog.
Rotate(t) ==
    /\ At(t, "rotate") /\ LOCK_log = None
    /\ IF is_open /\ Len(LastLog.xids) >= max_size /\ Len(logs) < MaxLogs
       THEN LOCK_log' = t /\ Goto(t, "new_file")
       ELSE UNCHANGED LOCK_log /\ Goto(t, "answer")
    /\ UNCHANGED <<mode, xid, query_id, engine, binlog, prepared_xids,
                   prepare_commit_mutex, commit_list, reply, crashes, sync_failed, unlogged>>

\* rotate_and_purge of FLUSH LOGS, or after an event without an xid.
ForceRotate ==
    /\ At(Admin, "idle") /\ LOCK_log = None /\ is_open /\ Len(logs) < MaxLogs
    /\ LOCK_log' = Admin
    /\ Goto(Admin, "new_file")
    /\ UNCHANGED <<mode, xid, query_id, engine, binlog, prepared_xids,
                   prepare_commit_mutex, commit_list, reply, crashes, sync_failed, unlogged>>

\* Mutant: without the wait for the logged xids.
CloseLogAtOnce(t) ==
    /\ At(t, "new_file") /\ log_state = "LOG_OPENED"
    /\ logs' = [logs EXCEPT ![Len(logs)].in_use = FALSE]
    /\ synced' = Len(LastLog.xids)
    /\ log_state' = "LOG_TO_BE_OPENED"
    /\ Goto(t, "open_file")
    /\ UNCHANGED <<mode, xid, query_id, engine, sync_binlog_counter, prepared_xids,
                   locks, commit_list, reply, crashes, sync_failed, unlogged>>

\* new_file_impl: wait for every logged xid to be unlogged, and close.
CloseLog(t) ==
    /\ At(t, "new_file") /\ log_state = "LOG_OPENED"
    /\ prepared_xids = 0
    /\ logs' = [logs EXCEPT ![Len(logs)].in_use = FALSE]
    /\ synced' = Len(LastLog.xids)
    /\ log_state' = "LOG_TO_BE_OPENED"
    /\ Goto(t, "open_file")
    /\ UNCHANGED <<mode, xid, query_id, engine, sync_binlog_counter, prepared_xids,
                   locks, commit_list, reply, crashes, sync_failed, unlogged>>

\* generate_new_name finds no name, and the log goes on (bound: Admin gives up).
KeepLog(t) ==
    /\ At(t, "new_file") /\ log_state = "LOG_OPENED"
    /\ prepared_xids = 0
    /\ LOCK_log' = None
    /\ Goto(t, IF t = Admin THEN "done" ELSE "answer")
    /\ UNCHANGED <<mode, xid, query_id, engine, binlog, prepared_xids,
                   prepare_commit_mutex, commit_list, reply, crashes, sync_failed, unlogged>>

\* The caller does not look at the result of open.
OpenLog(t) ==
    /\ At(t, "open_file")
    /\ logs' = Append(logs, EmptyLog)
    /\ synced' = 0
    /\ log_state' = "LOG_OPENED"
    /\ LOCK_log' = None
    /\ Goto(t, AfterRotate(t))
    /\ UNCHANGED <<mode, xid, query_id, engine, sync_binlog_counter, prepared_xids,
                   prepare_commit_mutex, commit_list, reply, crashes, sync_failed, unlogged>>

\* "Turning logging off for the whole duration of the MySQL server process": the
\* new file may have come into the index already.
OpenFails(t) ==
    /\ At(t, "open_file")
    /\ \/ logs' = Append(logs, EmptyLog) /\ synced' = 0
       \/ UNCHANGED <<logs, synced>>
    /\ log_state' = "LOG_CLOSED"
    /\ LOCK_log' = None
    /\ Goto(t, AfterRotate(t))
    /\ UNCHANGED <<mode, xid, query_id, engine, sync_binlog_counter, prepared_xids,
                   prepare_commit_mutex, commit_list, reply, crashes, sync_failed, unlogged>>

\* Without the index file, or its register, open does not come to that: the log
\* remains to be opened, and has no name.
NotOpened(t) ==
    /\ At(t, "open_file")
    /\ LOCK_log' = None
    /\ Goto(t, AfterRotate(t))
    /\ UNCHANGED <<mode, xid, query_id, engine, binlog, prepared_xids,
                   prepare_commit_mutex, commit_list, reply, crashes, sync_failed, unlogged>>

AnswerClient(t) ==
    /\ At(t, "answer")
    /\ reply' = [reply EXCEPT ![t] = State(t)]
    /\ Goto(t, "done")
    /\ UNCHANGED <<mode, xid, query_id, engine, binlog, prepared_xids, locks,
                   commit_list, crashes, sync_failed, unlogged>>

----------------------------------------------------------------------------
(* Crash and restart.                                                      *)

\* What the machine loses: a tail of each log that was not forced to disk.
Die ==
    /\ mode' = "down"
    /\ \E n \in flushed..Len(redo) :
          redo' = SubSeq(redo, 1, n) /\ flushed' = n
    /\ \E n \in synced..Len(LastLog.xids) :
          logs' = [logs EXCEPT ![Len(logs)].xids = SubSeq(@, 1, n)] /\ synced' = n
    /\ pc' = [t \in Threads |-> IF pc[t] = "idle" \/ t = Admin THEN "idle" ELSE "done"]
    /\ sync_binlog_counter' = 0 /\ log_state' = "LOG_CLOSED" /\ prepared_xids' = 0
    /\ LOCK_log' = None /\ prepare_commit_mutex' = None
    /\ query_id' = 1 /\ commit_list' = {}
    /\ UNCHANGED <<xid, reply, sync_failed, unlogged>>

Crash ==
    /\ mode # "down" /\ crashes < MaxCrash
    /\ crashes' = crashes + 1
    /\ Die

\* The rotation of a log without a name: generate_new_name follows the pointer.
RotateNameless(t) ==
    /\ At(t, "new_file") /\ log_state = "LOG_TO_BE_OPENED"
    /\ prepared_xids = 0
    /\ Die
    /\ UNCHANGED crashes

\* Mutant: rolls back whatever is prepared.
ReadLastLogNot ==
    /\ mode = "down"
    /\ commit_list' = {}
    /\ mode' = "recover"
    /\ UNCHANGED <<pc, xid, query_id, engine, binlog, prepared_xids, locks, reply, crashes, sync_failed, unlogged>>

\* TC_LOG_BINLOG::open: the xids of the last file, if it was not closed.
ReadLastLog ==
    /\ mode = "down"
    /\ commit_list' = IF LastLog.in_use THEN {xid[t] : t \in RealLog(LastLog)} ELSE {}
    /\ mode' = "recover"
    /\ UNCHANGED <<pc, xid, query_id, engine, binlog, prepared_xids, locks, reply, crashes, sync_failed, unlogged>>

\* ha_recover: every prepared transaction, by its xid.
RecoverTrx(t) ==
    /\ mode = "recover" /\ t \in Prepared
    /\ redo' = Append(redo, <<IF xid[t] \in commit_list THEN "committed" ELSE "aborted", t>>)
    /\ flushed' = Len(redo')
    /\ UNCHANGED <<mode, pc, xid, query_id, binlog, prepared_xids, locks, commit_list,
                   reply, crashes, sync_failed, unlogged>>

\* mysql_bin_log.open of the start: a new file, listed in the index.  If it
\* fails the server does not start, which is a Crash here.
FinishStart ==
    /\ mode = "recover" /\ Prepared = {}
    /\ logs' = Append(logs, EmptyLog) /\ synced' = 0 /\ log_state' = "LOG_OPENED"
    /\ mode' = "up"
    /\ UNCHANGED <<pc, xid, query_id, engine, sync_binlog_counter, prepared_xids, locks,
                   commit_list, reply, crashes, sync_failed, unlogged>>

----------------------------------------------------------------------------
CommitStep(t) ==
    \/ LockPrepare(t) \/ FlushPrepare(t)
    \/ WriteXid(t) \/ SyncLog(t) \/ CountXid(t) \/ Rollback(t)
    \/ CommitInMemory(t) \/ FlushCommit(t) \/ Unlog(t)
    \/ Rotate(t) \/ AnswerClient(t)

NewFile(t) ==
    \/ CloseLog(t) \/ KeepLog(t) \/ RotateNameless(t)
    \/ OpenLog(t) \/ OpenFails(t) \/ NotOpened(t)

Recovery == ReadLastLog \/ (\E t \in Trx : RecoverTrx(t)) \/ FinishStart

\* A transaction that was rolled back has kept prepare_commit_mutex.
Leaked ==
    \E t \in Trx : prepare_commit_mutex = t /\ pc[t] = "done" /\ State(t) = "aborted"

\* Nobody has anything to do, or those who have wait for a mutex that nobody frees.
AllEnded == mode = "up" /\ \A t \in Trx : pc[t] = "done" \/ (Leaked /\ pc[t] = "prepare")

Next ==
    \/ \E t \in Trx : Begin(t) \/ CommitStep(t)
    \/ ForceRotate \/ \E t \in Threads : NewFile(t)
    \/ Crash \/ Recovery
    \/ AllEnded /\ UNCHANGED vars

Spec == Init /\ [][Next]_vars

FairSpec ==
    /\ Spec
    /\ \A t \in Trx : SF_vars(CommitStep(t))
    /\ \A t \in Threads : WF_vars(NewFile(t))
    /\ WF_vars(Recovery)

----------------------------------------------------------------------------
\* Where a transaction has no end yet, and where it comes to one.
OpenPcs == {"prepare_flush", "log", "sync", "written", "commit", "log_failed"}
Pcs == OpenPcs \union {"idle", "prepare", "commit_flush", "alone", "alone_flush", "unlog",
                       "rotate", "new_file", "open_file", "answer", "done"}

TypeOK ==
    /\ mode \in {"up", "down", "recover"}
    /\ pc \in [Threads -> Pcs]
    /\ xid \in [Trx -> Nat] /\ query_id \in Nat
    /\ redo \in Seq({"prepared", "committed", "aborted"} \X Trx)
    /\ flushed \in 0..Len(redo)
    /\ logs \in Seq([xids : Seq(Trx), in_use : BOOLEAN]) /\ Len(logs) > 0
    /\ synced \in 0..Len(LastLog.xids)
    /\ sync_binlog_counter \in Nat /\ prepared_xids \in Int
    /\ log_state \in {"LOG_OPENED", "LOG_TO_BE_OPENED", "LOG_CLOSED"}
    /\ LOCK_log \in Threads \union {None} /\ prepare_commit_mutex \in Trx \union {None}
    /\ commit_list \subseteq Nat
    /\ reply \in [Trx -> {"none", "committed", "aborted"}]
    /\ crashes \in 0..MaxCrash /\ sync_failed \subseteq Trx /\ unlogged \subseteq Trx

(* InnoDB and the binary log hold the same transactions: one that is       *)
(* committed in InnoDB is in the binary log, whatever a crash takes,       *)
(* unless a failed rotation had turned the log off when it came there; and *)
(* one in the binary log of a running server is committed in InnoDB, or    *)
(* its own thread is about to commit it, unless my_sync failed for it.     *)
LogAndEngineAgree ==
    \A t \in Trx :
        /\ State(t) = "committed" => t \in Logged \union unlogged
        /\ t \in Logged /\ mode = "up" =>
              \/ State(t) = "committed" \/ pc[t] \in {"sync", "written", "commit"}
              \/ t \in sync_failed

\* t stands before u in the binary log; InnoDB committed it before u.
LoggedBefore(t, u) ==
    \E a, b \in DOMAIN logs : \E x \in DOMAIN logs[a].xids, y \in DOMAIN logs[b].xids :
        /\ a < b \/ (a = b /\ x < y)
        /\ logs[a].xids[x] = t /\ logs[b].xids[y] = u
CommittedBefore(t, u) ==
    \E i, j \in DOMAIN redo :
        i < j /\ redo[i] = <<"committed", t>> /\ redo[j] = <<"committed", u>>

(* "For ibbackup to work the order of transactions in binlog and InnoDB    *)
(* must be the same": whatever stands in the binary log before a           *)
(* transaction that is committed in InnoDB was committed there before it,  *)
(* but for one that is rolled back because my_sync failed.                 *)
SameOrder ==
    \A t, u \in Trx :
        LoggedBefore(t, u) /\ State(u) = "committed" =>
            CommittedBefore(t, u) \/ (t \in sync_failed /\ State(t) # "committed")

(* "on recover we only need to scan one - latest - binlog file for         *)
(* prepared xids": no prepared transaction is logged in an earlier file    *)
(* (but one whose my_sync failed, which is to be rolled back), and none    *)
(* has the xid of another one that the last file holds.                    *)
LastLogIsEnough ==
    \A t \in Prepared :
        /\ \A i \in DOMAIN logs :
              t \in RealLog(logs[i]) => (i = Len(logs) /\ LastLog.in_use) \/ t \in sync_failed
        /\ \A u \in RealLog(LastLog) : u # t => xid[u] # xid[t]

(* A transaction is decided when its xid is where a crash cannot take it,  *)
(* or its commit if it found no log, or when its thread is gone and it is  *)
(* not; InnoDB decides on one whose my_sync failed.                        *)
OnDisk(i) == IF i < Len(logs) THEN Len(logs[i].xids) ELSE synced
Durable(t) ==
    \/ \E i \in DOMAIN logs : \E j \in 1..OnDisk(i) : logs[i].xids[j] = t
    \/ t \in unlogged /\ \E i \in 1..flushed : redo[i] = <<"committed", t>>
outcome ==
    [t \in Trx |->
        CASE t \in sync_failed -> IF State(t) \in {"committed", "aborted"} THEN State(t) ELSE "none"
          [] t \notin sync_failed /\ Durable(t) -> "committed"
          [] /\ t \notin Logged \union sync_failed /\ ~Durable(t)
             /\ pc[t] \in {"answer", "done"} -> "aborted"
          [] OTHER -> "none"]

Abstract == INSTANCE TrxOutcome WITH outcome <- outcome, reply <- reply

(* The commit is crash-safe: outcomes are decided once, and answers tell   *)
(* them.                                                                   *)
ImplementsTrxOutcome == Abstract!Spec

(* innobase_xa_prepare: "we're taking the mutex on prepare, and releasing  *)
(* it on commit", and "we don't want to block for undefined period of      *)
(* time": a transaction that asks for the mutex comes to an end, crash or  *)
(* no crash, rotation or no rotation, unless one that was rolled back has  *)
(* kept the mutex.                                                         *)
CommitsComeToAnEnd == \A t \in Trx : pc[t] = "prepare" ~> (pc[t] = "done" \/ Leaked)
============================================================================
