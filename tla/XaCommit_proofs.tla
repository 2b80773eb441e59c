-------------------------- MODULE XaCommit_proofs --------------------------
(***************************************************************************)
(* Crash safety of the two-phase commit, for any number of transactions,   *)
(* crashes and binary log files, when the binary log is synced at every    *)
(* commit.  InnoDB's log and the binary log are seen as sets: who is in    *)
(* them, and who is where a crash cannot take it.  The invariant:          *)
(*   OrderInv  a transaction is prepared once, and then ends once;         *)
(*   RecInv    what InnoDB's log holds of a transaction, by its place;     *)
(*   LogInv    what the binary log holds of it, and who has found none to  *)
(*             be held in;                                                 *)
(*   LastInv   what the last file tells the recovery, and that a log which *)
(*             is opened has a file in use;                                *)
(*   LockInv   one thread at a time writes or changes the last file, and   *)
(*             prepared_xids counts those between log_xid and unlog, as    *)
(*             long as the log is not closed;                              *)
(*   XidInv    the xids of one life of the server differ, although they    *)
(*             begin again at 1 with the next one;                         *)
(*   ReplyInv  who has an answer is done.                                  *)
(***************************************************************************)
EXTENDS XaCommit, FiniteSetTheorems, SequenceTheorems, TLAPS

Kinds == {"prepared", "committed", "aborted"}
LogType == [xids : Seq(Trx), in_use : BOOLEAN]

\* Who has a record in InnoDB's log, and one on disk.
Rec(s) == {t \in Trx : \E i \in 1..Len(redo) : redo[i] = <<s, t>>}
RecDisk(s) == {t \in Trx : \E i \in 1..flushed : redo[i] = <<s, t>>}
PreparedRec == Rec("prepared")
CommittedRec == Rec("committed")
AbortedRec == Rec("aborted")
PreparedDisk == RecDisk("prepared")
CommittedDisk == RecDisk("committed")
AbortedDisk == RecDisk("aborted")
InDoubt == PreparedRec \ (CommittedRec \union AbortedRec)

\* Who is in the last binary log file, in it on disk, and in the others.
InLast == RealLog(LastLog)
InLastDisk == {LastLog.xids[j] : j \in 1..synced}
Earlier == UNION {RealLog(logs[i]) : i \in 1..(Len(logs) - 1)}
InUse == LastLog.in_use
AllSynced == synced = Len(LastLog.xids)

OrderInv ==
    \A i, j \in 1..Len(redo) :
        i < j /\ redo[i][2] = redo[j][2] => redo[i][1] = "prepared" /\ redo[j][1] # "prepared"

RecInv ==
    /\ \A t \in Trx :
        /\ pc[t] \in {"idle", "prepare", "alone"} =>
             t \notin PreparedRec \union CommittedRec \union AbortedRec
        /\ pc[t] \in OpenPcs => t \in InDoubt
        /\ pc[t] \in (OpenPcs \ {"prepare_flush"}) \union {"commit_flush"} => t \in PreparedDisk
        /\ pc[t] \in {"commit_flush", "alone_flush"} => t \in CommittedRec
        /\ pc[t] \in {"unlog", "rotate", "new_file", "open_file"} => t \in CommittedDisk
        /\ pc[t] = "answer" => t \in CommittedDisk \union AbortedDisk
        /\ pc[t] = "done" /\ mode = "up" =>
             \/ t \notin PreparedRec \union CommittedRec
             \/ t \in CommittedDisk \union AbortedDisk
    /\ PreparedDisk \subseteq PreparedRec /\ CommittedDisk \subseteq CommittedRec
    /\ AbortedDisk = AbortedRec
    /\ mode # "up" =>
         /\ \A t \in Trx : pc[t] \in {"idle", "done"}
         /\ PreparedDisk = PreparedRec /\ CommittedDisk = CommittedRec
         /\ InLastDisk = InLast

LogInv ==
    /\ CommittedRec \subseteq Earlier \union InLastDisk \union unlogged
    /\ Earlier \union InLast \subseteq PreparedDisk \ unlogged
    /\ InLastDisk \subseteq InLast
    /\ Earlier \subseteq CommittedDisk \union sync_failed
    /\ \A t \in Trx :
        /\ pc[t] \in {"idle", "prepare", "prepare_flush", "log"} =>
             t \notin Earlier \union InLast \union sync_failed \union unlogged
        /\ pc[t] \in {"alone", "alone_flush"} => t \in unlogged \ sync_failed
        /\ pc[t] = "sync" =>
             /\ t \in InLast \union unlogged
             /\ t \notin Earlier \union InLastDisk \union sync_failed
        /\ pc[t] \in {"written", "commit", "commit_flush"} =>
             t \in (InLastDisk \union unlogged) \ sync_failed
        /\ pc[t] = "log_failed" /\ t \notin sync_failed => t \notin Earlier \union InLast
        /\ t \in (Earlier \union InLast) \ sync_failed /\ mode = "up" =>
             \/ t \in CommittedDisk
             \/ t \in InLast /\ pc[t] \in {"sync", "written", "commit", "commit_flush"}
        /\ t \in (Earlier \union InLast) \ sync_failed /\ mode # "up" =>
             \/ t \in CommittedDisk
             \/ t \in InLast \ (CommittedRec \union AbortedRec) /\ InUse

LastInv ==
    /\ ~InUse => /\ InLast \subseteq CommittedDisk \union sync_failed
                 /\ \A t \in Trx :
                      pc[t] \in {"sync", "written", "commit", "commit_flush"} => t \in unlogged
    /\ mode = "up" /\ log_state = "LOG_OPENED" => InUse
    /\ mode = "recover" => commit_list = IF InUse THEN {xid[t] : t \in InLast} ELSE {}
    /\ \A t \in Threads : pc[t] = "open_file" =>
          ~InUse /\ InLastDisk = InLast /\ log_state = "LOG_TO_BE_OPENED"

Counted == {t \in Trx : pc[t] \in {"commit", "commit_flush", "unlog"}}

LockInv ==
    /\ \A t \in Threads :
          pc[t] \in {"sync", "written", "new_file", "open_file"} => LOCK_log = t
    /\ pc[Admin] \in {"idle", "new_file", "open_file", "done"}
    /\ mode # "up" => pc[Admin] = "idle" /\ prepared_xids = 0
    /\ mode = "up" /\ is_open => prepared_xids = Cardinality(Counted)

Live == {t \in Trx : pc[t] \notin {"idle", "done"}} \union InLast \union InDoubt

XidInv ==
    /\ \A t, u \in Live : t # u => xid[t] # xid[u]
    /\ mode = "up" => \A t \in Live : xid[t] < query_id

ReplyInv == \A t \in Trx : reply[t] # "none" => pc[t] = "done"

Inv == TypeOK /\ OrderInv /\ RecInv /\ LogInv /\ LastInv /\ LockInv /\ XidInv /\ ReplyInv

---------------------------------------------------------------------------
(* InnoDB's log as sets.                                                   *)

RedoStays ==
    /\ PreparedRec' = PreparedRec /\ CommittedRec' = CommittedRec /\ AbortedRec' = AbortedRec
    /\ PreparedDisk' = PreparedDisk /\ CommittedDisk' = CommittedDisk
    /\ AbortedDisk' = AbortedDisk

\* Every record up to here is on disk.
DiskIsAll ==
    PreparedDisk = PreparedRec /\ CommittedDisk = CommittedRec /\ AbortedDisk = AbortedRec

\* The records that a thread or the recovery appends to InnoDB's log.
LEMMA AppendRec ==
    ASSUME TypeOK, NEW t \in Trx, NEW s \in Kinds, redo' = Append(redo, <<s, t>>)
    PROVE  /\ redo' \in Seq(Kinds \X Trx) /\ Len(redo') = Len(redo) + 1
           /\ \A k \in Kinds : Rec(k)' = IF k = s THEN Rec(k) \union {t} ELSE Rec(k)
           /\ flushed' = flushed => \A k \in Kinds : RecDisk(k)' = RecDisk(k)
<1>1. /\ redo \in Seq(Kinds \X Trx) /\ <<s, t>> \in Kinds \X Trx /\ Len(redo) \in Nat
      /\ flushed \in 0..Len(redo)
    BY DEF TypeOK, Kinds
<1>2. /\ redo' \in Seq(Kinds \X Trx) /\ Len(redo') = Len(redo) + 1
      /\ \A i \in 1..Len(redo) : redo'[i] = redo[i]
      /\ redo'[Len(redo) + 1] = <<s, t>>
    BY <1>1
<1>3. ASSUME NEW k \in Kinds PROVE Rec(k)' = IF k = s THEN Rec(k) \union {t} ELSE Rec(k)
  <2>1. \A i \in 1..Len(redo') : i \in 1..Len(redo) \/ i = Len(redo) + 1
      BY <1>1, <1>2
  <2>2. 1..Len(redo) \subseteq 1..Len(redo') /\ Len(redo) + 1 \in 1..Len(redo')
      BY <1>1, <1>2
  <2>3. \A u \in Trx : u \in Rec(k)' <=> u \in Rec(k) \/ (k = s /\ u = t)
    <3> TAKE u \in Trx
    <3>1. ASSUME u \in Rec(k)' PROVE u \in Rec(k) \/ (k = s /\ u = t)
      <4>1. PICK i \in 1..Len(redo') : redo'[i] = <<k, u>>
          BY <3>1 DEF Rec
      <4>2. CASE i \in 1..Len(redo)
          BY <1>2, <4>1, <4>2 DEF Rec
      <4>3. CASE i = Len(redo) + 1
          BY <1>2, <4>1, <4>3
      <4> QED
          BY <2>1, <4>2, <4>3
    <3>2. ASSUME u \in Rec(k) PROVE u \in Rec(k)'
      <4>1. PICK i \in 1..Len(redo) : redo[i] = <<k, u>>
          BY <3>2 DEF Rec
      <4>2. i \in 1..Len(redo') /\ redo'[i] = <<k, u>>
          BY <1>2, <2>2, <4>1
      <4> QED
          BY <4>2 DEF Rec
    <3>3. ASSUME k = s, u = t PROVE u \in Rec(k)'
        BY <1>2, <2>2, <3>3 DEF Rec
    <3> QED
        BY <3>1, <3>2, <3>3
  <2>4. Rec(k) \subseteq Trx /\ Rec(k)' \subseteq Trx
      BY DEF Rec
  <2> QED
      BY <2>3, <2>4
<1>4. ASSUME flushed' = flushed, NEW k \in Kinds PROVE RecDisk(k)' = RecDisk(k)
  <2>1. \A i \in 1..flushed : redo'[i] = redo[i]
      BY <1>1, <1>2
  <2> QED
      BY <1>4, <2>1 DEF RecDisk
<1> QED
    BY <1>2, <1>3, <1>4

\* A transaction that has not ended may be prepared, once, or end.
LEMMA AppendOrder ==
    ASSUME TypeOK, OrderInv, NEW t \in Trx, NEW s \in Kinds, redo' = Append(redo, <<s, t>>),
           t \notin CommittedRec \union AbortedRec, s = "prepared" => t \notin PreparedRec
    PROVE  OrderInv'
<1>1. /\ redo \in Seq(Kinds \X Trx) /\ <<s, t>> \in Kinds \X Trx /\ Len(redo) \in Nat
    BY DEF TypeOK, Kinds
<1>2. /\ Len(redo') = Len(redo) + 1
      /\ \A i \in 1..Len(redo) : redo'[i] = redo[i] /\ redo[i] \in Kinds \X Trx
      /\ redo'[Len(redo) + 1] = <<s, t>>
    BY <1>1
<1>3. ASSUME NEW i \in 1..Len(redo), redo[i][2] = t
      PROVE  redo[i][1] = "prepared" /\ s # "prepared"
  <2>1. redo[i] = <<redo[i][1], t>> /\ redo[i][1] \in Kinds
      BY <1>2, <1>3
  <2> QED
      BY <2>1 DEF PreparedRec, CommittedRec, AbortedRec, Rec, Kinds
<1>4. ASSUME NEW i \in 1..Len(redo'), NEW j \in 1..Len(redo'), i < j,
             redo'[i][2] = redo'[j][2]
      PROVE  redo'[i][1] = "prepared" /\ redo'[j][1] # "prepared"
  <2>1. i \in 1..Len(redo)
      BY <1>1, <1>2, <1>4
  <2>2. CASE j \in 1..Len(redo)
      BY <1>2, <1>4, <2>1, <2>2 DEF OrderInv
  <2>3. CASE j = Len(redo) + 1
      BY <1>2, <1>3, <1>4, <2>1, <2>3
  <2> QED
      BY <1>1, <1>2, <2>2, <2>3
<1> QED
    BY <1>4 DEF OrderInv

\* A flush of the whole log.
LEMMA FlushFacts ==
    flushed' = Len(redo') => DiskIsAll'
    BY DEF DiskIsAll, PreparedRec, CommittedRec, AbortedRec, PreparedDisk, CommittedDisk,
           AbortedDisk, Rec, RecDisk

\* What of InnoDB's log a crash may take.
LEMMA CutRec ==
    ASSUME TypeOK, OrderInv, NEW n \in flushed..Len(redo),
           redo' = SubSeq(redo, 1, n), flushed' = n
    PROVE  /\ redo' \in Seq(Kinds \X Trx) /\ Len(redo') = n /\ OrderInv' /\ DiskIsAll'
           /\ \A k \in Kinds : Rec(k)' \subseteq Rec(k) /\ RecDisk(k) \subseteq Rec(k)'
<1>1. redo \in Seq(Kinds \X Trx) /\ Len(redo) \in Nat /\ flushed \in 0..Len(redo) /\ n \in Nat
    BY DEF TypeOK, Kinds
<1>2. /\ redo' \in Seq(Kinds \X Trx) /\ Len(redo') = n
      /\ \A i \in 1..n : redo'[i] = redo[i]
    BY <1>1
<1>3. OrderInv'
  <2>1. \A i \in 1..n : i \in 1..Len(redo)
      BY <1>1
  <2> QED
      BY <1>2, <2>1 DEF OrderInv
<1>4. DiskIsAll'
    BY <1>2, FlushFacts
<1>5. 1..n \subseteq 1..Len(redo) /\ 1..flushed \subseteq 1..n
    BY <1>1
<1>6. ASSUME NEW k \in Kinds PROVE Rec(k)' \subseteq Rec(k) /\ RecDisk(k) \subseteq Rec(k)'
    BY <1>2, <1>5 DEF Rec, RecDisk
<1> QED
    BY <1>2, <1>3, <1>4, <1>6

\* The state of a transaction is told by the kinds of its records.
LEMMA StateFacts ==
    ASSUME TypeOK, OrderInv, NEW t \in Trx
    PROVE  /\ State(t) = "committed" <=> t \in CommittedRec
           /\ State(t) = "aborted" <=> t \in AbortedRec
           /\ State(t) = "prepared" <=> t \in InDoubt
           /\ State(t) \in {"active", "prepared", "committed", "aborted"}
           /\ ~(t \in CommittedRec /\ t \in AbortedRec)
<1> DEFINE mine == {i \in DOMAIN redo : redo[i][2] = t}
<1>1. /\ redo \in Seq(Kinds \X Trx) /\ Len(redo) \in Nat /\ DOMAIN redo = 1..Len(redo)
      /\ \A i \in 1..Len(redo) : redo[i] \in Kinds \X Trx
    BY DEF TypeOK, Kinds
<1>2. \A i \in 1..Len(redo) : redo[i][1] \in Kinds /\ redo[i] = <<redo[i][1], redo[i][2]>>
    BY <1>1
<1>3. State(t) = IF mine = {} THEN "active" ELSE redo[Max(mine)][1]
    BY DEF State
<1>4. \A k \in Kinds : t \in Rec(k) <=> \E i \in mine : redo[i][1] = k
    BY <1>1, <1>2 DEF Rec
<1>5. mine \subseteq 1..Len(redo)
    BY <1>1
<1> HIDE DEF mine
<1>6. ASSUME NEW i \in mine, \A j \in mine : i >= j PROVE Max(mine) = i
  <2>1. Max(mine) \in mine /\ \A j \in mine : Max(mine) >= j
      BY <1>6 DEF Max
  <2>2. Max(mine) \in 1..Len(redo) /\ i \in 1..Len(redo)
      BY <1>5, <1>6, <2>1, Zenon
  <2>3. Max(mine) >= i /\ i >= Max(mine)
      BY <1>6, <2>1
  <2> QED
      BY <1>1, <2>2, <2>3
<1>7. ASSUME NEW i \in mine, redo[i][1] # "prepared"
      PROVE  Max(mine) = i /\ \A j \in mine : redo[j][1] # "prepared" => j = i
    BY <1>1, <1>5, <1>6, <1>7 DEF OrderInv, mine
<1>8. ASSUME NEW i \in mine, \A j \in mine : redo[j][1] = "prepared"
      PROVE  Max(mine) = i
    BY <1>1, <1>5, <1>6, <1>8 DEF OrderInv, mine
<1> QED
    BY <1>2, <1>3, <1>4, <1>5, <1>7, <1>8
    DEF PreparedRec, CommittedRec, AbortedRec, InDoubt, Kinds

---------------------------------------------------------------------------
(* The binary log as sets.                                                 *)

LogsStay ==
    Earlier' = Earlier /\ InLast' = InLast /\ InLastDisk' = InLastDisk /\ InUse' = InUse

\* The state variables of a log tell its sets.
LEMMA StayFacts ==
    /\ UNCHANGED engine => RedoStays /\ (OrderInv => OrderInv')
    /\ UNCHANGED <<logs, synced>> => LogsStay
    BY DEF engine, RedoStays, OrderInv, PreparedRec, CommittedRec, AbortedRec, PreparedDisk,
           CommittedDisk, AbortedDisk, Rec, RecDisk, LogsStay, Earlier, InLast, InLastDisk,
           InUse, LastLog, RealLog

\* The last file is part of the index.
LEMMA LastFacts ==
    ASSUME TypeOK
    PROVE  /\ logs \in Seq(LogType) /\ Len(logs) \in Nat /\ Len(logs) > 0
           /\ LastLog \in LogType /\ LastLog.xids \in Seq(Trx) /\ Len(LastLog.xids) \in Nat
           /\ LastLog.in_use \in BOOLEAN /\ synced \in 0..Len(LastLog.xids)
           /\ DOMAIN LastLog.xids = 1..Len(LastLog.xids)
           /\ InLast \subseteq Trx /\ InLastDisk \subseteq InLast
           /\ Logged = Earlier \union InLast
<1>1. logs \in Seq(LogType) /\ Len(logs) \in Nat /\ Len(logs) > 0 /\ DOMAIN logs = 1..Len(logs)
    BY DEF TypeOK, LogType
<1>2. LastLog \in LogType
    BY <1>1 DEF LastLog
<1>3. LastLog.xids \in Seq(Trx) /\ LastLog.in_use \in BOOLEAN
    BY <1>2 DEF LogType
<1>4. /\ Len(LastLog.xids) \in Nat /\ DOMAIN LastLog.xids = 1..Len(LastLog.xids)
      /\ synced \in 0..Len(LastLog.xids)
    BY <1>3 DEF TypeOK
<1>5. InLast \subseteq Trx
    BY <1>3 DEF InLast, RealLog
<1>6. InLastDisk \subseteq InLast
    BY <1>4 DEF InLast, RealLog, InLastDisk
<1>7. Logged = Earlier \union InLast
  <2>1. \A i : i \in DOMAIN logs <=> i \in 1..(Len(logs) - 1) \/ i = Len(logs)
      BY <1>1
  <2> QED
      BY <2>1 DEF Logged, Earlier, InLast, LastLog
<1> QED
    BY <1>1, <1>2, <1>3, <1>4, <1>5, <1>6, <1>7

\* The last file is written, closed or cut.
LEMMA ReplaceLast ==
    ASSUME TypeOK, NEW u \in LogType, logs' = [logs EXCEPT ![Len(logs)] = u]
    PROVE  logs' \in Seq(LogType) /\ Len(logs') = Len(logs) /\ LastLog' = u /\ Earlier' = Earlier
<1>1. logs \in Seq(LogType) /\ Len(logs) \in Nat /\ Len(logs) > 0
    BY LastFacts
<1>2. logs' \in Seq(LogType) /\ Len(logs') = Len(logs)
    BY <1>1, ExceptSeq
<1>3. LastLog' = u
    BY <1>1, <1>2 DEF LastLog
<1>4. \A i \in 1..(Len(logs) - 1) : logs'[i] = logs[i]
    BY <1>1
<1> QED
    BY <1>1, <1>2, <1>3, <1>4 DEF Earlier

\* WriteXid puts a transaction into the last file.
LEMMA WriteFacts ==
    ASSUME TypeOK, NEW t \in Trx, synced' = synced,
           logs' = [logs EXCEPT ![Len(logs)].xids = Append(@, t)]
    PROVE  /\ logs' \in Seq(LogType) /\ Len(logs') > 0 /\ synced' \in 0..Len(LastLog'.xids)
           /\ Earlier' = Earlier /\ InLast' = InLast \union {t} /\ InLastDisk' = InLastDisk
           /\ InUse' = InUse
<1>1. PICK u : u = [LastLog EXCEPT !.xids = Append(LastLog.xids, t)]
    OBVIOUS
<1>2. u \in LogType /\ u.xids = Append(LastLog.xids, t) /\ u.in_use = LastLog.in_use
  <2>1. Append(LastLog.xids, t) \in Seq(Trx)
      BY LastFacts
  <2> QED
      BY <1>1, <2>1, LastFacts DEF LogType
<1>3. logs' = [logs EXCEPT ![Len(logs)] = u]
    BY <1>1 DEF LastLog
<1>4. logs' \in Seq(LogType) /\ Len(logs') = Len(logs) /\ LastLog' = u /\ Earlier' = Earlier
    BY <1>2, <1>3, ReplaceLast
<1>5. /\ LastLog'.xids = Append(LastLog.xids, t)
      /\ Len(LastLog'.xids) = Len(LastLog.xids) + 1
      /\ DOMAIN LastLog'.xids = 1..(Len(LastLog.xids) + 1)
      /\ \A i \in 1..Len(LastLog.xids) : LastLog'.xids[i] = LastLog.xids[i]
      /\ LastLog'.xids[Len(LastLog.xids) + 1] = t
    BY <1>2, <1>4, LastFacts
<1>6. InLast' = InLast \union {t}
  <2>1. \A i : i \in 1..(Len(LastLog.xids) + 1) <=>
                  i \in 1..Len(LastLog.xids) \/ i = Len(LastLog.xids) + 1
      BY LastFacts
  <2> QED
      BY <1>5, <2>1, LastFacts DEF InLast, RealLog
<1>7. InLastDisk' = InLastDisk
  <2>1. \A i \in 1..synced : i \in 1..Len(LastLog.xids)
      BY LastFacts
  <2> QED
      BY <1>5, <2>1 DEF InLastDisk
<1>8. InUse' = InUse
    BY <1>2, <1>4 DEF InUse
<1> QED
    BY <1>4, <1>5, <1>6, <1>7, <1>8, LastFacts

\* flush_and_sync puts the last file on disk.
LEMMA SyncFacts ==
    ASSUME TypeOK, logs' = logs, synced' = Len(LastLog.xids)
    PROVE  /\ synced' \in 0..Len(LastLog'.xids)
           /\ Earlier' = Earlier /\ InLast' = InLast /\ InLastDisk' = InLast /\ InUse' = InUse
    BY LastFacts DEF Earlier, InLast, InLastDisk, InUse, LastLog, RealLog

\* CloseLog clears the in-use flag of a file that is on disk.
LEMMA CloseFacts ==
    ASSUME TypeOK, synced' = Len(LastLog.xids),
           logs' = [logs EXCEPT ![Len(logs)].in_use = FALSE]
    PROVE  /\ logs' \in Seq(LogType) /\ Len(logs') > 0 /\ synced' \in 0..Len(LastLog'.xids)
           /\ Earlier' = Earlier /\ InLast' = InLast /\ InLastDisk' = InLast /\ ~InUse'
<1>1. PICK u : u = [LastLog EXCEPT !.in_use = FALSE]
    OBVIOUS
<1>2. u \in LogType /\ u.xids = LastLog.xids /\ u.in_use = FALSE
    BY <1>1, LastFacts DEF LogType
<1>3. logs' = [logs EXCEPT ![Len(logs)] = u]
    BY <1>1 DEF LastLog
<1>4. logs' \in Seq(LogType) /\ Len(logs') = Len(logs) /\ LastLog' = u /\ Earlier' = Earlier
    BY <1>2, <1>3, ReplaceLast
<1>5. LastLog'.xids = LastLog.xids /\ LastLog'.in_use = FALSE
    BY <1>2, <1>4
<1>6. InLast' = InLast /\ ~InUse'
    BY <1>5 DEF InLast, RealLog, InUse
<1>7. InLastDisk' = InLast
    BY <1>5, LastFacts DEF InLastDisk, InLast, RealLog
<1> QED
    BY <1>4, <1>5, <1>6, <1>7, LastFacts

\* What of the last file a crash may take.
LEMMA CutFacts ==
    ASSUME TypeOK, NEW n \in synced..Len(LastLog.xids), synced' = n,
           logs' = [logs EXCEPT ![Len(logs)].xids = SubSeq(@, 1, n)]
    PROVE  /\ logs' \in Seq(LogType) /\ Len(logs') > 0 /\ synced' \in 0..Len(LastLog'.xids)
           /\ Earlier' = Earlier /\ InLast' \subseteq InLast /\ InLastDisk \subseteq InLast'
           /\ InLastDisk' = InLast' /\ InUse' = InUse
<1>1. PICK u : u = [LastLog EXCEPT !.xids = SubSeq(LastLog.xids, 1, n)]
    OBVIOUS
<1>a. n \in Nat /\ n <= Len(LastLog.xids) /\ synced <= n
    BY LastFacts
<1>b. /\ SubSeq(LastLog.xids, 1, n) \in Seq(Trx) /\ Len(SubSeq(LastLog.xids, 1, n)) = n
      /\ \A i \in 1..n : SubSeq(LastLog.xids, 1, n)[i] = LastLog.xids[i]
    BY <1>a, LastFacts
<1>2. u \in LogType /\ u.xids = SubSeq(LastLog.xids, 1, n) /\ u.in_use = LastLog.in_use
    BY <1>1, <1>b, LastFacts DEF LogType
<1>3. logs' = [logs EXCEPT ![Len(logs)] = u]
    BY <1>1 DEF LastLog
<1>4. logs' \in Seq(LogType) /\ Len(logs') = Len(logs) /\ LastLog' = u /\ Earlier' = Earlier
    BY <1>2, <1>3, ReplaceLast
<1>5. /\ Len(LastLog'.xids) = n /\ DOMAIN LastLog'.xids = 1..n
      /\ \A i \in 1..n : LastLog'.xids[i] = LastLog.xids[i]
    BY <1>2, <1>4, <1>b
<1>6. 1..n \subseteq 1..Len(LastLog.xids) /\ 1..synced \subseteq 1..n
    BY <1>a, LastFacts
<1>7. InLast' \subseteq InLast /\ InLastDisk \subseteq InLast' /\ InLastDisk' = InLast'
    BY <1>5, <1>6, LastFacts DEF InLast, InLastDisk, RealLog
<1>8. InUse' = InUse
    BY <1>2, <1>4 DEF InUse
<1> QED
    BY <1>4, <1>5, <1>7, <1>8, <1>a, LastFacts

\* A new file: of the rotation, or of the start.
LEMMA NewFileFacts ==
    ASSUME TypeOK, logs' = Append(logs, EmptyLog), synced' = 0
    PROVE  /\ logs' \in Seq(LogType) /\ Len(logs') > 0 /\ synced' \in 0..Len(LastLog'.xids)
           /\ Earlier' = Earlier \union InLast /\ InLast' = {} /\ InLastDisk' = {} /\ InUse'
<1>1. EmptyLog \in LogType /\ EmptyLog.xids = <<>> /\ EmptyLog.in_use = TRUE
    BY DEF EmptyLog, LogType
<1>2. /\ logs' \in Seq(LogType) /\ Len(logs') = Len(logs) + 1
      /\ \A i \in 1..Len(logs) : logs'[i] = logs[i]
      /\ logs'[Len(logs) + 1] = EmptyLog
    BY <1>1, LastFacts
<1>3. LastLog' = EmptyLog
    BY <1>2 DEF LastLog
<1>4. InLast' = {} /\ InUse' /\ InLastDisk' = {} /\ Len(LastLog'.xids) = 0
    BY <1>1, <1>3 DEF InLast, InLastDisk, InUse, RealLog
<1>5. Earlier' = Earlier \union InLast
  <2>1. \A i : i \in 1..(Len(logs') - 1) <=> i \in 1..(Len(logs) - 1) \/ i = Len(logs)
      BY <1>2, LastFacts
  <2>2. \A i \in 1..(Len(logs') - 1) : logs'[i] = logs[i]
      BY <1>2, LastFacts
  <2> QED
      BY <2>1, <2>2 DEF Earlier, InLast, LastLog
<1> QED
    BY <1>2, <1>4, <1>5, LastFacts

---------------------------------------------------------------------------
(* Every step keeps the invariant.                                         *)

\* The thread that rotates the log is no transaction.
LEMMA Names ==
    /\ Trx \subseteq Threads /\ Admin \in Threads /\ Admin \notin Trx
    /\ None \notin Threads /\ None \notin Trx
    BY XaCommitAssumption DEF Threads

\* prepared_xids tells whether somebody is counted, as long as the log is open.
LEMMA CountFacts ==
    ASSUME LockInv
    PROVE  /\ IsFiniteSet(Counted)
           /\ mode = "up" /\ is_open /\ prepared_xids = 0 => Counted = {}
<1>1. IsFiniteSet(Counted)
    BY XaCommitAssumption, FS_Subset DEF Counted
<1> QED
    BY <1>1, FS_CardinalityType, FS_EmptySet DEF LockInv

\* A transaction gets the next xid.
LEMMA BeginStep ==
    ASSUME Inv, NEW t \in Trx, Begin(t) PROVE Inv'
<1> USE Names DEF Inv
<1>a. RedoStays /\ LogsStay
    BY StayFacts DEF Begin, engine, binlog
<1>1. TypeOK'
    BY <1>a
    DEF Begin, At, Goto, engine, binlog, locks, TypeOK, LastLog, Pcs, OpenPcs, Threads
<1>2. OrderInv'
    BY StayFacts DEF Begin, engine
<1>3. RecInv'
    BY <1>a
    DEF Begin, At, Goto, engine, binlog, locks, TypeOK, RecInv, RedoStays, DiskIsAll,
        LogsStay, InDoubt, OpenPcs
<1>4. LogInv'
    BY <1>a
    DEF Begin, At, Goto, engine, binlog, locks, TypeOK, RecInv, LogInv, RedoStays,
        DiskIsAll, LogsStay, InDoubt, OpenPcs
<1>5. LastInv'
    BY <1>a
    DEF Begin, At, Goto, engine, binlog, locks, TypeOK, RecInv, LastInv, LockInv,
        RedoStays, DiskIsAll, LogsStay
<1>6. LockInv'
  <2>1. /\ \A u \in Threads : pc'[u] \in {"sync", "written", "new_file", "open_file"} => LOCK_log' = u
        /\ pc'[Admin] \in {"idle", "new_file", "open_file", "done"}
        /\ mode' # "up" => pc'[Admin] = "idle" /\ prepared_xids' = 0
      BY DEF Begin, At, Goto, engine, binlog, locks, TypeOK, LockInv
  <2>2. /\ Counted' = Counted /\ prepared_xids' = prepared_xids
        /\ mode' = "up" /\ is_open' => mode = "up" /\ is_open
      BY DEF Begin, At, Goto, engine, binlog, locks, TypeOK, Counted, is_open
  <2> QED
      BY <2>1, <2>2 DEF LockInv
<1>7. XidInv'
  <2>1. Live' \subseteq Live \union {t}
      BY <1>a DEF Begin, At, Goto, TypeOK, Live, RedoStays, LogsStay, InDoubt
  <2>2. /\ xid'[t] = query_id /\ query_id' = query_id + 1 /\ query_id \in Nat
        /\ \A u \in Trx : u # t => xid'[u] = xid[u]
      BY DEF Begin, TypeOK
  <2>3. /\ \A u \in Live \ {t} : u \in Trx /\ xid[u] \in Nat /\ xid[u] < query_id
        /\ mode = "up"
      BY LastFacts DEF Begin, At, TypeOK, XidInv, Live, InDoubt, PreparedRec, Rec
  <2> QED
      BY <2>1, <2>2, <2>3 DEF XidInv
<1>8. ReplyInv'
    BY <1>a DEF Begin, At, Goto, engine, binlog, locks, TypeOK, ReplyInv
<1> QED
    BY <1>1, <1>2, <1>3, <1>4, <1>5, <1>6, <1>7, <1>8

\* The client is told the end of the transaction.
LEMMA AnswerClientStep ==
    ASSUME Inv, NEW t \in Trx, AnswerClient(t) PROVE Inv'
<1> USE Names DEF Inv
<1>a. RedoStays /\ LogsStay
    BY StayFacts DEF AnswerClient, engine, binlog
<1>1. TypeOK'
  <2>1. State(t) \in {"committed", "aborted"}
      BY StateFacts DEF AnswerClient, At, RecInv
  <2> QED
      BY <2>1
      DEF AnswerClient, At, Goto, engine, binlog, locks, TypeOK, LastLog, Pcs, OpenPcs,
          Threads
<1>2. OrderInv'
    BY StayFacts DEF AnswerClient, engine
<1>3. RecInv'
    BY <1>a
    DEF AnswerClient, At, Goto, engine, binlog, locks, TypeOK, RecInv, RedoStays,
        DiskIsAll, LogsStay, InDoubt, OpenPcs
<1>4. LogInv'
    BY <1>a
    DEF AnswerClient, At, Goto, engine, binlog, locks, TypeOK, RecInv, LogInv,
        RedoStays, DiskIsAll, LogsStay, InDoubt, OpenPcs
<1>5. LastInv'
    BY <1>a
    DEF AnswerClient, At, Goto, engine, binlog, locks, TypeOK, RecInv, LastInv, LockInv,
        RedoStays, DiskIsAll, LogsStay
<1>6. LockInv'
  <2>1. /\ \A u \in Threads : pc'[u] \in {"sync", "written", "new_file", "open_file"} => LOCK_log' = u
        /\ pc'[Admin] \in {"idle", "new_file", "open_file", "done"}
        /\ mode' # "up" => pc'[Admin] = "idle" /\ prepared_xids' = 0
      BY DEF AnswerClient, At, Goto, engine, binlog, locks, TypeOK, LockInv
  <2>2. /\ Counted' = Counted /\ prepared_xids' = prepared_xids
        /\ mode' = "up" /\ is_open' => mode = "up" /\ is_open
      BY DEF AnswerClient, At, Goto, engine, binlog, locks, TypeOK, Counted, is_open
  <2> QED
      BY <2>1, <2>2 DEF LockInv
<1>7. XidInv'
    BY <1>a
    DEF AnswerClient, At, Goto, engine, binlog, locks, TypeOK, XidInv, Live, RedoStays,
        LogsStay, InDoubt
<1>8. ReplyInv'
    BY <1>a DEF AnswerClient, At, Goto, engine, binlog, locks, TypeOK, ReplyInv
<1> QED
    BY <1>1, <1>2, <1>3, <1>4, <1>5, <1>6, <1>7, <1>8

\* The end of unlog: the transaction is counted no more.
LEMMA UnlogStep ==
    ASSUME Inv, NEW t \in Trx, Unlog(t) PROVE Inv'
<1> USE Names DEF Inv
<1>a. RedoStays /\ LogsStay
    BY StayFacts DEF Unlog, engine, binlog
<1>1. TypeOK'
  <2>1. prepared_xids' \in Int
      BY DEF Unlog, TypeOK
  <2> QED
      BY <2>1
      DEF Unlog, At, Goto, engine, binlog, locks, TypeOK, LastLog, Pcs, OpenPcs, Threads
<1>2. OrderInv'
    BY StayFacts DEF Unlog, engine
<1>3. RecInv'
    BY <1>a
    DEF Unlog, At, Goto, engine, binlog, locks, TypeOK, RecInv, RedoStays, DiskIsAll,
        LogsStay, InDoubt, OpenPcs
<1>4. LogInv'
    BY <1>a
    DEF Unlog, At, Goto, engine, binlog, locks, TypeOK, RecInv, LogInv, RedoStays,
        DiskIsAll, LogsStay, InDoubt, OpenPcs
<1>5. LastInv'
    BY <1>a
    DEF Unlog, At, Goto, engine, binlog, locks, TypeOK, RecInv, LastInv, LockInv,
        RedoStays, DiskIsAll, LogsStay
<1>6. LockInv'
  <2>1. /\ \A u \in Threads : pc'[u] \in {"sync", "written", "new_file", "open_file"} => LOCK_log' = u
        /\ pc'[Admin] \in {"idle", "new_file", "open_file", "done"}
        /\ mode' = "up"
      BY DEF Unlog, At, Goto, engine, binlog, locks, TypeOK, LockInv
  <2>2. mode' = "up" /\ is_open' => prepared_xids' = Cardinality(Counted')
    <3>1. Counted' = Counted \ {t} /\ t \in Counted
        BY DEF Unlog, At, Goto, TypeOK, Counted
    <3>2. Cardinality(Counted') = Cardinality(Counted) - 1
        BY <3>1, CountFacts, FS_RemoveElement
    <3> QED
        BY <3>2 DEF Unlog, binlog, is_open, LockInv
  <2> QED
      BY <2>1, <2>2 DEF LockInv
<1>7. XidInv'
    BY <1>a
    DEF Unlog, At, Goto, engine, binlog, locks, TypeOK, XidInv, Live, RedoStays,
        LogsStay, InDoubt
<1>8. ReplyInv'
    BY <1>a DEF Unlog, At, Goto, engine, binlog, locks, TypeOK, ReplyInv
<1> QED
    BY <1>1, <1>2, <1>3, <1>4, <1>5, <1>6, <1>7, <1>8

\* log_xid counts the transaction and releases the log.
LEMMA CountXidStep ==
    ASSUME Inv, NEW t \in Trx, CountXid(t) PROVE Inv'
<1> USE Names DEF Inv
<1>a. RedoStays /\ LogsStay
    BY StayFacts DEF CountXid, engine, binlog
<1>1. TypeOK'
    BY <1>a
    DEF CountXid, At, Goto, engine, binlog, locks, TypeOK, LastLog, Pcs, OpenPcs,
        Threads
<1>2. OrderInv'
    BY StayFacts DEF CountXid, engine
<1>3. RecInv'
    BY <1>a
    DEF CountXid, At, Goto, engine, binlog, locks, TypeOK, RecInv, RedoStays, DiskIsAll,
        LogsStay, InDoubt, OpenPcs
<1>4. LogInv'
    BY <1>a
    DEF CountXid, At, Goto, engine, binlog, locks, TypeOK, RecInv, LogInv, RedoStays,
        DiskIsAll, LogsStay, InDoubt, OpenPcs
<1>5. LastInv'
    BY <1>a
    DEF CountXid, At, Goto, engine, binlog, locks, TypeOK, RecInv, LastInv, LockInv,
        RedoStays, DiskIsAll, LogsStay
<1>6. LockInv'
  <2>1. /\ \A u \in Threads : pc'[u] \in {"sync", "written", "new_file", "open_file"} => LOCK_log' = u
        /\ pc'[Admin] \in {"idle", "new_file", "open_file", "done"}
        /\ mode' = "up"
      BY DEF CountXid, At, Goto, engine, binlog, locks, TypeOK, LockInv
  <2>2. mode' = "up" /\ is_open' => prepared_xids' = Cardinality(Counted')
    <3>1. Counted' = Counted \union {t} /\ t \notin Counted
        BY DEF CountXid, At, Goto, TypeOK, Counted
    <3>2. Cardinality(Counted') = Cardinality(Counted) + 1
        BY <3>1, CountFacts, FS_AddElement
    <3> QED
        BY <3>2 DEF CountXid, binlog, is_open, LockInv
  <2> QED
      BY <2>1, <2>2 DEF LockInv
<1>7. XidInv'
    BY <1>a
    DEF CountXid, At, Goto, engine, binlog, locks, TypeOK, XidInv, Live, RedoStays,
        LogsStay, InDoubt
<1>8. ReplyInv'
    BY <1>a DEF CountXid, At, Goto, engine, binlog, locks, TypeOK, ReplyInv
<1> QED
    BY <1>1, <1>2, <1>3, <1>4, <1>5, <1>6, <1>7, <1>8

\* A transaction finds the log too large, or not.
LEMMA RotateStep ==
    ASSUME Inv, NEW t \in Trx, Rotate(t) PROVE Inv'
<1> USE Names DEF Inv
<1>a. RedoStays /\ LogsStay
    BY StayFacts DEF Rotate, engine, binlog
<1>b. \E l \in {"new_file", "answer"} : pc' = [pc EXCEPT ![t] = l]
    BY DEF Rotate, Goto
<1>1. TypeOK'
    BY <1>a
    DEF Rotate, At, Goto, engine, binlog, locks, TypeOK, LastLog, Pcs, OpenPcs, Threads
<1>2. OrderInv'
    BY StayFacts DEF Rotate, engine
<1>3. RecInv'
    BY <1>a, <1>b
    DEF Rotate, At, Goto, engine, binlog, locks, TypeOK, RecInv, RedoStays, DiskIsAll,
        LogsStay, InDoubt, OpenPcs
<1>4. LogInv'
    BY <1>a, <1>b
    DEF Rotate, At, Goto, engine, binlog, locks, TypeOK, RecInv, LogInv, RedoStays,
        DiskIsAll, LogsStay, InDoubt, OpenPcs
<1>5. LastInv'
    BY <1>a, <1>b
    DEF Rotate, At, Goto, engine, binlog, locks, TypeOK, RecInv, LastInv, LockInv,
        RedoStays, DiskIsAll, LogsStay
<1>6. LockInv'
  <2>1. /\ \A u \in Threads : pc'[u] \in {"sync", "written", "new_file", "open_file"} => LOCK_log' = u
        /\ pc'[Admin] \in {"idle", "new_file", "open_file", "done"}
        /\ mode' # "up" => pc'[Admin] = "idle" /\ prepared_xids' = 0
      BY <1>b DEF Rotate, At, Goto, engine, binlog, locks, TypeOK, LockInv
  <2>2. /\ Counted' = Counted /\ prepared_xids' = prepared_xids
        /\ mode' = "up" /\ is_open' => mode = "up" /\ is_open
      BY <1>b DEF Rotate, At, Goto, engine, binlog, locks, TypeOK, Counted, is_open
  <2> QED
      BY <2>1, <2>2 DEF LockInv
<1>7. XidInv'
    BY <1>a, <1>b
    DEF Rotate, At, Goto, engine, binlog, locks, TypeOK, XidInv, Live, RedoStays,
        LogsStay, InDoubt
<1>8. ReplyInv'
    BY <1>a DEF Rotate, At, Goto, engine, binlog, locks, TypeOK, ReplyInv
<1> QED
    BY <1>1, <1>2, <1>3, <1>4, <1>5, <1>6, <1>7, <1>8

\* The log is to be rotated by a thread that has no xid in it.
LEMMA ForceRotateStep ==
    ASSUME Inv, ForceRotate PROVE Inv'
<1> USE Names DEF Inv
<1>a. RedoStays /\ LogsStay
    BY StayFacts DEF ForceRotate, engine, binlog
<1>1. TypeOK'
    BY <1>a
    DEF ForceRotate, At, Goto, engine, binlog, locks, TypeOK, LastLog, Pcs, OpenPcs,
        Threads
<1>2. OrderInv'
    BY StayFacts DEF ForceRotate, engine
<1>3. RecInv'
    BY <1>a
    DEF ForceRotate, At, Goto, engine, binlog, locks, TypeOK, RecInv, RedoStays,
        DiskIsAll, LogsStay, InDoubt, OpenPcs
<1>4. LogInv'
    BY <1>a
    DEF ForceRotate, At, Goto, engine, binlog, locks, TypeOK, RecInv, LogInv, RedoStays,
        DiskIsAll, LogsStay, InDoubt, OpenPcs
<1>5. LastInv'
    BY <1>a
    DEF ForceRotate, At, Goto, engine, binlog, locks, TypeOK, RecInv, LastInv, LockInv,
        RedoStays, DiskIsAll, LogsStay
<1>6. LockInv'
  <2>1. /\ \A u \in Threads : pc'[u] \in {"sync", "written", "new_file", "open_file"} => LOCK_log' = u
        /\ pc'[Admin] \in {"idle", "new_file", "open_file", "done"}
        /\ mode' # "up" => pc'[Admin] = "idle" /\ prepared_xids' = 0
      BY DEF ForceRotate, At, Goto, engine, binlog, locks, TypeOK, LockInv
  <2>2. /\ Counted' = Counted /\ prepared_xids' = prepared_xids
        /\ mode' = "up" /\ is_open' => mode = "up" /\ is_open
      BY DEF ForceRotate, At, Goto, engine, binlog, locks, TypeOK, Counted, is_open
  <2> QED
      BY <2>1, <2>2 DEF LockInv
<1>7. XidInv'
    BY <1>a
    DEF ForceRotate, At, Goto, engine, binlog, locks, TypeOK, XidInv, Live, RedoStays,
        LogsStay, InDoubt
<1>8. ReplyInv'
    BY <1>a DEF ForceRotate, At, Goto, engine, binlog, locks, TypeOK, ReplyInv
<1> QED
    BY <1>1, <1>2, <1>3, <1>4, <1>5, <1>6, <1>7, <1>8

\* TC_LOG_BINLOG::open collects the xids of the last file.
LEMMA ReadLastLogStep ==
    ASSUME Inv, ReadLastLog PROVE Inv'
<1> USE Names DEF Inv
<1>a. RedoStays /\ LogsStay
    BY StayFacts DEF ReadLastLog, engine, binlog
<1>1. TypeOK'
  <2>1. commit_list' \subseteq Nat
      BY LastFacts DEF ReadLastLog, TypeOK, InLast
  <2> QED
      BY <2>1 DEF ReadLastLog, engine, binlog, locks, TypeOK, LastLog
<1>2. OrderInv'
    BY StayFacts DEF ReadLastLog, engine
<1>3. RecInv'
    BY <1>a
    DEF ReadLastLog, At, Goto, engine, binlog, locks, TypeOK, RecInv, RedoStays,
        DiskIsAll, LogsStay, InDoubt, OpenPcs
<1>4. LogInv'
    BY <1>a
    DEF ReadLastLog, At, Goto, engine, binlog, locks, TypeOK, RecInv, LogInv, RedoStays,
        DiskIsAll, LogsStay, InDoubt, OpenPcs
<1>5. LastInv'
  <2>1. commit_list' = IF InUse' THEN {xid'[u] : u \in InLast'} ELSE {}
      BY <1>a DEF ReadLastLog, LogsStay, InLast, InUse
  <2> QED
      BY <1>a, <2>1 DEF ReadLastLog, binlog, locks, LastInv, RedoStays, LogsStay
<1>6. LockInv'
  <2>1. /\ \A u \in Threads : pc'[u] \in {"sync", "written", "new_file", "open_file"} => LOCK_log' = u
        /\ pc'[Admin] \in {"idle", "new_file", "open_file", "done"}
        /\ mode' # "up" => pc'[Admin] = "idle" /\ prepared_xids' = 0
      BY DEF ReadLastLog, At, Goto, engine, binlog, locks, TypeOK, LockInv
  <2>2. /\ Counted' = Counted /\ prepared_xids' = prepared_xids
        /\ mode' = "up" /\ is_open' => mode = "up" /\ is_open
      BY DEF ReadLastLog, At, Goto, engine, binlog, locks, TypeOK, Counted, is_open
  <2> QED
      BY <2>1, <2>2 DEF LockInv
<1>7. XidInv'
    BY <1>a
    DEF ReadLastLog, At, Goto, engine, binlog, locks, TypeOK, XidInv, Live, RedoStays,
        LogsStay, InDoubt
<1>8. ReplyInv'
    BY <1>a DEF ReadLastLog, At, Goto, engine, binlog, locks, TypeOK, ReplyInv
<1> QED
    BY <1>1, <1>2, <1>3, <1>4, <1>5, <1>6, <1>7, <1>8

\* innobase_xa_prepare writes the first record of a transaction.
LEMMA LockPrepareStep ==
    ASSUME Inv, NEW t \in Trx, LockPrepare(t) PROVE Inv'
<1> USE Names DEF Inv
<1>a. /\ PreparedRec' = PreparedRec \union {t} /\ CommittedRec' = CommittedRec
      /\ AbortedRec' = AbortedRec
      /\ PreparedDisk' = PreparedDisk /\ CommittedDisk' = CommittedDisk
      /\ AbortedDisk' = AbortedDisk /\ LogsStay
  <2>1. redo' = Append(redo, <<"prepared", t>>) /\ "prepared" \in Kinds
      BY DEF LockPrepare, Kinds
  <2>2. \A k \in Kinds : Rec(k)' = IF k = "prepared" THEN Rec(k) \union {t} ELSE Rec(k)
      BY <2>1, AppendRec
  <2>3. \A k \in Kinds : RecDisk(k)' = RecDisk(k)
      BY <2>1, AppendRec DEF LockPrepare
  <2>4. LogsStay
      BY StayFacts DEF LockPrepare, binlog
  <2> QED
      BY <2>2, <2>3, <2>4
      DEF PreparedRec, CommittedRec, AbortedRec, PreparedDisk, CommittedDisk,
          AbortedDisk, Kinds
<1>1. TypeOK'
  <2>1. redo' = Append(redo, <<"prepared", t>>) /\ "prepared" \in Kinds
      BY DEF LockPrepare, Kinds
  <2>2. redo' \in Seq(Kinds \X Trx) /\ Len(redo') = Len(redo) + 1
      BY <2>1, AppendRec
  <2>3. flushed' \in 0..Len(redo')
      BY <2>2 DEF LockPrepare, TypeOK
  <2> QED
      BY <2>2, <2>3
      DEF LockPrepare, At, Goto, engine, binlog, locks, TypeOK, LastLog, Pcs, OpenPcs,
          Threads, Kinds
<1>2. OrderInv'
  <2>1. redo' = Append(redo, <<"prepared", t>>) /\ "prepared" \in Kinds
      BY DEF LockPrepare, Kinds
  <2>2. t \notin CommittedRec \union AbortedRec /\ t \notin PreparedRec
      BY DEF LockPrepare, At, RecInv, InDoubt, OpenPcs
  <2> QED
      BY <2>1, <2>2, AppendOrder
<1>3. RecInv'
    BY <1>a
    DEF LockPrepare, At, Goto, engine, binlog, locks, TypeOK, RecInv, RedoStays,
        DiskIsAll, LogsStay, InDoubt, OpenPcs
<1>4. LogInv'
    BY <1>a
    DEF LockPrepare, At, Goto, engine, binlog, locks, TypeOK, RecInv, LogInv, RedoStays,
        DiskIsAll, LogsStay, InDoubt, OpenPcs
<1>5. LastInv'
    BY <1>a
    DEF LockPrepare, At, Goto, engine, binlog, locks, TypeOK, RecInv, LastInv, LockInv,
        RedoStays, DiskIsAll, LogsStay
<1>6. LockInv'
  <2>1. /\ \A u \in Threads : pc'[u] \in {"sync", "written", "new_file", "open_file"} => LOCK_log' = u
        /\ pc'[Admin] \in {"idle", "new_file", "open_file", "done"}
        /\ mode' # "up" => pc'[Admin] = "idle" /\ prepared_xids' = 0
      BY DEF LockPrepare, At, Goto, engine, binlog, locks, TypeOK, LockInv
  <2>2. /\ Counted' = Counted /\ prepared_xids' = prepared_xids
        /\ mode' = "up" /\ is_open' => mode = "up" /\ is_open
      BY DEF LockPrepare, At, Goto, engine, binlog, locks, TypeOK, Counted, is_open
  <2> QED
      BY <2>1, <2>2 DEF LockInv
<1>7. XidInv'
    BY <1>a
    DEF LockPrepare, At, Goto, engine, binlog, locks, TypeOK, XidInv, Live, RedoStays,
        LogsStay, InDoubt
<1>8. ReplyInv'
    BY <1>a DEF LockPrepare, At, Goto, engine, binlog, locks, TypeOK, ReplyInv
<1> QED
    BY <1>1, <1>2, <1>3, <1>4, <1>5, <1>6, <1>7, <1>8

\* innobase_commit writes the last record of a transaction that is logged, or that
\* has found no log.
LEMMA CommitInMemoryStep ==
    ASSUME Inv, NEW t \in Trx, CommitInMemory(t) PROVE Inv'
<1> USE Names DEF Inv
<1>a. /\ PreparedRec' = PreparedRec /\ CommittedRec' = CommittedRec \union {t}
      /\ AbortedRec' = AbortedRec
      /\ PreparedDisk' = PreparedDisk /\ CommittedDisk' = CommittedDisk
      /\ AbortedDisk' = AbortedDisk /\ LogsStay
  <2>1. redo' = Append(redo, <<"committed", t>>) /\ "committed" \in Kinds
      BY DEF CommitInMemory, Kinds
  <2>2. \A k \in Kinds : Rec(k)' = IF k = "committed" THEN Rec(k) \union {t} ELSE Rec(k)
      BY <2>1, AppendRec
  <2>3. \A k \in Kinds : RecDisk(k)' = RecDisk(k)
      BY <2>1, AppendRec DEF CommitInMemory
  <2>4. LogsStay
      BY StayFacts DEF CommitInMemory, binlog
  <2> QED
      BY <2>2, <2>3, <2>4
      DEF PreparedRec, CommittedRec, AbortedRec, PreparedDisk, CommittedDisk,
          AbortedDisk, Kinds
<1>1. TypeOK'
  <2>1. redo' = Append(redo, <<"committed", t>>) /\ "committed" \in Kinds
      BY DEF CommitInMemory, Kinds
  <2>2. redo' \in Seq(Kinds \X Trx) /\ Len(redo') = Len(redo) + 1
      BY <2>1, AppendRec
  <2>3. flushed' \in 0..Len(redo')
      BY <2>2 DEF CommitInMemory, TypeOK
  <2> QED
      BY <2>2, <2>3
      DEF CommitInMemory, At, Goto, engine, binlog, locks, TypeOK, LastLog, Pcs,
          OpenPcs, Threads, Kinds
<1>2. OrderInv'
  <2>1. redo' = Append(redo, <<"committed", t>>) /\ "committed" \in Kinds
      BY DEF CommitInMemory, Kinds
  <2>2. t \notin CommittedRec \union AbortedRec
      BY DEF CommitInMemory, At, RecInv, InDoubt, OpenPcs
  <2> QED
      BY <2>1, <2>2, AppendOrder
<1>3. RecInv'
    BY <1>a
    DEF CommitInMemory, At, Goto, engine, binlog, locks, TypeOK, RecInv, RedoStays,
        DiskIsAll, LogsStay, InDoubt, OpenPcs
<1>4. LogInv'
    BY <1>a
    DEF CommitInMemory, At, Goto, engine, binlog, locks, TypeOK, RecInv, LogInv,
        RedoStays, DiskIsAll, LogsStay, InDoubt, OpenPcs
<1>5. LastInv'
    BY <1>a
    DEF CommitInMemory, At, Goto, engine, binlog, locks, TypeOK, RecInv, LastInv,
        LockInv, RedoStays, DiskIsAll, LogsStay
<1>6. LockInv'
  <2>1. /\ \A u \in Threads : pc'[u] \in {"sync", "written", "new_file", "open_file"} => LOCK_log' = u
        /\ pc'[Admin] \in {"idle", "new_file", "open_file", "done"}
        /\ mode' # "up" => pc'[Admin] = "idle" /\ prepared_xids' = 0
      BY DEF CommitInMemory, At, Goto, engine, binlog, locks, TypeOK, LockInv
  <2>2. /\ Counted' = Counted /\ prepared_xids' = prepared_xids
        /\ mode' = "up" /\ is_open' => mode = "up" /\ is_open
      BY DEF CommitInMemory, At, Goto, engine, binlog, locks, TypeOK, Counted, is_open
  <2> QED
      BY <2>1, <2>2 DEF LockInv
<1>7. XidInv'
    BY <1>a
    DEF CommitInMemory, At, Goto, engine, binlog, locks, TypeOK, XidInv, Live,
        RedoStays, LogsStay, InDoubt
<1>8. ReplyInv'
    BY <1>a DEF CommitInMemory, At, Goto, engine, binlog, locks, TypeOK, ReplyInv
<1> QED
    BY <1>1, <1>2, <1>3, <1>4, <1>5, <1>6, <1>7, <1>8

\* ha_rollback_trans writes and flushes the last record of one that is not.
LEMMA RollbackStep ==
    ASSUME Inv, NEW t \in Trx, Rollback(t) PROVE Inv'
<1> USE Names DEF Inv
<1>a. /\ PreparedRec' = PreparedRec /\ CommittedRec' = CommittedRec
      /\ AbortedRec' = AbortedRec \union {t}
      /\ DiskIsAll' /\ LogsStay
  <2>1. redo' = Append(redo, <<"aborted", t>>) /\ "aborted" \in Kinds
      BY DEF Rollback, Kinds
  <2>2. \A k \in Kinds : Rec(k)' = IF k = "aborted" THEN Rec(k) \union {t} ELSE Rec(k)
      BY <2>1, AppendRec
  <2>3. DiskIsAll' /\ LogsStay
      BY StayFacts, FlushFacts DEF Rollback, binlog
  <2> QED
      BY <2>2, <2>3 DEF PreparedRec, CommittedRec, AbortedRec, Kinds
<1>1. TypeOK'
  <2>1. redo' = Append(redo, <<"aborted", t>>) /\ "aborted" \in Kinds
      BY DEF Rollback, Kinds
  <2>2. redo' \in Seq(Kinds \X Trx) /\ Len(redo') = Len(redo) + 1
      BY <2>1, AppendRec
  <2>3. flushed' \in 0..Len(redo')
      BY <2>2 DEF Rollback, TypeOK
  <2> QED
      BY <2>2, <2>3
      DEF Rollback, At, Goto, engine, binlog, locks, TypeOK, LastLog, Pcs, OpenPcs,
          Threads, Kinds
<1>2. OrderInv'
  <2>1. redo' = Append(redo, <<"aborted", t>>) /\ "aborted" \in Kinds
      BY DEF Rollback, Kinds
  <2>2. t \notin CommittedRec \union AbortedRec
      BY DEF Rollback, At, RecInv, InDoubt, OpenPcs
  <2> QED
      BY <2>1, <2>2, AppendOrder
<1>3. RecInv'
    BY <1>a
    DEF Rollback, At, Goto, engine, binlog, locks, TypeOK, RecInv, RedoStays, DiskIsAll,
        LogsStay, InDoubt, OpenPcs
<1>4. LogInv'
    BY <1>a
    DEF Rollback, At, Goto, engine, binlog, locks, TypeOK, RecInv, LogInv, RedoStays,
        DiskIsAll, LogsStay, InDoubt, OpenPcs
<1>5. LastInv'
    BY <1>a
    DEF Rollback, At, Goto, engine, binlog, locks, TypeOK, RecInv, LastInv, LockInv,
        RedoStays, DiskIsAll, LogsStay
<1>6. LockInv'
  <2>1. /\ \A u \in Threads : pc'[u] \in {"sync", "written", "new_file", "open_file"} => LOCK_log' = u
        /\ pc'[Admin] \in {"idle", "new_file", "open_file", "done"}
        /\ mode' # "up" => pc'[Admin] = "idle" /\ prepared_xids' = 0
      BY DEF Rollback, At, Goto, engine, binlog, locks, TypeOK, LockInv
  <2>2. /\ Counted' = Counted /\ prepared_xids' = prepared_xids
        /\ mode' = "up" /\ is_open' => mode = "up" /\ is_open
      BY DEF Rollback, At, Goto, engine, binlog, locks, TypeOK, Counted, is_open
  <2> QED
      BY <2>1, <2>2 DEF LockInv
<1>7. XidInv'
    BY <1>a
    DEF Rollback, At, Goto, engine, binlog, locks, TypeOK, XidInv, Live, RedoStays,
        LogsStay, InDoubt
<1>8. ReplyInv'
    BY <1>a DEF Rollback, At, Goto, engine, binlog, locks, TypeOK, ReplyInv
<1> QED
    BY <1>1, <1>2, <1>3, <1>4, <1>5, <1>6, <1>7, <1>8

\* The prepared record is on disk before the transaction is logged.
LEMMA FlushPrepareStep ==
    ASSUME Inv, NEW t \in Trx, FlushPrepare(t) PROVE Inv'
<1> USE Names DEF Inv
<1>a. /\ PreparedRec' = PreparedRec /\ CommittedRec' = CommittedRec /\ AbortedRec' = AbortedRec
      /\ DiskIsAll' /\ LogsStay
    BY StayFacts, FlushFacts
    DEF FlushPrepare, binlog, PreparedRec, CommittedRec, AbortedRec, Rec
<1>1. TypeOK'
    BY <1>a
    DEF FlushPrepare, At, Goto, engine, binlog, locks, TypeOK, LastLog, Pcs, OpenPcs,
        Threads
<1>2. OrderInv'
    BY DEF FlushPrepare, OrderInv
<1>3. RecInv'
    BY <1>a
    DEF FlushPrepare, At, Goto, engine, binlog, locks, TypeOK, RecInv, RedoStays,
        DiskIsAll, LogsStay, InDoubt, OpenPcs
<1>4. LogInv'
    BY <1>a
    DEF FlushPrepare, At, Goto, engine, binlog, locks, TypeOK, RecInv, LogInv,
        RedoStays, DiskIsAll, LogsStay, InDoubt, OpenPcs
<1>5. LastInv'
    BY <1>a
    DEF FlushPrepare, At, Goto, engine, binlog, locks, TypeOK, RecInv, LastInv, LockInv,
        RedoStays, DiskIsAll, LogsStay
<1>6. LockInv'
  <2>1. /\ \A u \in Threads : pc'[u] \in {"sync", "written", "new_file", "open_file"} => LOCK_log' = u
        /\ pc'[Admin] \in {"idle", "new_file", "open_file", "done"}
        /\ mode' # "up" => pc'[Admin] = "idle" /\ prepared_xids' = 0
      BY DEF FlushPrepare, At, Goto, engine, binlog, locks, TypeOK, LockInv
  <2>2. /\ Counted' = Counted /\ prepared_xids' = prepared_xids
        /\ mode' = "up" /\ is_open' => mode = "up" /\ is_open
      BY DEF FlushPrepare, At, Goto, engine, binlog, locks, TypeOK, Counted, is_open
  <2> QED
      BY <2>1, <2>2 DEF LockInv
<1>7. XidInv'
    BY <1>a
    DEF FlushPrepare, At, Goto, engine, binlog, locks, TypeOK, XidInv, Live, RedoStays,
        LogsStay, InDoubt
<1>8. ReplyInv'
    BY <1>a DEF FlushPrepare, At, Goto, engine, binlog, locks, TypeOK, ReplyInv
<1> QED
    BY <1>1, <1>2, <1>3, <1>4, <1>5, <1>6, <1>7, <1>8

\* The last record is on disk before the transaction is unlogged.
LEMMA FlushCommitStep ==
    ASSUME Inv, NEW t \in Trx, FlushCommit(t) PROVE Inv'
<1> USE Names DEF Inv
<1>a. /\ PreparedRec' = PreparedRec /\ CommittedRec' = CommittedRec /\ AbortedRec' = AbortedRec
      /\ DiskIsAll' /\ LogsStay
    BY StayFacts, FlushFacts
    DEF FlushCommit, binlog, PreparedRec, CommittedRec, AbortedRec, Rec
<1>1. TypeOK'
    BY <1>a
    DEF FlushCommit, ReleaseMutex, At, Goto, engine, binlog, locks, TypeOK, LastLog, Pcs, OpenPcs,
        Threads
<1>2. OrderInv'
    BY DEF FlushCommit, OrderInv
<1>3. RecInv'
    BY <1>a
    DEF FlushCommit, ReleaseMutex, At, Goto, engine, binlog, locks, TypeOK, RecInv, RedoStays,
        DiskIsAll, LogsStay, InDoubt, OpenPcs
<1>4. LogInv'
    BY <1>a
    DEF FlushCommit, ReleaseMutex, At, Goto, engine, binlog, locks, TypeOK, RecInv, LogInv, RedoStays,
        DiskIsAll, LogsStay, InDoubt, OpenPcs
<1>5. LastInv'
    BY <1>a
    DEF FlushCommit, ReleaseMutex, At, Goto, engine, binlog, locks, TypeOK, RecInv, LastInv, LockInv,
        RedoStays, DiskIsAll, LogsStay
<1>6. LockInv'
  <2>1. /\ \A u \in Threads : pc'[u] \in {"sync", "written", "new_file", "open_file"} => LOCK_log' = u
        /\ pc'[Admin] \in {"idle", "new_file", "open_file", "done"}
        /\ mode' # "up" => pc'[Admin] = "idle" /\ prepared_xids' = 0
      BY DEF FlushCommit, ReleaseMutex, At, Goto, engine, binlog, locks, TypeOK, LockInv
  <2>2. /\ Counted' = Counted /\ prepared_xids' = prepared_xids
        /\ mode' = "up" /\ is_open' => mode = "up" /\ is_open
      BY DEF FlushCommit, ReleaseMutex, At, Goto, engine, binlog, locks, TypeOK, Counted, is_open
  <2> QED
      BY <2>1, <2>2 DEF LockInv
<1>7. XidInv'
    BY <1>a
    DEF FlushCommit, ReleaseMutex, At, Goto, engine, binlog, locks, TypeOK, XidInv, Live, RedoStays,
        LogsStay, InDoubt
<1>8. ReplyInv'
    BY <1>a DEF FlushCommit, ReleaseMutex, At, Goto, engine, binlog, locks, TypeOK, ReplyInv
<1> QED
    BY <1>1, <1>2, <1>3, <1>4, <1>5, <1>6, <1>7, <1>8

\* The list of xids names a transaction in doubt exactly if the last file, not closed,
\* holds it.
LEMMA ListFacts ==
    ASSUME Inv, NEW t \in Trx, RecoverTrx(t)
    PROVE  /\ t \in InDoubt /\ mode = "recover"
           /\ xid[t] \in commit_list <=> t \in InLast /\ InUse
<1> USE DEF Inv
<1>1. t \in InDoubt /\ mode = "recover"
    BY StateFacts DEF RecoverTrx, Prepared
<1>2. xid[t] \in commit_list <=> t \in InLast /\ InUse
  <2>1. commit_list = IF InUse THEN {xid[u] : u \in InLast} ELSE {}
      BY <1>1 DEF LastInv
  <2>2. \A u \in InLast : xid[u] = xid[t] => u = t
      BY <1>1 DEF XidInv, Live
  <2> QED
      BY <2>1, <2>2
<1> QED
    BY <1>1, <1>2

\* The recovery commits what the list names and rolls back the rest.
LEMMA RecoverFacts ==
    ASSUME Inv, NEW t \in Trx, RecoverTrx(t)
    PROVE  /\ PreparedRec' = PreparedRec /\ DiskIsAll' /\ LogsStay
           /\ \/ /\ CommittedRec' = CommittedRec \union {t} /\ AbortedRec' = AbortedRec
                 /\ t \in InLast /\ InUse
              \/ /\ CommittedRec' = CommittedRec /\ AbortedRec' = AbortedRec \union {t}
                 /\ ~(t \in InLast /\ InUse)
           /\ t \in InDoubt
<1> USE DEF Inv
<1>1. t \in InDoubt /\ mode = "recover"
    BY ListFacts
<1>2. xid[t] \in commit_list <=> t \in InLast /\ InUse
    BY ListFacts
<1>3. PICK s \in {"committed", "aborted"} :
          /\ redo' = Append(redo, <<s, t>>)
          /\ s = "committed" <=> t \in InLast /\ InUse
    BY <1>2 DEF RecoverTrx
<1>4. s \in Kinds
    BY DEF Kinds
<1>5. \A k \in Kinds : Rec(k)' = IF k = s THEN Rec(k) \union {t} ELSE Rec(k)
    BY <1>3, <1>4, AppendRec
<1>6. DiskIsAll' /\ LogsStay
    BY StayFacts, FlushFacts DEF RecoverTrx, binlog
<1> QED
    BY <1>1, <1>3, <1>5, <1>6 DEF PreparedRec, CommittedRec, AbortedRec, Kinds

\* ha_recover commits a transaction of the last file and rolls back another.
LEMMA RecoverTrxStep ==
    ASSUME Inv, NEW t \in Trx, RecoverTrx(t) PROVE Inv'
<1> USE Names DEF Inv
<1>a. /\ PreparedRec' = PreparedRec /\ DiskIsAll' /\ LogsStay
      /\ \/ /\ CommittedRec' = CommittedRec \union {t} /\ AbortedRec' = AbortedRec
            /\ t \in InLast /\ InUse
         \/ /\ CommittedRec' = CommittedRec /\ AbortedRec' = AbortedRec \union {t}
            /\ ~(t \in InLast /\ InUse)
      /\ t \in InDoubt
    BY RecoverFacts
<1>1. TypeOK'
  <2>1. PICK s \in Kinds : redo' = Append(redo, <<s, t>>) /\ s # "prepared"
      BY DEF RecoverTrx, Kinds
  <2>2. redo' \in Seq(Kinds \X Trx) /\ Len(redo') = Len(redo) + 1
      BY <2>1, AppendRec
  <2>3. flushed' \in 0..Len(redo')
      BY <2>2 DEF RecoverTrx, TypeOK
  <2> QED
      BY <2>2, <2>3 DEF RecoverTrx, engine, binlog, locks, TypeOK, LastLog, Kinds
<1>2. OrderInv'
  <2>1. PICK s \in Kinds : redo' = Append(redo, <<s, t>>) /\ s # "prepared"
      BY DEF RecoverTrx, Kinds
  <2> QED
      BY <1>a, <2>1, AppendOrder DEF InDoubt
<1>3. RecInv'
    BY <1>a
    DEF RecoverTrx, At, Goto, engine, binlog, locks, TypeOK, RecInv, RedoStays,
        DiskIsAll, LogsStay, InDoubt, OpenPcs
<1>4. LogInv'
    BY <1>a
    DEF RecoverTrx, At, Goto, engine, binlog, locks, TypeOK, RecInv, LogInv, RedoStays,
        DiskIsAll, LogsStay, InDoubt, OpenPcs
<1>5. LastInv'
    BY <1>a
    DEF RecoverTrx, At, Goto, engine, binlog, locks, TypeOK, RecInv, LastInv, LockInv,
        RedoStays, DiskIsAll, LogsStay
<1>6. LockInv'
  <2>1. /\ \A u \in Threads : pc'[u] \in {"sync", "written", "new_file", "open_file"} => LOCK_log' = u
        /\ pc'[Admin] \in {"idle", "new_file", "open_file", "done"}
        /\ mode' # "up" => pc'[Admin] = "idle" /\ prepared_xids' = 0
      BY DEF RecoverTrx, At, Goto, engine, binlog, locks, TypeOK, LockInv
  <2>2. /\ Counted' = Counted /\ prepared_xids' = prepared_xids
        /\ mode' = "up" /\ is_open' => mode = "up" /\ is_open
      BY DEF RecoverTrx, At, Goto, engine, binlog, locks, TypeOK, Counted, is_open
  <2> QED
      BY <2>1, <2>2 DEF LockInv
<1>7. XidInv'
    BY <1>a
    DEF RecoverTrx, At, Goto, engine, binlog, locks, TypeOK, XidInv, Live, RedoStays,
        LogsStay, InDoubt
<1>8. ReplyInv'
    BY <1>a DEF RecoverTrx, At, Goto, engine, binlog, locks, TypeOK, ReplyInv
<1> QED
    BY <1>1, <1>2, <1>3, <1>4, <1>5, <1>6, <1>7, <1>8

\* MYSQL_BIN_LOG::write puts a transaction into the last file, finds none, or fails.
LEMMA WriteXidStep ==
    ASSUME Inv, NEW t \in Trx, WriteXid(t) PROVE Inv'
<1> USE Names DEF Inv
<1>a. /\ RedoStays
      /\ \/ /\ Earlier' = Earlier /\ InLast' = InLast \union {t} /\ InLastDisk' = InLastDisk
            /\ InUse' = InUse /\ LOCK_log' = t /\ pc' = [pc EXCEPT ![t] = "sync"]
            /\ log_state = "LOG_OPENED" /\ unlogged' = unlogged
         \/ /\ LogsStay /\ LOCK_log' = t /\ pc' = [pc EXCEPT ![t] = "sync"]
            /\ log_state = "LOG_TO_BE_OPENED" /\ unlogged' = unlogged \union {t}
         \/ /\ LogsStay /\ LOCK_log' = LOCK_log /\ pc' = [pc EXCEPT ![t] = "commit"]
            /\ ~is_open /\ unlogged' = unlogged \union {t}
         \/ /\ LogsStay /\ LOCK_log' = LOCK_log /\ pc' = [pc EXCEPT ![t] = "log_failed"]
            /\ unlogged' = unlogged
  <2>1. RedoStays
      BY StayFacts DEF WriteXid, engine
  <2>2. CASE /\ logs' = [logs EXCEPT ![Len(logs)].xids = Append(@, t)]
             /\ LOCK_log' = t /\ pc' = [pc EXCEPT ![t] = "sync"]
             /\ log_state = "LOG_OPENED" /\ unlogged' = unlogged
      BY <2>1, <2>2, WriteFacts DEF WriteXid
  <2>3. CASE logs' = logs
    <3>1. LogsStay
        BY <2>3, StayFacts DEF WriteXid
    <3> QED
        BY <2>1, <2>2, <3>1 DEF WriteXid, Goto
  <2> QED
      BY <2>2, <2>3 DEF WriteXid, Goto
<1>b. \E l \in {"sync", "commit", "log_failed"} : pc' = [pc EXCEPT ![t] = l]
    BY DEF WriteXid, Goto
<1>c. /\ logs' \in Seq(LogType) /\ Len(logs') > 0 /\ synced' \in 0..Len(LastLog'.xids)
  <2>1. CASE logs' = [logs EXCEPT ![Len(logs)].xids = Append(@, t)]
      BY <2>1, WriteFacts DEF WriteXid
  <2>2. CASE logs' = logs
      BY <2>2, LastFacts DEF WriteXid, LastLog
  <2> QED
      BY <2>1, <2>2 DEF WriteXid
<1>d. log_state' = log_state /\ mode = "up" /\ mode' = "up" /\ pc[t] = "log" /\ sync_failed' = sync_failed
      /\ LOCK_log = None /\ prepared_xids' = prepared_xids
    BY DEF WriteXid, At
<1>1. TypeOK'
    BY <1>b, <1>c
    DEF WriteXid, At, Goto, engine, binlog, locks, TypeOK, LogType, Pcs, OpenPcs,
        Threads
<1>2. OrderInv'
    BY StayFacts DEF WriteXid, engine
<1>3. RecInv'
    BY <1>a
    DEF WriteXid, At, Goto, engine, binlog, locks, TypeOK, RecInv, RedoStays, DiskIsAll,
        LogsStay, InDoubt, OpenPcs
<1>4. LogInv'
  <2>1. CASE InLast' = InLast \union {t}
      BY <1>a, <1>d, <2>1
      DEF TypeOK, RecInv, LogInv, RedoStays, LogsStay, InDoubt, OpenPcs
  <2>2. CASE LogsStay
      BY <1>a, <1>d, <2>2
      DEF TypeOK, RecInv, LogInv, RedoStays, LogsStay, InDoubt, OpenPcs
  <2> QED
      BY <1>a, <2>1, <2>2
<1>5. LastInv'
    BY <1>a, <1>d
    DEF WriteXid, TypeOK, RecInv, LastInv, LockInv, RedoStays, LogsStay, is_open
<1>6. LockInv'
  <2>1. /\ \A u \in Threads : pc'[u] \in {"sync", "written", "new_file", "open_file"} => LOCK_log' = u
        /\ pc'[Admin] \in {"idle", "new_file", "open_file", "done"}
      BY <1>a, <1>d DEF TypeOK, LockInv
  <2>2. is_open' => Counted' = Counted /\ is_open
      BY <1>a, <1>d DEF TypeOK, Counted, is_open
  <2> QED
      BY <1>d, <2>1, <2>2 DEF LockInv
<1>7. XidInv'
  <2>1. Live' \subseteq Live
      BY <1>a
      DEF WriteXid, At, Goto, engine, binlog, locks, TypeOK, Live, RedoStays, DiskIsAll,
          LogsStay, InDoubt
  <2> QED
      BY <2>1 DEF WriteXid, At, Goto, engine, binlog, locks, XidInv
<1>8. ReplyInv'
    BY <1>a DEF WriteXid, At, Goto, engine, binlog, locks, TypeOK, ReplyInv
<1> QED
    BY <1>1, <1>2, <1>3, <1>4, <1>5, <1>6, <1>7, <1>8

\* flush_and_sync puts the transaction on disk, or fails.
LEMMA SyncLogStep ==
    ASSUME Inv, NEW t \in Trx, sync_binlog_period = 1, SyncLog(t) PROVE Inv'
<1> USE Names DEF Inv
<1>a. /\ RedoStays /\ Earlier' = Earlier /\ InLast' = InLast /\ InUse' = InUse
      /\ \/ /\ InLastDisk' = InLast /\ LOCK_log' = LOCK_log /\ sync_failed' = sync_failed
            /\ pc' = [pc EXCEPT ![t] = "written"]
         \/ /\ InLastDisk' = InLastDisk /\ LOCK_log' = None
            /\ sync_failed' = sync_failed \union {t} /\ pc' = [pc EXCEPT ![t] = "log_failed"]
  <2>1. RedoStays /\ MustSync
      BY StayFacts DEF SyncLog, engine, MustSync, TypeOK
  <2>2. CASE synced' = Len(LastLog.xids) /\ pc' = [pc EXCEPT ![t] = "written"]
               /\ UNCHANGED <<LOCK_log, sync_failed>>
      BY <2>1, <2>2, SyncFacts DEF SyncLog
  <2>3. CASE synced' = synced /\ pc' = [pc EXCEPT ![t] = "log_failed"] /\ LOCK_log' = None
               /\ sync_failed' = sync_failed \union {t}
      BY <2>1, <2>3, StayFacts DEF SyncLog, LogsStay
  <2> QED
      BY <2>1, <2>2, <2>3 DEF SyncLog, Goto
<1>b. \E l \in {"written", "log_failed"} : pc' = [pc EXCEPT ![t] = l]
    BY DEF SyncLog, Goto
<1>c. logs' = logs /\ LastLog' = LastLog /\ synced' \in 0..Len(LastLog.xids)
    BY LastFacts DEF SyncLog, LastLog
<1>1. TypeOK'
  <2>1. synced' \in 0..Len(LastLog'.xids) /\ sync_binlog_counter' \in Nat
      BY <1>c DEF SyncLog, TypeOK
  <2> QED
      BY <1>b, <1>c, <2>1 DEF SyncLog, At, engine, locks, TypeOK, Pcs, OpenPcs, Threads
<1>2. OrderInv'
    BY StayFacts DEF SyncLog, engine
<1>3. RecInv'
    BY <1>a
    DEF SyncLog, At, Goto, engine, binlog, locks, TypeOK, RecInv, RedoStays, DiskIsAll,
        LogsStay, InDoubt, OpenPcs
<1>4. LogInv'
  <2>1. CASE pc' = [pc EXCEPT ![t] = "written"]
    <3>1. /\ InLastDisk' = InLast /\ sync_failed' = sync_failed
          /\ \A u \in Trx : u # t => pc[u] # "sync"
        BY <1>a, <2>1 DEF SyncLog, At, LockInv, TypeOK
    <3> QED
        BY <1>a, <2>1, <3>1
        DEF SyncLog, At, engine, TypeOK, RecInv, LogInv, RedoStays, DiskIsAll, LogsStay,
            InDoubt, OpenPcs
  <2>2. CASE pc' = [pc EXCEPT ![t] = "log_failed"]
    <3>1. InLastDisk' = InLastDisk /\ sync_failed' = sync_failed \union {t}
        BY <1>a, <2>2 DEF SyncLog, At, TypeOK
    <3> QED
        BY <1>a, <2>2, <3>1
        DEF SyncLog, At, engine, TypeOK, RecInv, LogInv, RedoStays, DiskIsAll, LogsStay,
            InDoubt, OpenPcs
  <2> QED
      BY <1>a, <2>1, <2>2
<1>5. LastInv'
    BY <1>a
    DEF SyncLog, At, Goto, engine, binlog, locks, TypeOK, RecInv, LastInv, LockInv,
        RedoStays, DiskIsAll, LogsStay
<1>6. LockInv'
  <2>1. /\ \A u \in Threads : pc'[u] \in {"sync", "written", "new_file", "open_file"} => LOCK_log' = u
        /\ pc'[Admin] \in {"idle", "new_file", "open_file", "done"}
        /\ mode' # "up" => pc'[Admin] = "idle" /\ prepared_xids' = 0
      BY <1>a, <1>b DEF SyncLog, At, Goto, engine, binlog, locks, TypeOK, LockInv
  <2>2. /\ Counted' = Counted /\ prepared_xids' = prepared_xids
        /\ mode' = "up" /\ is_open' => mode = "up" /\ is_open
      BY <1>a, <1>b DEF SyncLog, At, Goto, engine, binlog, locks, TypeOK, Counted, is_open
  <2> QED
      BY <2>1, <2>2 DEF LockInv
<1>7. XidInv'
  <2>1. Live' \subseteq Live
      BY <1>a
      DEF SyncLog, At, Goto, engine, binlog, locks, TypeOK, Live, RedoStays, DiskIsAll,
          LogsStay, InDoubt
  <2> QED
      BY <2>1 DEF SyncLog, At, Goto, engine, binlog, locks, XidInv
<1>8. ReplyInv'
    BY <1>a DEF SyncLog, At, Goto, engine, binlog, locks, TypeOK, ReplyInv
<1> QED
    BY <1>1, <1>2, <1>3, <1>4, <1>5, <1>6, <1>7, <1>8

\* new_file_impl closes the last file when every transaction in it has ended.
LEMMA CloseLogStep ==
    ASSUME Inv, NEW t \in Threads, CloseLog(t) PROVE Inv'
<1> USE Names DEF Inv
<1>a. /\ RedoStays /\ Earlier' = Earlier /\ InLast' = InLast /\ InLastDisk' = InLast /\ ~InUse'
      /\ \A u \in Trx : pc[u] \notin {"sync", "written", "commit", "commit_flush"}
      /\ pc' = [pc EXCEPT ![t] = "open_file"] /\ LOCK_log = t /\ LOCK_log' = t
  <2>1. RedoStays
      BY StayFacts DEF CloseLog, engine
  <2>2. Earlier' = Earlier /\ InLast' = InLast /\ InLastDisk' = InLast /\ ~InUse'
      BY CloseFacts DEF CloseLog
  <2>3. Counted = {} /\ LOCK_log = t /\ LOCK_log' = t
      BY CountFacts DEF CloseLog, At, locks, LockInv, is_open
  <2>4. \A u \in Trx : pc[u] \notin {"sync", "written", "commit", "commit_flush"}
      BY <2>3 DEF CloseLog, At, LockInv, Counted
  <2> QED
      BY <2>1, <2>2, <2>3, <2>4 DEF CloseLog, Goto
<1>c. /\ logs' \in Seq(LogType) /\ Len(logs') > 0 /\ synced' \in 0..Len(LastLog'.xids)
    BY CloseFacts DEF CloseLog
<1>1. TypeOK'
    BY <1>c
    DEF CloseLog, At, Goto, engine, binlog, locks, TypeOK, LogType, Pcs, OpenPcs,
        Threads
<1>2. OrderInv'
    BY StayFacts DEF CloseLog, engine
<1>3. RecInv'
    BY <1>a
    DEF CloseLog, At, Goto, engine, binlog, locks, TypeOK, RecInv, RedoStays, DiskIsAll,
        LogsStay, InDoubt, OpenPcs
<1>4. LogInv'
    BY <1>a
    DEF CloseLog, At, Goto, engine, binlog, locks, TypeOK, RecInv, LogInv, RedoStays,
        DiskIsAll, LogsStay, InDoubt, OpenPcs
<1>5. LastInv'
  <2>1. InLast \subseteq CommittedDisk \union sync_failed
      BY <1>a, LastFacts DEF CloseLog, At, LogInv
  <2> QED
      BY <1>a, <2>1 DEF CloseLog, At, TypeOK, LastInv, LockInv, RedoStays
<1>6. LockInv'
  <2>1. /\ \A u \in Threads : pc'[u] \in {"sync", "written", "new_file", "open_file"} => LOCK_log' = u
        /\ pc'[Admin] \in {"idle", "new_file", "open_file", "done"}
        /\ mode' # "up" => pc'[Admin] = "idle" /\ prepared_xids' = 0
      BY DEF CloseLog, At, Goto, engine, binlog, locks, TypeOK, LockInv
  <2>2. /\ Counted' = Counted /\ prepared_xids' = prepared_xids
        /\ mode' = "up" /\ is_open' => mode = "up" /\ is_open
      BY DEF CloseLog, At, Goto, engine, binlog, locks, TypeOK, Counted, is_open
  <2> QED
      BY <2>1, <2>2 DEF LockInv
<1>7. XidInv'
  <2>1. Live' \subseteq Live
      BY <1>a
      DEF CloseLog, At, Goto, engine, binlog, locks, TypeOK, Live, RedoStays, DiskIsAll,
          LogsStay, InDoubt, Threads
  <2> QED
      BY <2>1 DEF CloseLog, At, Goto, engine, binlog, locks, XidInv
<1>8. ReplyInv'
    BY <1>a DEF CloseLog, At, Goto, engine, binlog, locks, TypeOK, ReplyInv
<1> QED
    BY <1>1, <1>2, <1>3, <1>4, <1>5, <1>6, <1>7, <1>8

\* new_file_impl opens the next file.
LEMMA OpenLogStep ==
    ASSUME Inv, NEW t \in Threads, OpenLog(t) PROVE Inv'
<1> USE Names DEF Inv
<1>a. /\ RedoStays /\ InLastDisk = InLast /\ ~InUse
      /\ Earlier' = Earlier \union InLast /\ InLast' = {} /\ InLastDisk' = {} /\ InUse'
    BY StayFacts, NewFileFacts DEF OpenLog, At, engine, LastInv
<1>c. /\ logs' \in Seq(LogType) /\ Len(logs') > 0 /\ synced' \in 0..Len(LastLog'.xids)
    BY NewFileFacts DEF OpenLog
<1>b. /\ t \in Trx => pc' = [pc EXCEPT ![t] = "answer"]
      /\ t \notin Trx => t = Admin /\ pc' = [pc EXCEPT ![Admin] = "idle"]
    BY DEF OpenLog, Goto, AfterRotate, Threads
<1>1. TypeOK'
    BY <1>b, <1>c
    DEF OpenLog, At, Goto, engine, binlog, locks, TypeOK, LogType, Pcs, OpenPcs, Threads
<1>2. OrderInv'
    BY StayFacts DEF OpenLog, engine
<1>3. RecInv'
    BY <1>a, <1>b
    DEF OpenLog, At, engine, TypeOK, RecInv, RedoStays, DiskIsAll, LogsStay, InDoubt,
        OpenPcs
<1>4. LogInv'
    BY <1>a, <1>b
    DEF OpenLog, At, engine, TypeOK, RecInv, LogInv, RedoStays, DiskIsAll, LogsStay,
        InDoubt, OpenPcs, LastInv
<1>5. LastInv'
    BY <1>a, <1>b
    DEF OpenLog, At, engine, TypeOK, RecInv, LastInv, LockInv, RedoStays, DiskIsAll,
        LogsStay
<1>6. LockInv'
  <2>1. /\ \A u \in Threads : pc'[u] \in {"sync", "written", "new_file", "open_file"} => LOCK_log' = u
        /\ pc'[Admin] \in {"idle", "new_file", "open_file", "done"}
        /\ mode' # "up" => pc'[Admin] = "idle" /\ prepared_xids' = 0
      BY <1>b DEF OpenLog, At, Goto, engine, binlog, locks, TypeOK, LockInv
  <2>2. /\ Counted' = Counted /\ prepared_xids' = prepared_xids
        /\ mode' = "up" /\ is_open' => mode = "up" /\ is_open
      BY <1>b DEF OpenLog, At, Goto, engine, binlog, locks, TypeOK, Counted, is_open, LastInv
  <2> QED
      BY <2>1, <2>2 DEF LockInv
<1>7. XidInv'
  <2>1. Live' \subseteq Live
      BY <1>a, <1>b
      DEF OpenLog, At, Goto, engine, binlog, locks, TypeOK, Live, RedoStays, DiskIsAll,
          LogsStay, InDoubt
  <2> QED
      BY <2>1 DEF OpenLog, At, Goto, engine, binlog, locks, XidInv
<1>8. ReplyInv'
    BY <1>b DEF OpenLog, At, TypeOK, ReplyInv
<1> QED
    BY <1>1, <1>2, <1>3, <1>4, <1>5, <1>6, <1>7, <1>8

\* open fails, before or after the next file has come into the index.
LEMMA OpenFailsStep ==
    ASSUME Inv, NEW t \in Threads, OpenFails(t) PROVE Inv'
<1> USE Names DEF Inv
<1>a. /\ RedoStays /\ InLastDisk = InLast /\ ~InUse
      /\ \/ LogsStay
         \/ Earlier' = Earlier \union InLast /\ InLast' = {} /\ InLastDisk' = {} /\ InUse'
    BY StayFacts, NewFileFacts DEF OpenFails, At, engine, LastInv
<1>c. /\ logs' \in Seq(LogType) /\ Len(logs') > 0 /\ synced' \in 0..Len(LastLog'.xids)
  <2>1. CASE logs' = logs /\ synced' = synced
      BY <2>1, LastFacts DEF LastLog
  <2> QED
      BY <2>1, NewFileFacts DEF OpenFails
<1>b. /\ t \in Trx => pc' = [pc EXCEPT ![t] = "answer"]
      /\ t \notin Trx => t = Admin /\ pc' = [pc EXCEPT ![Admin] = "idle"]
    BY DEF OpenFails, Goto, AfterRotate, Threads
<1>1. TypeOK'
    BY <1>b, <1>c
    DEF OpenFails, At, Goto, engine, binlog, locks, TypeOK, LogType, Pcs, OpenPcs, Threads
<1>2. OrderInv'
    BY StayFacts DEF OpenFails, engine
<1>3. RecInv'
    BY <1>a, <1>b
    DEF OpenFails, At, engine, TypeOK, RecInv, RedoStays, DiskIsAll, LogsStay, InDoubt,
        OpenPcs
<1>4. LogInv'
    BY <1>a, <1>b
    DEF OpenFails, At, engine, TypeOK, RecInv, LogInv, RedoStays, DiskIsAll, LogsStay,
        InDoubt, OpenPcs, LastInv
<1>5. LastInv'
    BY <1>a, <1>b
    DEF OpenFails, At, engine, TypeOK, RecInv, LastInv, LockInv, RedoStays, DiskIsAll,
        LogsStay
<1>6. LockInv'
  <2>1. /\ \A u \in Threads : pc'[u] \in {"sync", "written", "new_file", "open_file"} => LOCK_log' = u
        /\ pc'[Admin] \in {"idle", "new_file", "open_file", "done"}
        /\ mode' # "up" => pc'[Admin] = "idle" /\ prepared_xids' = 0
      BY <1>b DEF OpenFails, At, Goto, engine, binlog, locks, TypeOK, LockInv
  <2>2. /\ Counted' = Counted /\ prepared_xids' = prepared_xids
        /\ mode' = "up" /\ is_open' => mode = "up" /\ is_open
      BY <1>b DEF OpenFails, At, Goto, engine, binlog, locks, TypeOK, Counted, is_open, LastInv
  <2> QED
      BY <2>1, <2>2 DEF LockInv
<1>7. XidInv'
  <2>1. Live' \subseteq Live
      BY <1>a, <1>b
      DEF OpenFails, At, Goto, engine, binlog, locks, TypeOK, Live, RedoStays, DiskIsAll,
          LogsStay, InDoubt
  <2> QED
      BY <2>1 DEF OpenFails, At, Goto, engine, binlog, locks, XidInv
<1>8. ReplyInv'
    BY <1>b DEF OpenFails, At, TypeOK, ReplyInv
<1> QED
    BY <1>1, <1>2, <1>3, <1>4, <1>5, <1>6, <1>7, <1>8

\* open finds no index file to write to.
LEMMA NotOpenedStep ==
    ASSUME Inv, NEW t \in Threads, NotOpened(t) PROVE Inv'
<1> USE Names DEF Inv
<1>a. RedoStays /\ LogsStay
    BY StayFacts DEF NotOpened, engine, binlog
<1>b. /\ t \in Trx => pc' = [pc EXCEPT ![t] = "answer"]
      /\ t \notin Trx => t = Admin /\ pc' = [pc EXCEPT ![Admin] = "idle"]
    BY DEF NotOpened, Goto, AfterRotate, Threads
<1>d. /\ mode = "up" /\ mode' = "up" /\ LOCK_log' = None /\ pc[t] \in {"new_file", "open_file"}
      /\ UNCHANGED <<log_state, prepared_xids, sync_failed, unlogged>>
    BY DEF NotOpened, At, binlog
<1>1. TypeOK'
    BY <1>b
    DEF NotOpened, At, Goto, engine, binlog, locks, TypeOK, LastLog, Pcs, OpenPcs, Threads
<1>2. OrderInv'
    BY StayFacts DEF NotOpened, engine
<1>3. RecInv'
    BY <1>a, <1>b, <1>d
    DEF TypeOK, RecInv, RedoStays, DiskIsAll, LogsStay, InDoubt, OpenPcs
<1>4. LogInv'
  <2>1. \A u \in Trx : pc'[u] = pc[u] \/ (pc[u] \in {"new_file", "open_file"} /\ pc'[u] = "answer")
      BY <1>b, <1>d DEF TypeOK
  <2> QED
      BY <1>a, <1>d, <2>1 DEF LogInv, RedoStays, LogsStay
<1>5. LastInv'
    BY <1>a, <1>b, <1>d
    DEF TypeOK, RecInv, LastInv, LockInv, RedoStays, DiskIsAll, LogsStay
<1>6. LockInv'
  <2>1. /\ \A u \in Threads : pc'[u] \in {"sync", "written", "new_file", "open_file"} => LOCK_log' = u
        /\ pc'[Admin] \in {"idle", "new_file", "open_file", "done"}
      BY <1>b, <1>d DEF TypeOK, LockInv
  <2>2. Counted' = Counted /\ is_open' = is_open
      BY <1>b, <1>d DEF TypeOK, Counted, is_open
  <2> QED
      BY <1>d, <2>1, <2>2 DEF LockInv
<1>7. XidInv'
  <2>1. Live' \subseteq Live
      BY <1>a, <1>b, <1>d DEF TypeOK, Live, RedoStays, LogsStay, InDoubt
  <2> QED
      BY <2>1 DEF NotOpened, XidInv
<1>8. ReplyInv'
    BY <1>b, <1>d DEF NotOpened, TypeOK, ReplyInv
<1> QED
    BY <1>1, <1>2, <1>3, <1>4, <1>5, <1>6, <1>7, <1>8

\* new_file_impl finds no name for the next file.
LEMMA KeepLogStep ==
    ASSUME Inv, NEW t \in Threads, KeepLog(t) PROVE Inv'
<1> USE Names DEF Inv
<1>a. RedoStays /\ LogsStay
    BY StayFacts DEF KeepLog, engine, binlog
<1>b. /\ t \in Trx => pc' = [pc EXCEPT ![t] = "answer"]
      /\ t \notin Trx => t = Admin /\ pc' = [pc EXCEPT ![Admin] = "done"]
    BY DEF KeepLog, Goto, AfterRotate, Threads
<1>d. /\ mode = "up" /\ mode' = "up" /\ LOCK_log' = None /\ pc[t] \in {"new_file", "open_file"}
      /\ UNCHANGED <<log_state, prepared_xids, sync_failed, unlogged>>
    BY DEF KeepLog, At, binlog
<1>1. TypeOK'
    BY <1>b
    DEF KeepLog, At, Goto, engine, binlog, locks, TypeOK, LastLog, Pcs, OpenPcs, Threads
<1>2. OrderInv'
    BY StayFacts DEF KeepLog, engine
<1>3. RecInv'
    BY <1>a, <1>b, <1>d
    DEF TypeOK, RecInv, RedoStays, DiskIsAll, LogsStay, InDoubt, OpenPcs
<1>4. LogInv'
  <2>1. \A u \in Trx : pc'[u] = pc[u] \/ (pc[u] \in {"new_file", "open_file"} /\ pc'[u] = "answer")
      BY <1>b, <1>d DEF TypeOK
  <2> QED
      BY <1>a, <1>d, <2>1 DEF LogInv, RedoStays, LogsStay
<1>5. LastInv'
    BY <1>a, <1>b, <1>d
    DEF TypeOK, RecInv, LastInv, LockInv, RedoStays, DiskIsAll, LogsStay
<1>6. LockInv'
  <2>1. /\ \A u \in Threads : pc'[u] \in {"sync", "written", "new_file", "open_file"} => LOCK_log' = u
        /\ pc'[Admin] \in {"idle", "new_file", "open_file", "done"}
      BY <1>b, <1>d DEF TypeOK, LockInv
  <2>2. Counted' = Counted /\ is_open' = is_open
      BY <1>b, <1>d DEF TypeOK, Counted, is_open
  <2> QED
      BY <1>d, <2>1, <2>2 DEF LockInv
<1>7. XidInv'
  <2>1. Live' \subseteq Live
      BY <1>a, <1>b, <1>d DEF TypeOK, Live, RedoStays, LogsStay, InDoubt
  <2> QED
      BY <2>1 DEF KeepLog, XidInv
<1>8. ReplyInv'
    BY <1>b, <1>d DEF KeepLog, TypeOK, ReplyInv
<1> QED
    BY <1>1, <1>2, <1>3, <1>4, <1>5, <1>6, <1>7, <1>8

\* The start opens a new file when no transaction is in doubt.
LEMMA FinishStartStep ==
    ASSUME Inv, FinishStart PROVE Inv'
<1> USE Names DEF Inv
<1>a. /\ RedoStays /\ InDoubt = {} /\ InLastDisk = InLast
      /\ Earlier' = Earlier \union InLast /\ InLast' = {} /\ InLastDisk' = {} /\ InUse'
  <2>1. InDoubt = {}
      BY StateFacts DEF FinishStart, Prepared, InDoubt, PreparedRec, Rec
  <2> QED
      BY <2>1, StayFacts, NewFileFacts DEF FinishStart, engine, RecInv
<1>c. /\ logs' \in Seq(LogType) /\ Len(logs') > 0 /\ synced' \in 0..Len(LastLog'.xids)
    BY NewFileFacts DEF FinishStart
<1>1. TypeOK'
    BY <1>c
    DEF FinishStart, At, Goto, engine, binlog, locks, TypeOK, LogType, Pcs, OpenPcs,
        Threads
<1>2. OrderInv'
    BY StayFacts DEF FinishStart, engine
<1>3. RecInv'
    BY <1>a
    DEF FinishStart, At, Goto, engine, binlog, locks, TypeOK, RecInv, RedoStays,
        DiskIsAll, LogsStay, InDoubt, OpenPcs
<1>4. LogInv'
  <2>1. Earlier \union InLast \subseteq CommittedDisk \union sync_failed
      BY <1>a, LastFacts DEF FinishStart, LogInv, RecInv, InDoubt
  <2>2. \A u \in Trx : pc'[u] \in {"idle", "done"} /\ pc'[u] = pc[u]
      BY DEF FinishStart, RecInv
  <2> QED
      BY <1>a, <2>1, <2>2 DEF FinishStart, LogInv, RedoStays
<1>5. LastInv'
  <2>1. \A u \in Threads : pc'[u] # "open_file"
      BY DEF FinishStart, RecInv, LockInv, Threads
  <2> QED
      BY <1>a, <2>1 DEF FinishStart, LastInv
<1>6. LockInv'
  <2>1. /\ \A u \in Trx : pc[u] \in {"idle", "done"}
        /\ pc[Admin] = "idle" /\ prepared_xids = 0
      BY DEF FinishStart, RecInv, LockInv
  <2>2. pc' = pc /\ prepared_xids' = 0 /\ mode' = "up"
      BY <2>1 DEF FinishStart
  <2>3. Counted' = {}
      BY <2>1, <2>2 DEF Counted
  <2> QED
      BY <2>1, <2>2, <2>3, FS_EmptySet DEF LockInv, Threads
<1>7. XidInv'
  <2>1. Live' = {}
      BY <1>a DEF FinishStart, Live, RedoStays, InDoubt, RecInv
  <2> QED
      BY <2>1 DEF XidInv
<1>8. ReplyInv'
    BY <1>a DEF FinishStart, At, Goto, engine, binlog, locks, TypeOK, ReplyInv
<1> QED
    BY <1>1, <1>2, <1>3, <1>4, <1>5, <1>6, <1>7, <1>8

\* The end of the process takes the threads and a tail of each log.
LEMMA DieStep ==
    ASSUME Inv, Die, crashes' \in 0..MaxCrash PROVE Inv'
<1> USE Names DEF Inv
<1>a. /\ \A k \in Kinds : Rec(k)' \subseteq Rec(k) /\ RecDisk(k) \subseteq Rec(k)'
      /\ redo' \in Seq(Kinds \X Trx) /\ flushed' \in 0..Len(redo') /\ OrderInv' /\ DiskIsAll'
  <2>1. PICK n \in flushed..Len(redo) : redo' = SubSeq(redo, 1, n) /\ flushed' = n
      BY DEF Die
  <2>2. /\ redo' \in Seq(Kinds \X Trx) /\ Len(redo') = n /\ OrderInv' /\ DiskIsAll'
        /\ \A k \in Kinds : Rec(k)' \subseteq Rec(k) /\ RecDisk(k) \subseteq Rec(k)'
      BY <2>1, CutRec
  <2>3. n \in Nat
      BY <2>1 DEF TypeOK
  <2> QED
      BY <2>1, <2>2, <2>3
<1>b. /\ PreparedRec' \subseteq PreparedRec /\ PreparedDisk \subseteq PreparedRec'
      /\ CommittedRec' \subseteq CommittedRec /\ CommittedDisk \subseteq CommittedRec'
      /\ AbortedRec' \subseteq AbortedRec /\ AbortedDisk \subseteq AbortedRec'
      /\ PreparedDisk' = PreparedRec' /\ CommittedDisk' = CommittedRec'
      /\ AbortedDisk' = AbortedRec'
    BY <1>a
    DEF DiskIsAll, PreparedRec, CommittedRec, AbortedRec, PreparedDisk, CommittedDisk,
        AbortedDisk, Kinds
<1>c. /\ logs' \in Seq(LogType) /\ Len(logs') > 0 /\ synced' \in 0..Len(LastLog'.xids)
      /\ Earlier' = Earlier /\ InLast' \subseteq InLast /\ InLastDisk \subseteq InLast'
      /\ InLastDisk' = InLast' /\ InUse' = InUse
  <2>1. PICK n \in synced..Len(LastLog.xids) :
            logs' = [logs EXCEPT ![Len(logs)].xids = SubSeq(@, 1, n)] /\ synced' = n
      BY DEF Die
  <2> QED
      BY <2>1, CutFacts
<1>d. /\ \A u \in Trx : pc'[u] = IF pc[u] = "idle" THEN "idle" ELSE "done"
      /\ pc'[Admin] = "idle" /\ mode' = "down" /\ pc' \in [Threads -> Pcs]
      /\ sync_failed' = sync_failed /\ unlogged' = unlogged /\ xid' = xid /\ reply' = reply
    BY DEF Die, Pcs
<1>1. TypeOK'
  <2>1. /\ query_id' \in Nat /\ commit_list' \subseteq Nat
        /\ sync_binlog_counter' \in Nat /\ prepared_xids' \in Int /\ log_state' = "LOG_CLOSED"
        /\ LOCK_log' = None /\ prepare_commit_mutex' = None
      BY DEF Die
  <2>2. redo' \in Seq({"prepared", "committed", "aborted"} \X Trx)
      BY <1>a DEF Kinds
  <2>3. logs' \in Seq([xids : Seq(Trx), in_use : BOOLEAN])
      BY <1>c DEF LogType
  <2> QED
      BY <1>a, <1>c, <1>d, <2>1, <2>2, <2>3 DEF TypeOK
<1>2. OrderInv'
    BY <1>a
<1>3. RecInv'
    BY <1>b, <1>c, <1>d DEF RecInv, OpenPcs
<1>4. LogInv'
  <2>1. /\ CommittedRec' \subseteq Earlier' \union InLastDisk' \union unlogged
        /\ Earlier' \union InLast' \subseteq PreparedDisk' \ unlogged
        /\ Earlier' \subseteq CommittedDisk' \union sync_failed
      BY <1>b, <1>c DEF LogInv
  <2>2. ASSUME NEW u \in Trx, u \in (Earlier' \union InLast') \ sync_failed,
               u \notin CommittedDisk'
        PROVE  u \in InLast' \ (CommittedRec' \union AbortedRec') /\ InUse'
    <3>1. u \notin CommittedDisk /\ u \in (Earlier \union InLast) \ sync_failed
        BY <1>b, <1>c, <2>2
    <3>2. CASE mode = "up"
      <4>1. u \in InLast /\ pc[u] \in {"sync", "written", "commit", "commit_flush"}
          BY <3>1, <3>2 DEF LogInv
      <4>2. InUse
          BY <3>1, <4>1 DEF LastInv
      <4>3. u \in InLast'
          BY <1>c, <2>2, <4>1 DEF LogInv
      <4>4. u \notin AbortedRec
          BY <4>1, StateFacts DEF RecInv, OpenPcs, InDoubt
      <4> QED
          BY <1>b, <1>c, <2>2, <4>2, <4>3, <4>4
    <3>3. CASE mode # "up"
      <4>1. u \in InLast \ (CommittedRec \union AbortedRec) /\ InUse /\ InLastDisk = InLast
          BY <3>1, <3>3 DEF LogInv, RecInv
      <4> QED
          BY <1>b, <1>c, <4>1
    <3> QED
        BY <3>2, <3>3
  <2>3. ASSUME NEW u \in Trx, pc'[u] = "idle"
        PROVE  u \notin Earlier' \union InLast' \union sync_failed \union unlogged
      BY <1>c, <1>d, <2>3 DEF LogInv
  <2> QED
      BY <1>c, <1>d, <2>1, <2>2, <2>3 DEF LogInv
<1>5. LastInv'
  <2>1. \A u \in Threads : pc'[u] \in {"idle", "done"}
      BY <1>d DEF Threads
  <2>2. \A u \in Trx : pc'[u] \in {"idle", "done"}
      BY <1>d
  <2> QED
      BY <1>b, <1>c, <1>d, <2>1, <2>2 DEF LastInv
<1>6. LockInv'
  <2>1. \A u \in Threads : pc'[u] \in {"idle", "done"}
      BY <1>d DEF Threads
  <2>2. Counted' = {} /\ prepared_xids' = 0
      BY <1>d DEF Die, Counted
  <2> QED
      BY <1>d, <2>1, <2>2, FS_EmptySet DEF LockInv
<1>7. XidInv'
  <2>1. InDoubt' \subseteq Live
    <3>1. ASSUME NEW u \in Trx, u \in InDoubt' PROVE u \in Live
      <4>1. u \in PreparedRec /\ u \notin CommittedDisk \union AbortedDisk
          BY <1>b, <3>1 DEF InDoubt
      <4>2. CASE mode = "up"
          BY <4>1, <4>2 DEF RecInv, Live
      <4>3. CASE mode # "up"
          BY <4>1, <4>3 DEF RecInv, Live, InDoubt
      <4> QED
          BY <4>2, <4>3
    <3>2. InDoubt' \subseteq Trx
        BY DEF InDoubt, PreparedRec, Rec
    <3> QED
        BY <3>1, <3>2
  <2>2. Live' \subseteq Live
    <3>1. Live' = {u \in Trx : pc'[u] \notin {"idle", "done"}} \union InLast' \union InDoubt'
        BY DEF Live
    <3>2. InLast' \subseteq Live /\ {u \in Trx : pc'[u] \notin {"idle", "done"}} = {}
        BY <1>c, <1>d DEF Live
    <3> QED
        BY <2>1, <3>1, <3>2
  <2> QED
      BY <1>d, <2>2 DEF XidInv
<1>8. ReplyInv'
    BY <1>d DEF ReplyInv
<1> QED
    BY <1>1, <1>2, <1>3, <1>4, <1>5, <1>6, <1>7, <1>8

---------------------------------------------------------------------------
\* Both logs are empty at the first start.
LEMMA InitInv == Init => Inv
<1> SUFFICES ASSUME Init PROVE Inv
    OBVIOUS
<1> USE Names, XaCommitAssumption
<1>1. /\ redo = <<>> /\ Len(redo) = 0 /\ logs = <<EmptyLog>> /\ Len(logs) = 1
      /\ logs[1] = EmptyLog
      /\ \A t \in Threads : pc[t] = "idle"
      /\ \A t \in Trx : reply[t] = "none"
    BY DEF Init
<1>2. EmptyLog \in LogType /\ EmptyLog.xids = <<>> /\ EmptyLog.in_use = TRUE
    BY DEF EmptyLog, LogType
<1>3. LastLog = EmptyLog /\ Len(LastLog.xids) = 0
    BY <1>1, <1>2 DEF LastLog
<1>4. TypeOK
  <2>1. logs \in Seq(LogType) /\ redo \in Seq(Kinds \X Trx)
      BY <1>1, <1>2
  <2> QED
      BY <1>1, <1>3, <2>1 DEF Init, TypeOK, Pcs, LogType, Kinds
<1>5. OrderInv
    BY <1>1 DEF OrderInv
<1>6. /\ PreparedRec = {} /\ CommittedRec = {} /\ AbortedRec = {}
      /\ PreparedDisk = {} /\ CommittedDisk = {} /\ AbortedDisk = {}
    BY <1>1 DEF Init, PreparedRec, CommittedRec, AbortedRec, PreparedDisk, CommittedDisk,
           AbortedDisk, Rec, RecDisk
<1>7. InLast = {} /\ InLastDisk = {} /\ Earlier = {} /\ InUse
    BY <1>1, <1>2, <1>3 DEF Init, InLast, InLastDisk, Earlier, InUse, RealLog
<1>8. RecInv /\ LogInv
    BY <1>1, <1>6, <1>7 DEF Init, RecInv, LogInv, OpenPcs
<1>9. LastInv
    BY <1>1, <1>7 DEF Init, LastInv
<1>10. LockInv
  <2>1. Counted = {}
      BY <1>1 DEF Counted
  <2> QED
      BY <1>1, <2>1, FS_EmptySet DEF Init, LockInv
<1>11. Live = {}
    BY <1>1, <1>6, <1>7 DEF Live, InDoubt
<1>12. XidInv /\ ReplyInv
    BY <1>1, <1>11 DEF XidInv, ReplyInv
<1> QED
    BY <1>4, <1>5, <1>8, <1>9, <1>10, <1>12 DEF Inv

\* Nothing moves.
LEMMA StutterStep == ASSUME Inv, UNCHANGED vars PROVE Inv'
<1> USE DEF Inv, vars, engine, binlog, locks
<1>1. RedoStays /\ LogsStay /\ OrderInv'
    BY StayFacts
<1>2. TypeOK' /\ ReplyInv'
    BY DEF TypeOK, LastLog, ReplyInv
<1>3. RecInv'
    BY <1>1 DEF RecInv, RedoStays, LogsStay, InDoubt
<1>4. LogInv'
    BY <1>1 DEF LogInv, RedoStays, LogsStay
<1>5. LastInv'
    BY <1>1 DEF LastInv, RedoStays, LogsStay
<1>6. LockInv'
    BY DEF LockInv, Counted, is_open
<1>7. XidInv'
    BY <1>1 DEF XidInv, Live, RedoStays, LogsStay, InDoubt
<1> QED
    BY <1>1, <1>2, <1>3, <1>4, <1>5, <1>6, <1>7

\* Every step of a server that syncs its log keeps the invariant.
LEMMA NextStep == ASSUME sync_binlog_period = 1, Inv, [Next]_vars PROVE Inv'
<1>1. ASSUME NEW t \in Trx, Begin(t) \/ CommitStep(t) PROVE Inv'
    BY <1>1, BeginStep, LockPrepareStep, FlushPrepareStep, WriteXidStep, SyncLogStep,
       CountXidStep, RollbackStep, CommitInMemoryStep, FlushCommitStep, UnlogStep,
       RotateStep, AnswerClientStep DEF CommitStep
<1>2. ASSUME NEW t \in Threads, NewFile(t) PROVE Inv'
  <2>1. CASE RotateNameless(t)
    <3>1. Die /\ crashes' \in 0..MaxCrash
        BY <2>1 DEF RotateNameless, Inv, TypeOK
    <3> QED
        BY <3>1, DieStep
  <2> QED
      BY <1>2, <2>1, CloseLogStep, KeepLogStep, OpenLogStep, OpenFailsStep, NotOpenedStep
      DEF NewFile
<1>3. CASE ForceRotate \/ Crash
  <2>1. CASE Crash
    <3>1. crashes' = crashes + 1 /\ crashes < MaxCrash /\ crashes \in 0..MaxCrash /\ MaxCrash \in Nat
        BY <2>1, XaCommitAssumption DEF Crash, Inv, TypeOK
    <3>2. crashes' \in 0..MaxCrash
        BY <3>1
    <3> QED
        BY <2>1, <3>2, DieStep DEF Crash
  <2> QED
      BY <1>3, <2>1, ForceRotateStep
<1>4. CASE Recovery
    BY <1>4, ReadLastLogStep, RecoverTrxStep, FinishStartStep DEF Recovery
<1>5. CASE UNCHANGED vars
    BY <1>5, StutterStep
<1> QED
    BY <1>1, <1>2, <1>3, <1>4, <1>5 DEF Next

\* The invariant holds of every server that syncs its binary log at every
\* commit, whatever transactions, rotations, errors and crashes it meets.
THEOREM Invariance == ASSUME sync_binlog_period = 1 PROVE Spec => []Inv
<1>1. Inv /\ [Next]_vars => Inv'
    BY NextStep
<1> QED
    BY <1>1, InitInv, PTL DEF Spec

---------------------------------------------------------------------------
(* What the invariant says of the runs' properties.                        *)

\* InnoDB and the binary log hold the same transactions, but for those that a failed
\* rotation left without a log, and those whose my_sync failed.
THEOREM LogsAgree == ASSUME sync_binlog_period = 1 PROVE Spec => []LogAndEngineAgree
<1>1. Inv => LogAndEngineAgree
  <2> SUFFICES ASSUME Inv, NEW t \in Trx
               PROVE  /\ State(t) = "committed" => t \in Logged \union unlogged
                      /\ t \in Logged /\ mode = "up" =>
                            \/ State(t) = "committed"
                            \/ pc[t] \in {"sync", "written", "commit"} \/ t \in sync_failed
      BY DEF LogAndEngineAgree
  <2>1. State(t) = "committed" <=> t \in CommittedRec
      BY StateFacts DEF Inv
  <2>2. Logged = Earlier \union InLast
      BY LastFacts DEF Inv
  <2> QED
      BY <2>1, <2>2 DEF Inv, RecInv, LogInv
<1> QED
    BY <1>1, Invariance, PTL

\* The recovery finds in the last file alone what it needs.
THEOREM LastLogSuffices == ASSUME sync_binlog_period = 1 PROVE Spec => []LastLogIsEnough
<1>1. Inv => LastLogIsEnough
  <2> SUFFICES ASSUME Inv, NEW t \in Prepared
               PROVE  /\ \A i \in DOMAIN logs : t \in RealLog(logs[i]) =>
                            (i = Len(logs) /\ LastLog.in_use) \/ t \in sync_failed
                      /\ \A u \in RealLog(LastLog) : u # t => xid[u] # xid[t]
      BY DEF LastLogIsEnough
  <2>1. t \in Trx /\ t \in InDoubt
      BY StateFacts DEF Inv, Prepared
  <2>2. t \notin CommittedDisk
      BY <2>1 DEF Inv, RecInv, InDoubt
  <2>3. ASSUME NEW i \in DOMAIN logs, t \in RealLog(logs[i]), t \notin sync_failed
        PROVE  i = Len(logs) /\ InUse
    <3>1. i \in 1..Len(logs) /\ Len(logs) \in Nat
        BY LastFacts DEF Inv
    <3>2. CASE i = Len(logs)
      <4>1. t \in InLast
          BY <2>3, <3>2 DEF InLast, LastLog
      <4> QED
          BY <2>2, <2>3, <3>2, <4>1 DEF Inv, LastInv
    <3>3. CASE i # Len(logs)
      <4>1. t \in Earlier
          BY <2>3, <3>1, <3>3 DEF Earlier
      <4> QED
          BY <2>1, <2>2, <2>3, <4>1 DEF Inv, LogInv
    <3> QED
        BY <3>2, <3>3
  <2>4. ASSUME NEW u \in RealLog(LastLog), u # t PROVE xid[u] # xid[t]
      BY <2>1, <2>4 DEF Inv, XidInv, Live, InLast
  <2> QED
      BY <2>3, <2>4 DEF InUse
<1> QED
    BY <1>1, Invariance, PTL

---------------------------------------------------------------------------
(* The commit implements TrxOutcome.                                       *)

Decided == Earlier \union InLastDisk \union CommittedDisk

\* The outcome of a transaction, by what the two logs hold of it.
Outcome(t) ==
    IF t \in sync_failed
    THEN IF t \in CommittedRec THEN "committed" ELSE IF t \in AbortedRec THEN "aborted" ELSE "none"
    ELSE IF t \in Decided THEN "committed"
    ELSE IF t \notin InLast /\ pc[t] \in {"answer", "done"} THEN "aborted"
    ELSE "none"

\* The refinement mapping, over the sets.
LEMMA OutcomeFacts ==
    Inv => outcome = [t \in Trx |-> Outcome(t)]
<1> SUFFICES ASSUME Inv PROVE outcome = [t \in Trx |-> Outcome(t)]
    OBVIOUS
<1> USE DEF Inv
<1>1. ASSUME NEW t \in Trx
      PROVE  Durable(t) <=> t \in Decided
  <2>1. Len(logs) \in Nat /\ Len(logs) > 0 /\ DOMAIN logs = 1..Len(logs)
      BY LastFacts
  <2>2. ASSUME NEW i \in 1..(Len(logs) - 1)
        PROVE  /\ i \in DOMAIN logs /\ OnDisk(i) = Len(logs[i].xids)
               /\ DOMAIN logs[i].xids = 1..Len(logs[i].xids)
    <3>1. i \in 1..Len(logs) /\ i < Len(logs)
        BY <2>1
    <3>2. logs[i] \in LogType
        BY <3>1, LastFacts
    <3>3. logs[i].xids \in Seq(Trx)
        BY <3>2 DEF LogType
    <3> QED
        BY <2>1, <3>1, <3>3 DEF OnDisk
  <2>3. t \in Earlier <=> \E i \in 1..(Len(logs) - 1) : \E j \in 1..OnDisk(i) : logs[i].xids[j] = t
    <3> HIDE DEF Inv
    <3>1. ASSUME NEW i \in 1..(Len(logs) - 1)
          PROVE  t \in RealLog(logs[i]) <=> \E j \in 1..OnDisk(i) : logs[i].xids[j] = t
        BY <2>2 DEF RealLog
    <3>2. t \in Earlier <=> \E i \in 1..(Len(logs) - 1) : t \in RealLog(logs[i])
        BY Zenon DEF Earlier
    <3> QED
        BY <3>1, <3>2, Zenon
  <2>4. t \in InLastDisk <=> \E j \in 1..OnDisk(Len(logs)) : logs[Len(logs)].xids[j] = t
      BY <2>1 DEF InLastDisk, OnDisk, LastLog
  <2>5. \A i : i \in DOMAIN logs <=> i \in 1..(Len(logs) - 1) \/ i = Len(logs)
      BY <2>1
  <2>6. (\E i \in DOMAIN logs : \E j \in 1..OnDisk(i) : logs[i].xids[j] = t)
            <=> t \in Earlier \union InLastDisk
      BY <2>3, <2>4, <2>5
  <2>7. (\E i \in 1..flushed : redo[i] = <<"committed", t>>) <=> t \in CommittedDisk
      BY DEF CommittedDisk, RecDisk
  <2>8. t \in CommittedDisk => t \in Earlier \union InLastDisk \union unlogged
      BY DEF RecInv, LogInv
  <2> QED
      BY <2>6, <2>7, <2>8 DEF Decided, Durable
<1>2. Logged = Earlier \union InLast /\ InLastDisk \subseteq InLast
    BY LastFacts
<1>3. ASSUME NEW t \in Trx PROVE outcome[t] = Outcome(t)
  <2>1. /\ State(t) = "committed" <=> t \in CommittedRec
        /\ State(t) = "aborted" <=> t \in AbortedRec
      BY StateFacts
  <2>2. CASE t \in sync_failed
      BY <2>1, <2>2 DEF outcome, Outcome
  <2>3. CASE t \notin sync_failed /\ t \in Decided
      BY <1>1, <1>2, <2>3 DEF outcome, Outcome, Decided
  <2>4. CASE t \notin sync_failed /\ t \notin Decided
      BY <1>1, <1>2, <2>4 DEF outcome, Outcome, Decided
  <2> QED
      BY <2>2, <2>3, <2>4
<1> QED
    BY <1>3 DEF outcome

\* What a step leaves alone of a transaction that is decided.
Settled ==
    \A t \in Trx :
        /\ t \in sync_failed =>
             /\ t \in sync_failed'
             /\ t \in CommittedRec => t \in CommittedRec'
             /\ t \in AbortedRec => t \in AbortedRec'
        /\ t \in sync_failed' \ sync_failed => pc[t] = "sync"
        /\ t \in Decided => t \in Decided'
        /\ t \notin Decided \union InLast /\ pc[t] \in {"answer", "done"} =>
             t \notin Decided' \union InLast' /\ pc'[t] \in {"answer", "done"}

\* Who has come to an end without a commit on disk has none in memory either.
LEMMA EndedFacts ==
    ASSUME Inv, NEW t \in Trx, pc[t] \in {"answer", "done"}, t \notin CommittedDisk
    PROVE  t \notin CommittedRec
<1>1. ~(t \in CommittedRec /\ t \in AbortedRec)
    BY StateFacts DEF Inv
<1> QED
    BY <1>1 DEF Inv, RecInv

\* The steps that touch neither log.
LEMMA QuietSettled ==
    ASSUME Inv, NEW t \in Trx,
           \/ Begin(t) \/ CountXid(t) \/ Unlog(t) \/ Rotate(t) \/ AnswerClient(t)
           \/ ForceRotate \/ ReadLastLog \/ UNCHANGED vars
    PROVE  Settled
<1>1. RedoStays /\ LogsStay /\ sync_failed' = sync_failed
    BY StayFacts DEF Begin, CountXid, Unlog, Rotate, AnswerClient, ForceRotate, ReadLastLog,
           vars, engine, binlog
<1>2. \A u \in Trx : pc[u] \in {"answer", "done"} => pc'[u] \in {"answer", "done"}
    BY Names DEF Inv, TypeOK, Begin, CountXid, Unlog, Rotate, AnswerClient, ForceRotate,
           ReadLastLog, vars, At, Goto
<1> QED
    BY <1>1, <1>2 DEF Settled, Decided, RedoStays, LogsStay

\* The steps that write InnoDB's log.
LEMMA EngineSettled ==
    ASSUME Inv, NEW t \in Trx,
           \/ LockPrepare(t) \/ FlushPrepare(t) \/ Rollback(t) \/ CommitInMemory(t)
           \/ FlushCommit(t) \/ RecoverTrx(t)
    PROVE  Settled
<1>1. LogsStay /\ sync_failed' = sync_failed
    BY StayFacts DEF LockPrepare, FlushPrepare, Rollback, CommitInMemory, FlushCommit,
           RecoverTrx, binlog
<1>2. \A u \in Trx : pc[u] \in {"answer", "done"} => pc'[u] \in {"answer", "done"}
    BY Names
    DEF Inv, TypeOK, LockPrepare, FlushPrepare, Rollback, CommitInMemory, FlushCommit,
           RecoverTrx, At, Goto
<1>3. CommittedRec \subseteq CommittedRec' /\ AbortedRec \subseteq AbortedRec'
  <2>1. CASE redo' = redo
      BY <2>1 DEF CommittedRec, AbortedRec, Rec
  <2>2. ASSUME NEW s \in Kinds, redo' = Append(redo, <<s, t>>)
        PROVE  CommittedRec \subseteq CommittedRec' /\ AbortedRec \subseteq AbortedRec'
    <3>1. \A k \in Kinds : Rec(k)' = IF k = s THEN Rec(k) \union {t} ELSE Rec(k)
        BY <2>2, AppendRec DEF Inv
    <3> QED
        BY <3>1 DEF CommittedRec, AbortedRec, Kinds
  <2>3. redo' = redo \/ \E s \in Kinds : redo' = Append(redo, <<s, t>>)
      BY
      DEF LockPrepare, FlushPrepare, Rollback, CommitInMemory, FlushCommit, RecoverTrx,
          Kinds
  <2> QED
      BY <2>1, <2>2, <2>3
<1>4. /\ CommittedDisk' = CommittedDisk \/ CommittedDisk' = CommittedRec'
      /\ CommittedDisk \subseteq CommittedRec
  <2>1. CASE flushed' = Len(redo')
      BY <2>1, FlushFacts DEF DiskIsAll, Inv, RecInv
  <2>2. CASE flushed' = flushed /\ \E s \in Kinds : redo' = Append(redo, <<s, t>>)
      BY <2>2, AppendRec DEF Inv, RecInv, CommittedDisk, Kinds
  <2> QED
      BY <2>1, <2>2
      DEF LockPrepare, FlushPrepare, Rollback, CommitInMemory, FlushCommit, RecoverTrx, Kinds
<1>5. \A u \in CommittedRec' \ CommittedRec : u \in InLast \/ pc[u] \in {"commit", "alone"}
  <2>1. CASE redo' = redo
      BY <2>1 DEF CommittedRec, Rec
  <2>2. ASSUME NEW s \in Kinds, redo' = Append(redo, <<s, t>>)
        PROVE  CommittedRec' = IF s = "committed" THEN CommittedRec \union {t} ELSE CommittedRec
      BY <2>2, AppendRec DEF Inv, CommittedRec, Kinds
  <2>3. CASE LockPrepare(t) \/ Rollback(t)
      BY <2>2, <2>3 DEF LockPrepare, Rollback, Kinds
  <2>4. CASE CommitInMemory(t)
      BY <2>2, <2>4 DEF CommitInMemory, Kinds
  <2>5. CASE RecoverTrx(t)
      BY <2>5, RecoverFacts
  <2> QED
      BY <2>1, <2>3, <2>4, <2>5 DEF FlushPrepare, FlushCommit
<1>6. ASSUME NEW u \in Trx, u \notin Decided \union InLast, pc[u] \in {"answer", "done"}
      PROVE  u \notin CommittedDisk'
    BY <1>4, <1>5, <1>6, EndedFacts DEF Decided
<1> QED
    BY <1>1, <1>2, <1>3, <1>4, <1>6 DEF Settled, Decided, LogsStay

\* The steps that write the binary log.
LEMMA BinlogSettled ==
    ASSUME sync_binlog_period = 1, Inv, Inv', NEW t \in Threads,
           \/ t \in Trx /\ (WriteXid(t) \/ SyncLog(t))
           \/ CloseLog(t) \/ KeepLog(t) \/ OpenLog(t) \/ OpenFails(t) \/ NotOpened(t)
           \/ FinishStart
    PROVE  Settled
<1> USE DEF Inv
<1>1. RedoStays
    BY StayFacts
    DEF WriteXid, SyncLog, CloseLog, KeepLog, OpenLog, OpenFails, NotOpened, FinishStart, engine
<1>2. \A u \in Trx : pc[u] \in {"answer", "done"} => pc'[u] \in {"answer", "done"}
    BY Names
    DEF TypeOK, WriteXid, SyncLog, CloseLog, KeepLog, OpenLog, OpenFails, NotOpened,
        FinishStart, At, Goto, AfterRotate, Threads
<1>3. /\ sync_failed \subseteq sync_failed'
      /\ \A u \in Trx : u \in sync_failed' \ sync_failed => pc[u] = "sync"
    BY DEF WriteXid, SyncLog, CloseLog, KeepLog, OpenLog, OpenFails, NotOpened, FinishStart, At
<1>4. /\ Decided \subseteq Decided'
      /\ \A u \in Trx : u \in Earlier' \union InLast' =>
                          u \in Earlier \union InLast \/ pc[u] = "log"
  <2>1. CASE logs' = logs /\ synced' = synced
      BY <1>1, <2>1, StayFacts DEF LogsStay, RedoStays, Decided
  <2>2. CASE t \in Trx /\ WriteXid(t) /\ logs' # logs
    <3>1. Earlier' = Earlier /\ InLast' = InLast \union {t} /\ InLastDisk' = InLastDisk
        BY <2>2, WriteFacts DEF WriteXid
    <3> QED
        BY <1>1, <2>2, <3>1 DEF Decided, RedoStays, WriteXid, At
  <2>3. CASE t \in Trx /\ SyncLog(t) /\ synced' = Len(LastLog.xids)
    <3>1. Earlier' = Earlier /\ InLast' = InLast /\ InLastDisk' = InLast
        BY <2>3, SyncFacts DEF SyncLog
    <3> QED
        BY <1>1, <3>1, LastFacts DEF Decided, RedoStays
  <2>4. CASE CloseLog(t)
    <3>1. Earlier' = Earlier /\ InLast' = InLast /\ InLastDisk' = InLast
        BY <2>4, CloseFacts DEF CloseLog
    <3> QED
        BY <1>1, <3>1, LastFacts DEF Decided, RedoStays
  <2>5. CASE logs' = Append(logs, EmptyLog) /\ synced' = 0
    <3>1. Earlier' = Earlier \union InLast /\ InLast' = {}
        BY <2>5, NewFileFacts
    <3> QED
        BY <1>1, <3>1, LastFacts DEF Decided, RedoStays
  <2>6. ASSUME WriteXid(t) PROVE logs' # logs \/ (logs' = logs /\ synced' = synced)
      BY <2>6 DEF WriteXid
  <2>7. ASSUME SyncLog(t)
        PROVE  synced' = Len(LastLog.xids) \/ (logs' = logs /\ synced' = synced)
      BY <2>7 DEF SyncLog
  <2> QED
      BY <2>1, <2>2, <2>3, <2>4, <2>5, <2>6, <2>7
      DEF KeepLog, OpenLog, OpenFails, NotOpened, FinishStart, binlog
<1>5. InLastDisk' \subseteq InLast'
    BY DEF LogInv
<1> QED
    BY <1>1, <1>2, <1>3, <1>4, <1>5 DEF Settled, RedoStays, Decided

\* A crash takes no outcome back: who is in the committed state only in
\* memory is in the binary log on disk, and has not failed to be synced.
LEMMA CrashSettled == ASSUME Inv, Die PROVE Settled
<1> USE DEF Inv
<1>1. /\ CommittedDisk \subseteq CommittedRec' /\ AbortedDisk \subseteq AbortedRec'
      /\ CommittedRec' \subseteq CommittedRec /\ CommittedDisk' = CommittedRec'
  <2>1. PICK n \in flushed..Len(redo) : redo' = SubSeq(redo, 1, n) /\ flushed' = n
      BY DEF Die
  <2>2. /\ DiskIsAll'
        /\ \A k \in Kinds : Rec(k)' \subseteq Rec(k) /\ RecDisk(k) \subseteq Rec(k)'
      BY <2>1, CutRec
  <2> QED
      BY <2>2 DEF DiskIsAll, CommittedRec, AbortedRec, CommittedDisk, AbortedDisk, Kinds
<1>2. /\ Earlier' = Earlier /\ InLast' \subseteq InLast /\ InLastDisk \subseteq InLast'
      /\ InLastDisk' = InLast'
  <2>1. PICK n \in synced..Len(LastLog.xids) :
            logs' = [logs EXCEPT ![Len(logs)].xids = SubSeq(@, 1, n)] /\ synced' = n
      BY DEF Die
  <2> QED
      BY <2>1, CutFacts
<1>3. /\ sync_failed' = sync_failed
      /\ \A u \in Trx : pc'[u] = IF pc[u] = "idle" THEN "idle" ELSE "done"
    BY Names DEF Die
<1>4. ASSUME NEW u \in Trx, u \in sync_failed, u \in CommittedRec PROVE u \in CommittedDisk
  <2>1. u \notin AbortedRec
      BY <1>4, StateFacts
  <2>2. CASE mode # "up"
      BY <1>4, <2>2 DEF RecInv
  <2>3. CASE mode = "up"
    <3>1. pc[u] \notin {"commit_flush", "alone_flush"}
        BY <1>4 DEF LogInv
    <3>2. pc[u] \notin OpenPcs \union {"idle", "prepare", "alone"}
        BY <1>4 DEF RecInv, InDoubt
    <3>3. pc[u] \in Pcs
        BY Names DEF TypeOK
    <3> QED
        BY <1>4, <2>1, <2>3, <3>1, <3>2, <3>3 DEF Pcs, RecInv
  <2> QED
      BY <2>2, <2>3
<1>5. AbortedDisk = AbortedRec
    BY DEF RecInv
<1>6. ASSUME NEW u \in Trx, u \notin Decided, pc[u] \in {"answer", "done"}
      PROVE  u \notin CommittedDisk'
    BY <1>1, <1>6, EndedFacts DEF Decided
<1> QED
    BY <1>1, <1>2, <1>3, <1>4, <1>5, <1>6 DEF Settled, Decided

\* No step changes what is decided.
LEMMA NextSettled == ASSUME sync_binlog_period = 1, Inv, Inv', [Next]_vars PROVE Settled
<1>1. ASSUME NEW t \in Trx, Begin(t) \/ CommitStep(t) PROVE Settled
    BY <1>1, QuietSettled, EngineSettled, BinlogSettled, Names DEF CommitStep
<1>2. ASSUME NEW t \in Threads, NewFile(t) PROVE Settled
    BY <1>2, BinlogSettled, CrashSettled DEF NewFile, RotateNameless
<1>3. CASE Crash
    BY <1>3, CrashSettled DEF Crash
<1>4. ASSUME NEW t \in Trx, RecoverTrx(t) PROVE Settled
    BY <1>4, EngineSettled
<1>5. CASE FinishStart
    BY <1>5, BinlogSettled, Names
<1>6. CASE Trx # {} /\ (ForceRotate \/ ReadLastLog \/ UNCHANGED vars)
    BY <1>6, QuietSettled
<1>7. CASE Trx = {}
    BY <1>7 DEF Settled
<1> QED
    BY <1>1, <1>2, <1>3, <1>4, <1>5, <1>6, <1>7 DEF Next, Recovery

\* A decided transaction keeps its outcome.
LEMMA OutcomeStays ==
    ASSUME Inv, Inv', Settled, NEW t \in Trx
    PROVE  /\ Outcome(t) # "none" => Outcome(t)' = Outcome(t)
           /\ Outcome(t)' \in {"none", "committed", "aborted"}
<1>1. InLastDisk' \subseteq InLast'
    BY DEF Inv, LogInv
<1>2. ~(t \in CommittedRec' /\ t \in AbortedRec')
  <2> SUFFICES ASSUME NEW i \in 1..Len(redo'), NEW j \in 1..Len(redo'),
                      redo'[i] = <<"committed", t>>, redo'[j] = <<"aborted", t>>
               PROVE  FALSE
      BY DEF CommittedRec, AbortedRec, Rec
  <2>1. i < j \/ j < i \/ i = j
      OBVIOUS
  <2> QED
      BY <2>1 DEF Inv, OrderInv
<1>3. pc[t] = "sync" => t \notin Decided
    BY DEF Inv, LogInv, RecInv, Decided, InDoubt, OpenPcs
<1> QED
    BY <1>1, <1>2, <1>3 DEF Settled, Outcome, Decided

\* The commit is crash-safe: outcomes are decided once, and answers tell them.
THEOREM CommitRefinement == ASSUME sync_binlog_period = 1 PROVE Spec => ImplementsTrxOutcome
<1>1. Init => Abstract!Init
  <2> SUFFICES ASSUME Init PROVE Abstract!Init
      OBVIOUS
  <2>1. Inv /\ outcome = [t \in Trx |-> Outcome(t)]
      BY InitInv, OutcomeFacts
  <2>2. \A t \in Trx : pc[t] = "idle" /\ t \notin sync_failed
      BY Names DEF Init
  <2>3. \A t \in Trx : t \notin Decided
      BY <2>1, <2>2 DEF Inv, LogInv, RecInv, Decided
  <2>4. \A t \in Trx : Outcome(t) = "none"
      BY <2>2, <2>3 DEF Outcome
  <2> QED
      BY <2>1, <2>4 DEF Init, Abstract!Init
<1>a. (Inv => outcome = [t \in Trx |-> Outcome(t)])'
    BY OutcomeFacts, PTL
<1>2. Inv /\ Inv' /\ [Next]_vars => [Abstract!Next]_<<outcome, reply>>
  <2> SUFFICES ASSUME Inv, Inv', [Next]_vars PROVE [Abstract!Next]_<<outcome, reply>>
      OBVIOUS
  <2>1. outcome = [t \in Trx |-> Outcome(t)] /\ outcome' = [t \in Trx |-> Outcome(t)']
      BY <1>a, OutcomeFacts
  <2>2. Settled
      BY NextSettled
  <2>3. CASE reply' = reply
    <3>1. \A t \in Trx : /\ Outcome(t) # "none" => Outcome(t)' = Outcome(t)
                         /\ Outcome(t)' \in {"none", "committed", "aborted"}
        BY <2>2, OutcomeStays
    <3>2. outcome' \in [Trx -> {"none", "committed", "aborted"}]
        BY <2>1, <3>1
    <3>3. outcome' = [t \in Trx |-> IF outcome[t] = "none" THEN outcome'[t] ELSE outcome[t]]
        BY <2>1, <3>1
    <3> QED
        BY <2>3, <3>2, <3>3 DEF Abstract!Next, Abstract!Decide
  <2>4. ASSUME NEW t \in Trx, AnswerClient(t) PROVE Abstract!Answer(t)
    <3>1. pc[t] = "answer" /\ pc' = [pc EXCEPT ![t] = "done"] /\ sync_failed' = sync_failed
        BY <2>4 DEF AnswerClient, At, Goto
    <3>2. RedoStays /\ LogsStay
        BY <2>4, StayFacts DEF AnswerClient, engine, binlog
    <3>3. \A u \in Trx : Outcome(u)' = Outcome(u)
        BY <3>1, <3>2, Names DEF Outcome, Decided, RedoStays, LogsStay, Inv, TypeOK
    <3>4. t \in CommittedRec \union AbortedRec
        BY <3>1 DEF Inv, RecInv
    <3>5. Outcome(t) = State(t)
      <4>1. /\ State(t) = "committed" <=> t \in CommittedRec
            /\ State(t) = "aborted" <=> t \in AbortedRec
          BY StateFacts DEF Inv
      <4>2. t \in CommittedRec => t \in Decided
          BY <3>1, <4>1 DEF Inv, RecInv, Decided
      <4>3. t \in AbortedRec => t \notin CommittedDisk
          BY <4>1 DEF Inv, RecInv
      <4>4. t \in AbortedRec /\ t \notin sync_failed => t \notin Decided \union InLast
          BY <2>4, <3>1, <4>1, <4>3, LastFacts DEF AnswerClient, At, Inv, LogInv, Decided
      <4> QED
          BY <3>1, <3>4, <4>1, <4>2, <4>3, <4>4 DEF Outcome
    <3>6. reply[t] = "none" /\ reply' = [reply EXCEPT ![t] = State(t)] /\ State(t) # "none"
        BY <2>4, <3>1, StateFacts DEF Inv, ReplyInv, AnswerClient
    <3>7. outcome' = outcome
        BY <2>1, <3>3
    <3>8. outcome[t] = State(t)
        BY <2>1, <3>5
    <3> QED
        BY <3>6, <3>7, <3>8 DEF Abstract!Answer
  <2>5. reply' = reply \/ \E t \in Trx : AnswerClient(t)
      BY
      DEF Next, CommitStep, NewFile, Recovery, Begin, LockPrepare, FlushPrepare, WriteXid,
          SyncLog, CountXid, Rollback, CommitInMemory, FlushCommit, Unlog, Rotate,
          ForceRotate, CloseLog, KeepLog, RotateNameless, OpenLog, OpenFails, NotOpened,
          Die, Crash, ReadLastLog, RecoverTrx, FinishStart, vars
  <2> QED
      BY <2>3, <2>4, <2>5 DEF Abstract!Next
<1> QED
    BY <1>1, <1>2, Invariance, PTL DEF Spec, ImplementsTrxOutcome, Abstract!Spec

---------------------------------------------------------------------------
(* The order of commits.  On top of Inv:                                   *)
(*   MutexInv  who is between prepare and the end of commit has            *)
(*             prepare_commit_mutex;                                       *)
(*   TailInv   a logged transaction without an end on disk is the last one *)
(*             of the binary log, and none is there twice;                 *)
(*   PairInv   the property, in terms of the sets above.                   *)

MutexInv == \A t \in Trx : pc[t] \in OpenPcs \union {"commit_flush"} => prepare_commit_mutex = t

TailInv ==
    \A t, u \in Trx :
        LoggedBefore(t, u) => t # u /\ t \in CommittedDisk \union AbortedDisk

PairInv ==
    \A t, u \in Trx :
        LoggedBefore(t, u) /\ u \in CommittedRec /\ (t \notin sync_failed \/ t \in CommittedRec)
            => CommittedBefore(t, u)

CommitOrder == MutexInv /\ TailInv /\ PairInv


\* A step that only takes from the binary log leaves the order of the rest.
LEMMA BeforeSub ==
    ASSUME \A i \in DOMAIN logs' : \A x \in DOMAIN logs'[i].xids :
               /\ i \in DOMAIN logs /\ x \in DOMAIN logs[i].xids
               /\ logs'[i].xids[x] = logs[i].xids[x]
    PROVE  \A t, u \in Trx : LoggedBefore(t, u)' => LoggedBefore(t, u)
<1> SUFFICES ASSUME NEW t \in Trx, NEW u \in Trx, LoggedBefore(t, u)' PROVE LoggedBefore(t, u)
    OBVIOUS
<1>1. PICK a \in DOMAIN logs', b \in DOMAIN logs' :
        \E x \in DOMAIN logs'[a].xids, y \in DOMAIN logs'[b].xids :
            /\ a < b \/ (a = b /\ x < y)
            /\ logs'[a].xids[x] = t /\ logs'[b].xids[y] = u
    BY Zenon DEF LoggedBefore
<1>2. PICK x \in DOMAIN logs'[a].xids, y \in DOMAIN logs'[b].xids :
            /\ a < b \/ (a = b /\ x < y)
            /\ logs'[a].xids[x] = t /\ logs'[b].xids[y] = u
    BY <1>1, Zenon
<1>3. /\ a \in DOMAIN logs /\ x \in DOMAIN logs[a].xids /\ logs[a].xids[x] = t
      /\ b \in DOMAIN logs /\ y \in DOMAIN logs[b].xids /\ logs[b].xids[y] = u
    BY <1>2, Zenon
<1> QED
    BY <1>2, <1>3, Zenon DEF LoggedBefore

\* Steps that leave the binary log alone, close its last file, cut it or begin a new one.
LEMMA BeforeStays ==
    ASSUME TypeOK,
           \/ logs' = logs
           \/ logs' = [logs EXCEPT ![Len(logs)].in_use = FALSE]
           \/ logs' = Append(logs, EmptyLog)
           \/ \E n \in synced..Len(LastLog.xids) :
                 logs' = [logs EXCEPT ![Len(logs)].xids = SubSeq(@, 1, n)]
    PROVE  \A t, u \in Trx : LoggedBefore(t, u)' => LoggedBefore(t, u)
<1>1. /\ logs \in Seq(LogType) /\ Len(logs) \in Nat /\ Len(logs) > 0
      /\ LastLog.xids \in Seq(Trx) /\ synced \in Nat /\ Len(LastLog.xids) \in Nat
    BY LastFacts
<1>a. DOMAIN logs = 1..Len(logs) /\ Len(logs) \in DOMAIN logs
    BY <1>1
<1>b. \A i \in DOMAIN logs : logs[i] \in LogType
    BY <1>1
<1>c. LastLog = logs[Len(logs)]
    BY DEF LastLog
<1>2. CASE logs' = logs
    BY <1>2, BeforeSub
<1>3. CASE logs' = [logs EXCEPT ![Len(logs)].in_use = FALSE]
  <2>1. /\ DOMAIN logs' = DOMAIN logs
        /\ \A i \in DOMAIN logs : logs'[i].xids = logs[i].xids
    <3>1. PICK u : u = [logs[Len(logs)] EXCEPT !.in_use = FALSE]
        OBVIOUS
    <3>2. logs' = [logs EXCEPT ![Len(logs)] = u]
        BY <1>3, <3>1
    <3>3. u.xids = logs[Len(logs)].xids
        BY <1>a, <1>b, <3>1 DEF LogType
    <3>4. /\ DOMAIN logs' = DOMAIN logs /\ logs'[Len(logs)] = u
          /\ \A i \in DOMAIN logs : i # Len(logs) => logs'[i] = logs[i]
        BY <1>a, <3>2, Zenon
    <3> QED
        BY <3>3, <3>4, Zenon
  <2> QED
      BY <2>1, BeforeSub
<1>4. CASE logs' = Append(logs, EmptyLog)
  <2>1. /\ DOMAIN logs' = 1..(Len(logs) + 1)
        /\ \A i \in 1..Len(logs) : logs'[i] = logs[i]
        /\ logs'[Len(logs) + 1].xids = <<>>
      BY <1>1, <1>4 DEF EmptyLog
  <2>2. \A i \in DOMAIN logs' : i \in 1..Len(logs) \/ i = Len(logs) + 1
    <3>1. Len(logs) \in Nat /\ DOMAIN logs' = 1..(Len(logs) + 1)
        BY <1>1, <2>1, Zenon
    <3> QED
        BY <3>1
  <2>3. DOMAIN logs'[Len(logs) + 1].xids = {}
      BY <2>1
  <2>4. \A i \in DOMAIN logs' : \A x \in DOMAIN logs'[i].xids : i \in DOMAIN logs /\ logs'[i] = logs[i]
      BY <1>a, <2>1, <2>2, <2>3, Zenon
  <2> QED
      BY <2>4, BeforeSub
<1>5. ASSUME NEW n \in synced..Len(LastLog.xids),
             logs' = [logs EXCEPT ![Len(logs)].xids = SubSeq(@, 1, n)]
      PROVE  \A t, u \in Trx : LoggedBefore(t, u)' => LoggedBefore(t, u)
  <2>1. /\ DOMAIN logs' = DOMAIN logs
        /\ \A i \in DOMAIN logs : i # Len(logs) => logs'[i] = logs[i]
        /\ logs'[Len(logs)].xids = SubSeq(LastLog.xids, 1, n)
    <3>1. PICK u : u = [LastLog EXCEPT !.xids = SubSeq(LastLog.xids, 1, n)]
        OBVIOUS
    <3>2. logs' = [logs EXCEPT ![Len(logs)] = u]
        BY <1>5, <3>1 DEF LastLog
    <3>3. u.xids = SubSeq(LastLog.xids, 1, n)
        BY <3>1, LastFacts DEF LogType
    <3>4. /\ DOMAIN logs' = DOMAIN logs /\ logs'[Len(logs)] = u
          /\ \A i \in DOMAIN logs : i # Len(logs) => logs'[i] = logs[i]
        BY <1>a, <3>2, Zenon
    <3> QED
        BY <3>3, <3>4, Zenon
  <2>2. n \in Nat /\ n <= Len(LastLog.xids)
      BY <1>1
  <2>3. \A x \in DOMAIN SubSeq(LastLog.xids, 1, n) :
            x \in DOMAIN LastLog.xids /\ SubSeq(LastLog.xids, 1, n)[x] = LastLog.xids[x]
      BY <1>1, <2>2
  <2>4. \A i \in DOMAIN logs' : \A x \in DOMAIN logs'[i].xids :
               /\ i \in DOMAIN logs /\ x \in DOMAIN logs[i].xids
               /\ logs'[i].xids[x] = logs[i].xids[x]
    <3> TAKE i \in DOMAIN logs'
    <3>1. CASE i = Len(logs)
      <4>1. logs'[i].xids = SubSeq(LastLog.xids, 1, n) /\ logs[i].xids = LastLog.xids
          BY <1>c, <2>1, <3>1, Zenon
      <4> QED
          BY <2>1, <2>3, <4>1
    <3>2. CASE i # Len(logs)
        BY <2>1, <3>2
    <3> QED
        BY <3>1, <3>2
  <2> QED
      BY <2>4, BeforeSub
<1> QED
    BY <1>2, <1>3, <1>4, <1>5

\* WriteXid puts a transaction behind all that are in the binary log.
LEMMA BeforeWrite ==
    ASSUME TypeOK, NEW t \in Trx, logs' = [logs EXCEPT ![Len(logs)].xids = Append(@, t)]
    PROVE  \A s, u \in Trx : LoggedBefore(s, u)' =>
               LoggedBefore(s, u) \/ (u = t /\ s \in Earlier \union InLast)
<1> DEFINE L == Len(logs)
<1> DEFINE N == Len(LastLog.xids)
<1>1. /\ L \in Nat /\ L > 0 /\ N \in Nat /\ LastLog = logs[L] /\ DOMAIN logs = 1..L
      /\ LastLog.xids \in Seq(Trx) /\ DOMAIN LastLog.xids = 1..N
      /\ \A i \in 1..L : logs[i] \in LogType
  <2>1. /\ logs \in Seq(LogType) /\ L \in Nat /\ L > 0 /\ N \in Nat
        /\ LastLog.xids \in Seq(Trx) /\ DOMAIN LastLog.xids = 1..N
      BY LastFacts
  <2> QED
      BY <2>1 DEF LastLog
<1>2. /\ DOMAIN logs' = 1..L
      /\ \A i \in 1..L : i # L => logs'[i] = logs[i]
      /\ logs'[L].xids = Append(LastLog.xids, t)
    BY <1>1 DEF LogType
<1>3. /\ DOMAIN logs'[L].xids = 1..(N + 1) /\ logs'[L].xids[N + 1] = t
      /\ \A x \in 1..N : logs'[L].xids[x] = LastLog.xids[x]
    BY <1>1, <1>2
<1>4. Logged = Earlier \union InLast
    BY LastFacts
<1> SUFFICES ASSUME NEW s \in Trx, NEW u \in Trx, LoggedBefore(s, u)'
             PROVE  LoggedBefore(s, u) \/ (u = t /\ s \in Logged)
    BY <1>4
<1>5. PICK a \in DOMAIN logs', b \in DOMAIN logs' :
        \E x \in DOMAIN logs'[a].xids, y \in DOMAIN logs'[b].xids :
            /\ a < b \/ (a = b /\ x < y)
            /\ logs'[a].xids[x] = s /\ logs'[b].xids[y] = u
    BY Zenon DEF LoggedBefore
<1>6. PICK x \in DOMAIN logs'[a].xids, y \in DOMAIN logs'[b].xids :
            /\ a < b \/ (a = b /\ x < y)
            /\ logs'[a].xids[x] = s /\ logs'[b].xids[y] = u
    BY <1>5, Zenon
<1>7. a \in 1..L /\ b \in 1..L
    BY <1>2
<1>8. /\ a \in DOMAIN logs /\ x \in DOMAIN logs[a].xids /\ logs[a].xids[x] = s
  <2>1. CASE a # L
      BY <1>1, <1>2, <1>6, <1>7, <2>1
  <2>2. CASE a = L
    <3>1. b = L
        BY <1>1, <1>6, <1>7, <2>2
    <3>2. x \in 1..(N + 1) /\ y \in 1..(N + 1)
        BY <1>3, <2>2, <3>1
    <3>3. x < y
        BY <1>1, <1>6, <2>2, <3>1
    <3>4. x \in 1..N
        BY <1>1, <3>2, <3>3
    <3> QED
        BY <1>1, <1>3, <1>6, <2>2, <3>4
  <2> QED
      BY <2>1, <2>2
<1>9. CASE b = L /\ y = N + 1
  <2>1. u = t
      BY <1>3, <1>6, <1>9
  <2>2. s \in RealLog(logs[a])
      BY <1>8, Zenon DEF RealLog
  <2>3. s \in Logged
      BY <1>8, <2>2, Zenon DEF Logged
  <2> QED
      BY <2>1, <2>3
<1>10. CASE ~(b = L /\ y = N + 1)
  <2>1. b \in DOMAIN logs /\ y \in DOMAIN logs[b].xids /\ logs[b].xids[y] = u
    <3>1. CASE b # L
        BY <1>1, <1>2, <1>6, <1>7, <3>1
    <3>2. CASE b = L
      <4>1. y \in 1..(N + 1)
          BY <1>3, <3>2
      <4>2. y \in 1..N
          BY <1>1, <1>10, <3>2, <4>1
      <4> QED
          BY <1>1, <1>3, <1>6, <3>2, <4>2
    <3> QED
        BY <3>1, <3>2
  <2>2. LoggedBefore(s, u)
      BY <1>6, <1>8, <2>1 DEF LoggedBefore
  <2> QED
      BY <2>2
<1> QED
    BY <1>9, <1>10

\* InnoDB's log grows at its end.
LEMMA RedoGrows ==
    ASSUME TypeOK, NEW t \in Trx, NEW s \in Kinds, redo' = Append(redo, <<s, t>>)
    PROVE  /\ \A v, w \in Trx : CommittedBefore(v, w) => CommittedBefore(v, w)'
           /\ s = "committed" => \A v \in CommittedRec : CommittedBefore(v, t)'
<1>1. redo \in Seq(Kinds \X Trx) /\ <<s, t>> \in Kinds \X Trx /\ Len(redo) \in Nat
    BY DEF TypeOK, Kinds
<1>2. /\ DOMAIN redo = 1..Len(redo) /\ DOMAIN redo' = 1..(Len(redo) + 1)
      /\ \A i \in 1..Len(redo) : redo'[i] = redo[i]
      /\ redo'[Len(redo) + 1] = <<s, t>>
    BY <1>1
<1>3. DOMAIN redo \subseteq DOMAIN redo' /\ Len(redo) + 1 \in DOMAIN redo'
    BY <1>1, <1>2
<1>4. ASSUME NEW v \in Trx, NEW w \in Trx, CommittedBefore(v, w) PROVE CommittedBefore(v, w)'
    BY <1>2, <1>3, <1>4 DEF CommittedBefore
<1>5. ASSUME s = "committed", NEW v \in CommittedRec PROVE CommittedBefore(v, t)'
  <2>1. PICK i \in 1..Len(redo) : redo[i] = <<"committed", v>>
      BY DEF CommittedRec, Rec
  <2>2. i < Len(redo) + 1
      BY <1>1
  <2>3. i \in DOMAIN redo' /\ redo'[i] = <<"committed", v>>
      BY <1>2, <1>3, <2>1
  <2> QED
      BY <1>2, <1>3, <1>5, <2>2, <2>3 DEF CommittedBefore
<1> QED
    BY <1>4, <1>5

\* A crash that leaves the commit of w leaves those before it.
LEMMA RedoCut ==
    ASSUME TypeOK, OrderInv, NEW n \in flushed..Len(redo), redo' = SubSeq(redo, 1, n),
           NEW v \in Trx, NEW w \in Trx, CommittedBefore(v, w), w \in CommittedRec'
    PROVE  CommittedBefore(v, w)'
<1>1. redo \in Seq(Kinds \X Trx) /\ Len(redo) \in Nat /\ flushed \in 0..Len(redo) /\ n \in Nat
      /\ n <= Len(redo)
    BY DEF TypeOK, Kinds
<1>2. /\ DOMAIN redo = 1..Len(redo) /\ DOMAIN redo' = 1..n /\ Len(redo') = n
      /\ \A i \in 1..n : redo'[i] = redo[i]
    BY <1>1
<1>3. PICK i \in DOMAIN redo, j \in DOMAIN redo :
          i < j /\ redo[i] = <<"committed", v>> /\ redo[j] = <<"committed", w>>
    BY Zenon DEF CommittedBefore
<1>4. PICK k \in 1..n : redo'[k] = <<"committed", w>>
    BY <1>2 DEF CommittedRec, Rec
<1>5. k \in 1..Len(redo) /\ redo[k] = <<"committed", w>> /\ i \in 1..Len(redo) /\ j \in 1..Len(redo)
    BY <1>1, <1>2, <1>4
<1>6. j = k
  <2>1. ~(j < k) /\ ~(k < j)
      BY <1>3, <1>5 DEF OrderInv
  <2> QED
      BY <1>1, <1>5, <2>1
<1>7. i \in 1..n /\ j \in 1..n
    BY <1>1, <1>3, <1>5, <1>6
<1> QED
    BY <1>2, <1>3, <1>7 DEF CommittedBefore

\* The mutex of innobase_xa_prepare is held until the commit is on disk.
LEMMA MutexStep == ASSUME TypeOK, MutexInv, [Next]_vars PROVE MutexInv'
<1> USE Names DEF TypeOK, MutexInv, OpenPcs, At, Goto
<1>1. ASSUME NEW t \in Trx, Begin(t) PROVE MutexInv'
    BY <1>1 DEF Begin, locks
<1>2. ASSUME NEW t \in Trx, LockPrepare(t) PROVE MutexInv'
    BY <1>2 DEF LockPrepare
<1>3. ASSUME NEW t \in Trx, FlushPrepare(t) PROVE MutexInv'
    BY <1>3 DEF FlushPrepare, locks
<1>4. ASSUME NEW t \in Trx, WriteXid(t) PROVE MutexInv'
    BY <1>4 DEF WriteXid
<1>5. ASSUME NEW t \in Trx, SyncLog(t) PROVE MutexInv'
    BY <1>5 DEF SyncLog
<1>6. ASSUME NEW t \in Trx, CountXid(t) PROVE MutexInv'
    BY <1>6 DEF CountXid
<1>7. ASSUME NEW t \in Trx, Rollback(t) PROVE MutexInv'
    BY <1>7 DEF Rollback, locks
<1>8. ASSUME NEW t \in Trx, CommitInMemory(t) PROVE MutexInv'
    BY <1>8 DEF CommitInMemory, locks
<1>9. ASSUME NEW t \in Trx, FlushCommit(t) PROVE MutexInv'
    BY <1>9 DEF FlushCommit, ReleaseMutex
<1>10. ASSUME NEW t \in Trx, Unlog(t) \/ Rotate(t) \/ AnswerClient(t) PROVE MutexInv'
    BY <1>10 DEF Unlog, Rotate, AnswerClient, locks
<1>a. ASSUME Die PROVE MutexInv'
    BY <1>a DEF Die, Threads
<1>11. ASSUME NEW t \in Threads, NewFile(t) PROVE MutexInv'
    BY <1>11, <1>a
    DEF NewFile, CloseLog, KeepLog, RotateNameless, OpenLog, OpenFails, NotOpened, AfterRotate,
        locks
<1>12. CASE ForceRotate
    BY <1>12 DEF ForceRotate
<1>13. CASE Crash
    BY <1>13, <1>a DEF Crash
<1>14. CASE Recovery
    BY <1>14 DEF Recovery, ReadLastLog, RecoverTrx, FinishStart, locks
<1>15. CASE UNCHANGED vars
    BY <1>15 DEF vars, locks
<1> QED
    BY <1>1, <1>2, <1>3, <1>4, <1>5, <1>6, <1>7, <1>8, <1>9, <1>10, <1>11, <1>12, <1>13,
       <1>14, <1>15
    DEF Next, CommitStep

\* A step that adds neither to the binary log nor to the commits keeps their order.
Keeps ==
    /\ \A t, u \in Trx : LoggedBefore(t, u)' => LoggedBefore(t, u)
    /\ CommittedDisk \subseteq CommittedDisk' /\ AbortedDisk \subseteq AbortedDisk'
    /\ CommittedRec' \subseteq CommittedRec
    /\ sync_failed \subseteq sync_failed'
    /\ \A t, u \in Trx : u \in CommittedRec' /\ CommittedBefore(t, u) => CommittedBefore(t, u)'

\* Such a step preserves the two parts of the invariant that speak of the logs.
LEMMA KeptOrder == ASSUME TailInv, PairInv, Keeps PROVE TailInv' /\ PairInv'
<1>1. TailInv'
    BY DEF TailInv, Keeps
<1>2. PairInv'
  <2> SUFFICES ASSUME NEW t \in Trx, NEW u \in Trx, LoggedBefore(t, u)', u \in CommittedRec',
                      t \notin sync_failed' \/ t \in CommittedRec'
               PROVE  CommittedBefore(t, u)'
      BY DEF PairInv
  <2>1. LoggedBefore(t, u) /\ u \in CommittedRec /\ (t \notin sync_failed \/ t \in CommittedRec)
      BY DEF Keeps
  <2>2. CommittedBefore(t, u)
      BY <2>1 DEF PairInv
  <2> QED
      BY <2>2 DEF Keeps
<1> QED
    BY <1>1, <1>2

\* Steps that leave InnoDB's log alone and write no xid.
LEMMA QuietKeeps ==
    ASSUME TypeOK, UNCHANGED engine, sync_failed \subseteq sync_failed',
           \/ logs' = logs
           \/ logs' = [logs EXCEPT ![Len(logs)].in_use = FALSE]
           \/ logs' = Append(logs, EmptyLog)
    PROVE  Keeps
<1>1. \A t, u \in Trx : LoggedBefore(t, u)' => LoggedBefore(t, u)
    BY BeforeStays
<1>2. RedoStays
    BY StayFacts
<1>3. \A t, u \in Trx : CommittedBefore(t, u) => CommittedBefore(t, u)'
    BY DEF CommittedBefore, engine
<1> QED
    BY <1>1, <1>2, <1>3 DEF Keeps, RedoStays

\* Steps of InnoDB that do not commit.
LEMMA EngineKeeps ==
    ASSUME Inv, NEW t \in Trx,
           \/ LockPrepare(t) \/ FlushPrepare(t) \/ Rollback(t) \/ FlushCommit(t)
           \/ RecoverTrx(t) /\ ~(t \in InLast /\ InUse)
    PROVE  Keeps
<1>1. sync_failed' = sync_failed /\ logs' = logs
    BY DEF LockPrepare, FlushPrepare, Rollback, FlushCommit, RecoverTrx, binlog
<1>2. \A v, u \in Trx : LoggedBefore(v, u)' => LoggedBefore(v, u)
    BY <1>1, BeforeStays DEF Inv
<1>3. CommittedDisk \subseteq CommittedRec /\ AbortedDisk = AbortedRec
    BY DEF Inv, RecInv
<1>4. CASE FlushPrepare(t) \/ FlushCommit(t)
  <2>1. redo' = redo /\ DiskIsAll'
      BY <1>4, FlushFacts DEF FlushPrepare, FlushCommit
  <2>2. CommittedRec' = CommittedRec /\ AbortedRec' = AbortedRec
      BY <2>1 DEF CommittedRec, AbortedRec, Rec
  <2>3. \A v, u \in Trx : CommittedBefore(v, u) => CommittedBefore(v, u)'
      BY <2>1 DEF CommittedBefore
  <2> QED
      BY <1>1, <1>2, <1>3, <2>1, <2>2, <2>3 DEF Keeps, DiskIsAll
<1>5. CASE LockPrepare(t)
  <2>1. redo' = Append(redo, <<"prepared", t>>) /\ "prepared" \in Kinds /\ flushed' = flushed
      BY <1>5 DEF LockPrepare, Kinds
  <2>2. /\ CommittedRec' = CommittedRec /\ CommittedDisk' = CommittedDisk
        /\ AbortedDisk' = AbortedDisk
      BY <2>1, AppendRec DEF Inv, CommittedRec, CommittedDisk, AbortedDisk, Kinds
  <2>3. \A v, u \in Trx : CommittedBefore(v, u) => CommittedBefore(v, u)'
      BY <2>1, RedoGrows DEF Inv
  <2> QED
      BY <1>1, <1>2, <2>2, <2>3 DEF Keeps
<1>6. CASE Rollback(t) \/ (RecoverTrx(t) /\ ~(t \in InLast /\ InUse))
  <2>1. redo' = Append(redo, <<"aborted", t>>) /\ flushed' = Len(redo')
    <3>1. CASE Rollback(t)
        BY <3>1 DEF Rollback
    <3>2. CASE RecoverTrx(t) /\ ~(t \in InLast /\ InUse)
      <4>1. xid[t] \notin commit_list
          BY <3>2, ListFacts
      <4> QED
          BY <3>2, <4>1 DEF RecoverTrx
    <3> QED
        BY <1>6, <3>1, <3>2
  <2>2. "aborted" \in Kinds
      BY DEF Kinds
  <2>3. CommittedRec' = CommittedRec /\ AbortedRec' = AbortedRec \union {t}
      BY <2>1, <2>2, AppendRec DEF Inv, CommittedRec, AbortedRec, Kinds
  <2>4. DiskIsAll'
      BY <2>1, FlushFacts
  <2>5. \A v, u \in Trx : CommittedBefore(v, u) => CommittedBefore(v, u)'
      BY <2>1, <2>2, RedoGrows DEF Inv
  <2> QED
      BY <1>1, <1>2, <1>3, <2>3, <2>4, <2>5 DEF Keeps, DiskIsAll
<1> QED
    BY <1>4, <1>5, <1>6

\* A crash takes the ends of both logs.
LEMMA CrashKeeps == ASSUME Inv, Die PROVE Keeps
<1>1. PICK n \in flushed..Len(redo) : redo' = SubSeq(redo, 1, n) /\ flushed' = n
    BY DEF Die
<1>2. /\ DiskIsAll'
      /\ \A k \in Kinds : Rec(k)' \subseteq Rec(k) /\ RecDisk(k) \subseteq Rec(k)'
    BY <1>1, CutRec DEF Inv
<1>3. /\ CommittedRec' \subseteq CommittedRec /\ CommittedDisk \subseteq CommittedDisk'
      /\ AbortedDisk \subseteq AbortedDisk'
    BY <1>2 DEF DiskIsAll, CommittedRec, AbortedRec, CommittedDisk, AbortedDisk, Kinds
<1>4. \E m \in synced..Len(LastLog.xids) :
          logs' = [logs EXCEPT ![Len(logs)].xids = SubSeq(@, 1, m)]
    BY DEF Die
<1>5. \A t, u \in Trx : LoggedBefore(t, u)' => LoggedBefore(t, u)
    BY <1>4, BeforeStays DEF Inv
<1>6. ASSUME NEW t \in Trx, NEW u \in Trx, u \in CommittedRec', CommittedBefore(t, u)
      PROVE  CommittedBefore(t, u)'
    BY <1>1, <1>6, RedoCut DEF Inv
<1>7. sync_failed' = sync_failed
    BY DEF Die
<1> QED
    BY <1>3, <1>5, <1>6, <1>7 DEF Keeps

\* Who is logged and has no end on disk, while the server is up.
LEMMA OnlyOneOpen ==
    ASSUME Inv, MutexInv, mode = "up", NEW t \in Trx, NEW u \in Trx,
           prepare_commit_mutex = u, t # u, t \in Earlier \union InLast
    PROVE  t \in CommittedDisk \union AbortedDisk
<1>1. t \in PreparedRec
    BY DEF Inv, LogInv, RecInv
<1>2. pc[t] \notin OpenPcs \union {"commit_flush", "alone", "alone_flush"}
    BY DEF MutexInv, Inv, LogInv
<1>3. pc[t] \in Pcs
    BY Names DEF Inv, TypeOK
<1> QED
    BY <1>1, <1>2, <1>3 DEF Inv, RecInv, Pcs

\* What stands before another transaction is in the binary log, and so is the other.
LEMMA LoggedFacts ==
    ASSUME TypeOK, NEW t \in Trx, NEW u \in Trx, LoggedBefore(t, u)
    PROVE  t \in Earlier \union InLast /\ u \in Earlier \union InLast
<1>1. Logged = Earlier \union InLast
    BY LastFacts
<1>2. ASSUME NEW v \in {t, u} PROVE v \in Logged
  <2>1. PICK a \in DOMAIN logs : \E x \in DOMAIN logs[a].xids : logs[a].xids[x] = v
      BY Zenon DEF LoggedBefore
  <2>2. v \in RealLog(logs[a])
      BY <2>1, Zenon DEF RealLog
  <2> QED
      BY <2>2, Zenon DEF Logged
<1> QED
    BY <1>1, <1>2

\* WriteXid puts a transaction behind others that have ended.
LEMMA WriteOrder ==
    ASSUME Inv, CommitOrder, NEW t \in Trx, WriteXid(t) PROVE TailInv' /\ PairInv'
<1>1. RedoStays /\ sync_failed' = sync_failed /\ UNCHANGED engine
    BY StayFacts DEF WriteXid, engine
<1>2. CASE logs' = logs
    BY <1>1, <1>2, QuietKeeps, KeptOrder DEF Inv, CommitOrder
<1>3. CASE logs' = [logs EXCEPT ![Len(logs)].xids = Append(@, t)]
  <2>1. \A s, u \in Trx : LoggedBefore(s, u)' =>
            LoggedBefore(s, u) \/ (u = t /\ s \in Earlier \union InLast)
      BY <1>3, BeforeWrite DEF Inv
  <2>2. /\ mode = "up" /\ pc[t] = "log" /\ prepare_commit_mutex = t
        /\ t \notin Earlier \union InLast /\ t \notin CommittedRec
      BY DEF WriteXid, At, CommitOrder, MutexInv, OpenPcs, Inv, LogInv, RecInv, InDoubt
  <2>3. TailInv'
    <3> SUFFICES ASSUME NEW s \in Trx, NEW u \in Trx, LoggedBefore(s, u)'
                 PROVE  s # u /\ s \in CommittedDisk \union AbortedDisk
        BY <1>1 DEF TailInv, RedoStays
    <3>1. CASE LoggedBefore(s, u)
        BY <3>1 DEF CommitOrder, TailInv
    <3>2. CASE u = t /\ s \in Earlier \union InLast
        BY <2>2, <3>2, OnlyOneOpen DEF CommitOrder
    <3> QED
        BY <2>1, <3>1, <3>2
  <2>4. PairInv'
    <3> SUFFICES ASSUME NEW s \in Trx, NEW u \in Trx, LoggedBefore(s, u)', u \in CommittedRec,
                        s \notin sync_failed \/ s \in CommittedRec
                 PROVE  CommittedBefore(s, u)'
        BY <1>1 DEF PairInv, RedoStays
    <3>1. LoggedBefore(s, u)
        BY <2>1, <2>2
    <3>2. CommittedBefore(s, u)
        BY <3>1 DEF CommitOrder, PairInv
    <3> QED
        BY <1>1, <3>2 DEF CommittedBefore, engine
  <2> QED
      BY <2>3, <2>4
<1> QED
    BY <1>2, <1>3 DEF WriteXid

\* A transaction commits when those before it in the binary log have committed, and
\* there is none behind it.
LEMMA CommitOrderStep ==
    ASSUME Inv, CommitOrder, NEW t \in Trx,
           redo' = Append(redo, <<"committed", t>>), logs' = logs, sync_failed' = sync_failed,
           CommittedDisk \subseteq CommittedDisk', AbortedDisk \subseteq AbortedDisk',
           t \notin CommittedDisk \union AbortedDisk,
           \A s \in Trx : LoggedBefore(s, t) /\ s \notin sync_failed => s \in CommittedRec
    PROVE  TailInv' /\ PairInv'
<1>1. \A s, u \in Trx : LoggedBefore(s, u)' => LoggedBefore(s, u)
    BY BeforeStays DEF Inv
<1>2. TailInv'
    BY <1>1 DEF CommitOrder, TailInv
<1>3. "committed" \in Kinds
    BY DEF Kinds
<1>4. CommittedRec' = CommittedRec \union {t}
    BY <1>3, AppendRec DEF Inv, CommittedRec
<1>5. /\ \A v, w \in Trx : CommittedBefore(v, w) => CommittedBefore(v, w)'
      /\ \A v \in CommittedRec : CommittedBefore(v, t)'
    BY <1>3, RedoGrows DEF Inv
<1>6. PairInv'
  <2> SUFFICES ASSUME NEW s \in Trx, NEW u \in Trx, LoggedBefore(s, u), u \in CommittedRec',
                      s \notin sync_failed \/ s \in CommittedRec'
               PROVE  CommittedBefore(s, u)'
      BY <1>1 DEF PairInv
  <2>1. s # t /\ s # u
      BY DEF CommitOrder, TailInv
  <2>2. s \notin sync_failed \/ s \in CommittedRec
      BY <1>4, <2>1
  <2>3. CASE u = t
    <3>1. s \in CommittedRec
        BY <2>2, <2>3
    <3> QED
        BY <1>5, <2>3, <3>1
  <2>4. CASE u # t
    <3>1. u \in CommittedRec
        BY <1>4, <2>4
    <3>2. CommittedBefore(s, u)
        BY <2>2, <3>1 DEF CommitOrder, PairInv
    <3> QED
        BY <1>5, <3>2
  <2> QED
      BY <2>3, <2>4
<1> QED
    BY <1>2, <1>6

\* innobase_commit: the mutex has kept all others from the log, or the transaction is
\* not in it.
LEMMA CommitInMemoryOrder ==
    ASSUME Inv, CommitOrder, NEW t \in Trx, CommitInMemory(t) PROVE TailInv' /\ PairInv'
<1>1. /\ redo' = Append(redo, <<"committed", t>>) /\ logs' = logs /\ sync_failed' = sync_failed
      /\ flushed' = flushed /\ "committed" \in Kinds /\ mode = "up" /\ pc[t] \in {"commit", "alone"}
    BY DEF CommitInMemory, At, binlog, Kinds
<1>2. CommittedDisk' = CommittedDisk /\ AbortedDisk' = AbortedDisk
    BY <1>1, AppendRec DEF Inv, CommittedDisk, AbortedDisk, Kinds
<1>3. /\ t \notin CommittedDisk \union AbortedDisk
      /\ pc[t] = "commit" => prepare_commit_mutex = t
      /\ pc[t] = "alone" => t \notin Earlier \union InLast
    BY <1>1 DEF Inv, RecInv, LogInv, InDoubt, OpenPcs, CommitOrder, MutexInv
<1>4. ASSUME NEW s \in Trx, LoggedBefore(s, t), s \notin sync_failed PROVE s \in CommittedRec
  <2>1. s # t
      BY <1>4 DEF CommitOrder, TailInv
  <2>2. s \in Earlier \union InLast
      BY <1>4, LoggedFacts DEF Inv
  <2>3. pc[s] \notin {"sync", "written", "commit", "commit_flush"}
      BY <1>1, <1>3, <1>4, <2>1, LoggedFacts DEF Inv, CommitOrder, MutexInv, OpenPcs
  <2>4. s \in CommittedDisk
      BY <1>1, <1>4, <2>2, <2>3 DEF Inv, LogInv
  <2> QED
      BY <2>4 DEF Inv, RecInv
<1> QED
    BY <1>1, <1>2, <1>3, <1>4, CommitOrderStep

\* The recovery commits at most the last transaction of the binary log.
LEMMA RecoverOrder ==
    ASSUME Inv, CommitOrder, NEW t \in Trx, RecoverTrx(t), t \in InLast, InUse
    PROVE  TailInv' /\ PairInv'
<1>1. t \in InDoubt /\ mode = "recover" /\ xid[t] \in commit_list
    BY ListFacts
<1>2. /\ redo' = Append(redo, <<"committed", t>>) /\ logs' = logs /\ sync_failed' = sync_failed
      /\ flushed' = Len(redo') /\ "committed" \in Kinds
    BY <1>1 DEF RecoverTrx, binlog, Kinds
<1>3. /\ CommittedRec' = CommittedRec \union {t} /\ AbortedRec' = AbortedRec
    BY <1>2, AppendRec DEF Inv, CommittedRec, AbortedRec, Kinds
<1>4. DiskIsAll'
    BY <1>2, FlushFacts
<1>5. CommittedDisk \subseteq CommittedDisk' /\ AbortedDisk \subseteq AbortedDisk'
    BY <1>3, <1>4 DEF DiskIsAll, Inv, RecInv
<1>6. t \notin CommittedDisk \union AbortedDisk
    BY <1>1 DEF InDoubt, Inv, RecInv
<1>7. ASSUME NEW s \in Trx, LoggedBefore(s, t), s \notin sync_failed PROVE s \in CommittedRec
  <2>1. s \in CommittedDisk \union AbortedDisk
      BY <1>7 DEF CommitOrder, TailInv
  <2>2. s \in Earlier \union InLast
      BY <1>7, LoggedFacts DEF Inv
  <2>3. s \in CommittedDisk \/ s \notin CommittedRec \union AbortedRec
      BY <1>1, <1>7, <2>2 DEF Inv, LogInv
  <2> QED
      BY <2>1, <2>3 DEF Inv, RecInv
<1> QED
    BY <1>2, <1>5, <1>6, <1>7, CommitOrderStep

\* Every step keeps the order.
LEMMA OrderStep ==
    ASSUME sync_binlog_period = 1, Inv, CommitOrder, [Next]_vars PROVE CommitOrder'
<1>1. MutexInv'
    BY MutexStep DEF Inv, CommitOrder
<1>2. ASSUME Keeps PROVE TailInv' /\ PairInv'
    BY <1>2, KeptOrder DEF CommitOrder
<1>3. ASSUME NEW t \in Trx, Begin(t) \/ CommitStep(t) PROVE TailInv' /\ PairInv'
  <2>1. CASE Begin(t) \/ SyncLog(t) \/ CountXid(t) \/ Unlog(t) \/ Rotate(t) \/ AnswerClient(t)
    <3>1. UNCHANGED engine /\ logs' = logs /\ sync_failed \subseteq sync_failed'
        BY <2>1 DEF Begin, SyncLog, CountXid, Unlog, Rotate, AnswerClient, binlog
    <3>2. Keeps
        BY <3>1, QuietKeeps DEF Inv
    <3> QED
        BY <1>2, <3>2
  <2>2. CASE LockPrepare(t) \/ FlushPrepare(t) \/ Rollback(t) \/ FlushCommit(t)
    <3>1. Keeps
        BY <2>2, EngineKeeps
    <3> QED
        BY <1>2, <3>1
  <2>3. CASE WriteXid(t)
      BY <2>3, WriteOrder
  <2>4. CASE CommitInMemory(t)
      BY <2>4, CommitInMemoryOrder
  <2> QED
      BY <1>3, <2>1, <2>2, <2>3, <2>4 DEF CommitStep
<1>4. ASSUME NEW t \in Threads, NewFile(t) PROVE TailInv' /\ PairInv'
  <2>1. \/ Die
        \/ /\ UNCHANGED engine /\ sync_failed' = sync_failed
           /\ \/ logs' = logs
              \/ logs' = [logs EXCEPT ![Len(logs)].in_use = FALSE]
              \/ logs' = Append(logs, EmptyLog)
      BY <1>4
      DEF NewFile, CloseLog, KeepLog, RotateNameless, OpenLog, OpenFails, NotOpened, binlog
  <2>2. Keeps
      BY <2>1, QuietKeeps, CrashKeeps DEF Inv
  <2> QED
      BY <1>2, <2>2
<1>5. CASE ForceRotate \/ ReadLastLog \/ FinishStart \/ UNCHANGED vars
  <2>1. /\ UNCHANGED engine /\ sync_failed' = sync_failed
        /\ logs' = logs \/ logs' = Append(logs, EmptyLog)
      BY <1>5 DEF ForceRotate, ReadLastLog, FinishStart, vars, binlog
  <2>2. Keeps
      BY <2>1, QuietKeeps DEF Inv
  <2> QED
      BY <1>1, <1>2, <2>2 DEF CommitOrder
<1>6. ASSUME NEW t \in Trx, RecoverTrx(t) PROVE TailInv' /\ PairInv'
  <2>1. CASE t \in InLast /\ InUse
      BY <1>6, <2>1, RecoverOrder
  <2>2. CASE ~(t \in InLast /\ InUse)
    <3>1. Keeps
        BY <1>6, <2>2, EngineKeeps
    <3> QED
        BY <1>2, <3>1
  <2> QED
      BY <2>1, <2>2
<1>7. CASE Crash
  <2>1. Keeps
      BY <1>7, CrashKeeps DEF Crash
  <2> QED
      BY <1>1, <1>2, <2>1 DEF CommitOrder
<1> QED
    BY <1>1, <1>3, <1>4, <1>5, <1>6, <1>7 DEF Next, Recovery, CommitOrder

\* InnoDB commits in the order of the binary log, across any number of crashes,
\* rotations and failed writes: prepare_commit_mutex does what it is there for.
THEOREM OrderCorrect == ASSUME sync_binlog_period = 1 PROVE Spec => []SameOrder
<1>1. Init => CommitOrder
  <2> SUFFICES ASSUME Init PROVE CommitOrder
      OBVIOUS
  <2>1. MutexInv
      BY Names DEF Init, MutexInv, OpenPcs
  <2>2. \A t, u \in Trx : ~LoggedBefore(t, u)
    <3>1. logs = <<EmptyLog>> /\ DOMAIN logs = {1} /\ logs[1].xids = <<>>
        BY DEF Init, EmptyLog
    <3>2. DOMAIN logs[1].xids = {}
        BY <3>1
    <3> QED
        BY <3>1, <3>2, Zenon DEF LoggedBefore
  <2> QED
      BY <2>1, <2>2 DEF CommitOrder, TailInv, PairInv
<1>2. Inv /\ CommitOrder /\ [Next]_vars => CommitOrder'
    BY OrderStep
<1>3. Inv /\ CommitOrder => SameOrder
  <2> SUFFICES ASSUME Inv, CommitOrder, NEW t \in Trx, NEW u \in Trx, LoggedBefore(t, u),
                      State(u) = "committed"
               PROVE  CommittedBefore(t, u) \/ (t \in sync_failed /\ State(t) # "committed")
      BY DEF SameOrder
  <2>1. u \in CommittedRec /\ (State(t) = "committed" <=> t \in CommittedRec)
      BY StateFacts DEF Inv
  <2> QED
      BY <2>1 DEF CommitOrder, PairInv
<1> QED
    BY <1>1, <1>2, <1>3, Invariance, PTL DEF Spec
============================================================================
