------------------------------- MODULE Persist -------------------------------
(***************************************************************************)
(* The binary log and the dump files of a CacheAccess with                 *)
(* _cache_dump_min > 0: what survives when the process dies, with or       *)
(* without its shared memory.  There are two kinds of dump, core_dump      *)
(* (entries) and mirror_dump (the pool as it is); a program uses one.      *)
(*                                                                         *)
(* A pool is a sequence of entries [k, v, f], most recently used first,    *)
(* as CacheStore promises it; every value takes one chunk.  A log file is  *)
(* a sequence of records [op, k, v], file 0 being the one that is written; *)
(* a file that does not exist is as good as an empty one.                  *)
(*                                                                         *)
(* Each step is one change of the pool, one file written, renamed or       *)
(* removed.  Finished file operations survive; torn records and pages that *)
(* the system had not written back are not modelled.                       *)
(***************************************************************************)
EXTENDS Naturals, Sequences, SequencesExt, FiniteSets

CONSTANTS
    Keys, Values,
    MaxLogNum,      \* _maxlog_num
    MaxLogSize,     \* _maxlog_size, in records
    Setups,         \* the set-ups of the program that are looked at
    None,           \* no file, no record, no key
    Broken          \* an image whose size is not that of the pool

ASSUME PersistAssumption == /\ MaxLogNum \in Nat /\ MaxLogNum > 1
                            /\ MaxLogSize \in Nat \ {0}
                            /\ Setups \subseteq [mirror : BOOLEAN, nodes : Nat \ {0}, records : Nat]
                            /\ None \notin Keys \cup Values
                            /\ Broken # None

VARIABLES
    setup,          \* how this program is set up; never changes
    pool,           \* the pool in shared memory
    fresh,          \* _cacheinit: the shared memory was created for this start
    log,            \* log[i]: records of binary log file i
    dump,           \* the dump file; None: there is none
    last,           \* what this process has written to the file .last
    tmp,            \* the file .tmp exists; what is in it is never read
    pc,             \* where the process is
    rec,            \* the record being logged
    idx,            \* the log file a loop has come to
    before,         \* history: the pool when the process died
    unsure,         \* history: the key of the operation it died in
    gaps            \* history: why log and dump may not give the pool back

fileVars == <<dump, last, tmp>>
deathVars == <<before, unsure>>
vars == <<setup, pool, fresh, log, fileVars, pc, rec, idx, deathVars, gaps>>

\* The dumps are mirror_dump's and StartUp_mirror's, not core_dump's and StartUp's.
Mirror == setup.mirror
\* Entries the pool holds.
NodeTotal == setup.nodes
\* Bound: no operation starts with that many records in the log.
MaxRecords == setup.records

Files == 0..(MaxLogNum - 1)
Records == [op : {"set", "mark_clean", "del"}, k : Keys, v : Values \cup {None}]
Entries == [k : Keys, v : Values, f : {"unchg", "dirty"}]
Logging  == {"append", "remove_last", "shift", "delete"}
Dumping  == {"rename_core", "rename_last", "rename_tmp", "clear"}
Starting == {"recover", "replay"}

\* Why StartUp may not give the pool back.  "no_dump": there is no file under the
\* dump's name.  "short_dump": the dump was not written to its end.  "log": the
\* log does not lead from the dump to the pool, because
\*   - a record was not written (WriteFails, Die before WriteToBinLog),
\*   - a change is never logged (SetClean over another entry, DelNode),
\*   - a record was written for a deletion that did not happen (Die in Del),
\*   - records were removed by rotation before a dump (RemoveLast),
\*   - the replay found the pool full (Replay), or
\*   - the pool was taken over half recovered (Die or a failed
\*     assertion in StartUp).
Gaps == {"no_dump", "short_dump", "log"}

-----------------------------------------------------------------------------
(* The pool, as CacheStore promises it.                                    *)

Has(p, k) == \E i \in DOMAIN p : p[i].k = k
EntryOf(p, k) == p[CHOOSE i \in DOMAIN p : p[i].k = k]
Without(p, k) == SelectSeq(p, LAMBDA e : e.k # k)
Fits(p, k) == Has(p, k) \/ Len(p) < NodeTotal

\* find_node, insert_node or update_node, set_node_flag; a full pool refuses a new key.
put(p, k, v, f) ==
    IF Fits(p, k) THEN <<[k |-> k, v |-> v, f |-> f]>> \o Without(p, k) ELSE p

\* find_node, which makes the entry the most recently used one, and the flag.
touch(p, k) == <<EntryOf(p, k)>> \o Without(p, k)
clean(p, k) == <<[EntryOf(p, k) EXCEPT !.f = "unchg"]>> \o Without(p, k)

\* What a dump writes: the image, or the head of the add list and the dirty
\* entries behind it (dirty_iterator).
written(p) ==
    IF Mirror \/ p = <<>> THEN p
    ELSE <<Head(p)>> \o SelectSeq(Tail(p), LAMBDA e : e.f = "dirty")

\* core_recover brings every entry back as dirty; mirror_recover reads the image.
core_recover(d) ==
    IF Mirror THEN d ELSE FoldLeft(LAMBDA p, e : put(p, e.k, e.v, "dirty"), <<>>, d)

\* Wrong variant: deletions are not replayed.
replay_record_keeps(p, r) ==
    CASE r.op = "set"        -> put(p, r.k, r.v, "dirty")
      [] r.op = "del"        -> p
      [] r.op = "mark_clean" -> IF Has(p, r.k) THEN clean(p, r.k) ELSE p

\* The body of StartUp's loop over the log; a set the pool refuses is ignored.
replay_record(p, r) ==
    CASE r.op = "set"        -> put(p, r.k, r.v, "dirty")
      [] r.op = "del"        -> Without(p, r.k)
      [] r.op = "mark_clean" -> IF Has(p, r.k) THEN clean(p, r.k) ELSE p

replay_file(p, file) == FoldLeft(replay_record, p, file)

\* Some set of the file is refused when the file is replayed.
Refuses(p, file) ==
    \E i \in DOMAIN file : /\ file[i].op = "set"
                           /\ ~Fits(replay_file(p, SubSeq(file, 1, i - 1)), file[i].k)

-----------------------------------------------------------------------------
TypeOK ==
    /\ pool \in Seq(Entries) /\ Len(pool) <= NodeTotal
    /\ setup \in Setups
    /\ fresh \in BOOLEAN
    /\ \A i \in Files : log[i] \in Seq(Records)
    /\ tmp \in BOOLEAN
    /\ \A d \in {dump, last} : d \in {None, Broken} \/ d \in Seq(Entries)
    /\ pc \in {"run", "down"} \cup Logging \cup Dumping \cup Starting
    /\ rec \in Records \cup {None}
    /\ idx \in Files
    /\ before \in Seq(Entries)
    /\ unsure \in Keys \cup {None}
    /\ gaps \subseteq Gaps

Init ==
    /\ setup \in Setups
    /\ pool = <<>> /\ before = <<>>
    /\ fresh = TRUE
    /\ log = [i \in Files |-> <<>>]
    /\ dump = None /\ last = None /\ tmp = FALSE
    /\ pc = "down"
    /\ rec = None /\ idx = 0 /\ unsure = None
    /\ gaps = {}

-----------------------------------------------------------------------------
(* Operations that the binary log records.                                 *)

LogLength == FoldLeft(LAMBDA n, i : n + Len(log[i - 1]), 0, [i \in 1..MaxLogNum |-> i])

StartOperation == pc = "run" /\ LogLength < MaxRecords

StartLogging(op, k, v) ==
    /\ rec' = [op |-> op, k |-> k, v |-> v]
    /\ pc' = "append"

\* set with NODE_FLAG_DIRTY: into the pool first, then into the log.
Set(k, v) ==
    /\ StartOperation
    /\ Fits(pool, k)
    /\ pool' = put(pool, k, v, "dirty")
    /\ StartLogging("set", k, v)
    /\ UNCHANGED <<fresh, log, fileVars, idx, deathVars, gaps>>

\* set with NODE_FLAG_UNCHG is not logged.
SetClean(k, v) ==
    /\ StartOperation
    /\ Fits(pool, k)
    /\ pool' = put(pool, k, v, "unchg")
    /\ gaps' = IF Has(pool, k) /\ EntryOf(pool, k) # [k |-> k, v |-> v, f |-> "unchg"]
                 THEN gaps \cup {"log"} ELSE gaps
    /\ UNCHANGED <<fresh, log, fileVars, pc, rec, idx, deathVars>>

MarkClean(k) ==
    /\ StartOperation
    /\ Has(pool, k)
    /\ pool' = clean(pool, k)
    /\ StartLogging("mark_clean", k, None)
    /\ UNCHANGED <<fresh, log, fileVars, idx, deathVars, gaps>>

\* del: into the log first; the node is deleted afterwards.
Del(k) ==
    /\ StartOperation
    /\ Has(pool, k)
    /\ pool' = touch(pool, k)
    /\ StartLogging("del", k, None)
    /\ UNCHANGED <<fresh, log, fileVars, idx, deathVars, gaps>>

\* del_node(modbase, mobres) is not logged.
DelNode(S) ==
    /\ StartOperation
    /\ \E k \in S : Has(pool, k)
    /\ pool' = SelectSeq(pool, LAMBDA e : e.k \notin S)
    /\ gaps' = gaps \cup {"log"}
    /\ UNCHANGED <<fresh, log, fileVars, pc, rec, idx, deathVars>>

\* A look-up; nothing is logged.
Get(k) ==
    /\ StartOperation
    /\ Has(pool, k)
    /\ pool' = touch(pool, k)
    /\ UNCHANGED <<fresh, log, fileVars, pc, rec, idx, deathVars, gaps>>

\* The operation goes on behind WriteToBinLog.
EndLogging ==
    IF rec.op = "del" THEN pc' = "delete" /\ UNCHANGED rec
                      ELSE pc' = "run" /\ rec' = None

\* WriteToBinLog: open for appending, write, flush; ShiftFiles looks at the size.
WriteToBinLog ==
    /\ pc = "append"
    /\ log' = [log EXCEPT ![0] = Append(@, rec)]
    /\ IF Len(log'[0]) < MaxLogSize THEN EndLogging ELSE pc' = "remove_last" /\ UNCHANGED rec
    /\ UNCHANGED <<pool, fresh, fileVars, idx, deathVars, gaps>>

\* The file cannot be opened or written: no caller looks at the answer.
WriteFails ==
    /\ pc = "append"
    /\ EndLogging
    /\ gaps' = gaps \cup {"log"}
    /\ UNCHANGED <<pool, fresh, log, fileVars, idx, deathVars>>

\* ShiftFiles: the oldest file goes ...
RemoveLast ==
    /\ pc = "remove_last"
    /\ log' = [log EXCEPT ![MaxLogNum - 1] = <<>>]
    /\ gaps' = IF log[MaxLogNum - 1] = <<>> THEN gaps ELSE gaps \cup {"log"}
    /\ idx' = MaxLogNum - 2
    /\ pc' = "shift"
    /\ UNCHANGED <<pool, fresh, fileVars, rec, deathVars>>

\* ... and each other file that exists gets the next number, the oldest first.
Shift ==
    /\ pc = "shift"
    /\ log' = IF log[idx] = <<>> THEN log
              ELSE [log EXCEPT ![idx + 1] = log[idx], ![idx] = <<>>]
    /\ IF idx = 0 THEN EndLogging /\ UNCHANGED idx
                  ELSE idx' = idx - 1 /\ UNCHANGED <<pc, rec>>
    /\ UNCHANGED <<pool, fresh, fileVars, deathVars, gaps>>

\* A file cannot be looked at, removed or renamed: the rest stays where it is.
ShiftFails ==
    /\ pc \in {"remove_last", "shift"}
    /\ EndLogging
    /\ UNCHANGED <<pool, fresh, log, fileVars, idx, deathVars, gaps>>

\* The end of del.
DeleteNode ==
    /\ pc = "delete"
    /\ pool' = Without(pool, rec.k)
    /\ pc' = "run" /\ rec' = None
    /\ UNCHANGED <<fresh, log, fileVars, idx, deathVars, gaps>>

-----------------------------------------------------------------------------
(* time_check: dump, then clear the log.                                   *)

\* fopen truncates .last, the dump before the previous one, which nothing reads.
DumpWrite ==
    /\ pc = "run"
    /\ last' = written(pool)
    /\ pc' = "rename_core"
    /\ UNCHANGED <<pool, fresh, log, dump, tmp, rec, idx, deathVars, gaps>>

\* Nothing looks at what fwrite answers: the file may end early.
DumpWriteShort ==
    /\ pc = "run"
    /\ \E n \in 0..(Len(written(pool)) - 1) :
          last' = IF Mirror THEN Broken ELSE SubSeq(written(pool), 1, n)
    /\ pc' = "rename_core"
    /\ UNCHANGED <<pool, fresh, log, dump, tmp, rec, idx, deathVars, gaps>>

\* rename(szcorefile, tmp_name), which fails when there is no dump yet.
RenameCore ==
    /\ pc = "rename_core"
    /\ pc' = "rename_last"
    /\ IF dump = None THEN UNCHANGED <<dump, tmp, gaps>>
       ELSE tmp' = TRUE /\ dump' = None /\ gaps' = gaps \cup {"no_dump"}
    /\ UNCHANGED <<pool, fresh, log, last, rec, idx, deathVars>>

\* rename(last_file, szcorefile)
RenameLast ==
    /\ pc = "rename_last"
    /\ pc' = "rename_tmp"
    /\ dump' = last /\ last' = None
    /\ gaps' = (gaps \ {"no_dump", "short_dump"}) \cup (IF last = written(pool) THEN {} ELSE {"short_dump"})
    /\ UNCHANGED <<pool, fresh, log, tmp, rec, idx, deathVars>>

\* rename(tmp_name, last_file): .last is the previous dump.
RenameTmp ==
    /\ pc = "rename_tmp"
    /\ pc' = "clear"
    /\ tmp' = FALSE
    /\ idx' = MaxLogNum - 1
    /\ UNCHANGED <<pool, fresh, log, dump, last, rec, deathVars, gaps>>

\* Wrong variant: the newest log file is removed first.
ClearNewestFirst ==
    /\ pc = "clear"
    /\ log' = [log EXCEPT ![MaxLogNum - 1 - idx] = <<>>]
    /\ IF idx = 0
         THEN /\ pc' = "run"
              /\ gaps' = gaps \cap {"short_dump"}
              /\ UNCHANGED idx
         ELSE idx' = idx - 1 /\ UNCHANGED <<pc, gaps>>
    /\ UNCHANGED <<pool, fresh, fileVars, rec, deathVars>>

\* ClearAllBinLog: one file after the other, the oldest first.  A complete dump
\* without a log closes every gap.
ClearAllBinLog ==
    /\ pc = "clear"
    /\ log' = [log EXCEPT ![idx] = <<>>]
    /\ IF idx = 0
         THEN /\ pc' = "run"
              /\ gaps' = gaps \cap {"short_dump"}
              /\ UNCHANGED idx
         ELSE idx' = idx - 1 /\ UNCHANGED <<pc, gaps>>
    /\ UNCHANGED <<pool, fresh, fileVars, rec, deathVars>>

-----------------------------------------------------------------------------
(* Death and restart.                                                      *)

\* What is remembered of the moment of death; a process that dies while it
\* starts has not yet replaced what the earlier one left.
RememberDeath ==
    IF pc \in Starting \cup {"down"} THEN UNCHANGED deathVars
    ELSE /\ before' = pool
         /\ unsure' = IF rec = None THEN None ELSE rec.k

\* The process dies and the shared memory stays.
Die ==
    /\ pc # "down"
    /\ pc' = "down"
    /\ fresh' = FALSE
    /\ RememberDeath
    /\ gaps' = IF pc \in Starting \cup {"append"} \/ (rec # None /\ rec.op = "del")
                 THEN gaps \cup {"log"} ELSE gaps
    /\ rec' = None /\ idx' = 0 /\ last' = None
    /\ UNCHANGED <<pool, log, dump, tmp>>

\* The shared memory is gone, and with it the process if it still ran.
LosePool ==
    /\ pc = "down" => ~fresh
    /\ pc' = "down"
    /\ fresh' = TRUE
    /\ RememberDeath
    /\ pool' = <<>>
    /\ rec' = None /\ idx' = 0 /\ last' = None
    /\ UNCHANGED <<log, dump, tmp, gaps>>

\* StartUp on shared memory that was found: nothing to recover, answer 1.
StartOnPool ==
    /\ pc = "down" /\ ~fresh
    /\ pc' = "run"
    /\ before' = <<>> /\ unsure' = None
    /\ UNCHANGED <<pool, fresh, log, fileVars, rec, idx, gaps>>

\* StartUp on new shared memory.
StartUp ==
    /\ pc = "down" /\ fresh
    /\ pc' = "recover"
    /\ UNCHANGED <<pool, fresh, log, fileVars, rec, idx, deathVars, gaps>>

\* The dump file, if there is one under that name; an image of the wrong size
\* fails mirror_recover's assertion and leaves an empty pool behind.
Recover ==
    /\ pc = "recover"
    /\ IF dump = Broken
       THEN pc' = "down" /\ fresh' = FALSE /\ gaps' = gaps \cup {"log"} /\ UNCHANGED <<pool, idx>>
       ELSE /\ pool' = IF dump = None THEN pool ELSE core_recover(dump)
            /\ idx' = MaxLogNum - 1
            /\ pc' = "replay"
            /\ UNCHANGED <<fresh, gaps>>
    /\ UNCHANGED <<log, fileVars, rec, deathVars>>

\* ReadRecordFromBinLog from the oldest file to file 0; answer 0 at the end.
Replay ==
    /\ pc = "replay"
    /\ pool' = replay_file(pool, log[idx])
    /\ gaps' = IF Refuses(pool, log[idx]) THEN gaps \cup {"log"} ELSE gaps
    /\ IF idx = 0
         THEN pc' = "run" /\ before' = <<>> /\ unsure' = None /\ UNCHANGED idx
         ELSE idx' = idx - 1 /\ UNCHANGED <<pc, deathVars>>
    /\ UNCHANGED <<fresh, log, fileVars, rec>>

Operation ==
    \/ \E k \in Keys, v \in Values : Set(k, v) \/ SetClean(k, v)
    \/ \E k \in Keys : MarkClean(k) \/ Del(k) \/ Get(k)
    \/ \E S \in SUBSET Keys : DelNode(S)
    \/ WriteToBinLog \/ WriteFails \/ RemoveLast \/ Shift \/ ShiftFails \/ DeleteNode

Dump ==
    \/ DumpWrite \/ DumpWriteShort
    \/ RenameCore \/ RenameLast \/ RenameTmp \/ ClearAllBinLog

Next ==
    /\ \/ Operation \/ Dump
       \/ Die \/ LosePool
       \/ StartOnPool \/ StartUp \/ Recover \/ Replay
    /\ UNCHANGED setup

Spec == Init /\ [][Next]_vars

-----------------------------------------------------------------------------
(* Properties.                                                             *)

\* StartUp returns: 1 on shared memory that was found, 0 on a new one.
Restarted == pc = "down" /\ pc' = "run"
Recovered == pc = "replay" /\ pc' = "run"

\* Every entry that was dirty is back as it was, but for the key of the
\* operation the process died in.
DirtyIsBack ==
    \A i \in DOMAIN before :
        before[i].f = "dirty" /\ before[i].k # unsure => before[i] \in ToSet(pool')

\* Dirty data survives the loss of the shared memory, or of the process alone,
\* at any moment, in the middle of logging, rotation, dump, clearing or an
\* earlier recovery, unless one of the gaps is open.
RecoveryLosesNothing ==
    [][(Recovered \/ Restarted) /\ gaps' = {} => DirtyIsBack]_vars

\* Recovery brings back no deleted entry and no older value, even where it
\* replays a log over a dump that already contains its effects, unless one of
\* the gaps is open.
RecoveryInventsNothing ==
    [][Recovered /\ gaps' = {} =>
          \A i \in DOMAIN pool' :
              pool'[i].k # unsure => \E j \in DOMAIN before : /\ before[j].k = pool'[i].k
                                                              /\ before[j].v = pool'[i].v]_vars
=============================================================================
