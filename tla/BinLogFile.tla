----------------------------- MODULE BinLogFile -----------------------------
(***************************************************************************)
(* The files of CBinLog word by word: how records are written, how files   *)
(* rotate, and how StartUp, or a reader that asks for a start time, reads  *)
(* them back.  Module Persist has the log record by record; this module    *)
(* justifies it and adds records torn when the file got a part of the one  *)
(* fwrite of a record: the disk is full, or process or power fail.         *)
(*                                                                         *)
(* A word is an int: the time, the length or a piece of the payload, whose *)
(* length is counted in words.  Half-written records end between words.    *)
(***************************************************************************)
EXTENDS Integers, Sequences, SequencesExt, FiniteSets, FiniteSetsExt

CONSTANTS
    MaxLogNum,      \* _maxlog_num
    MaxLogSize,     \* _maxlog_size, in words
    MaxItem,        \* MAX_BINLOG_ITEM_LEN, in words
    Payloads,       \* payloads of records, sequences of words
    MaxTime,        \* bound: the clock
    MaxWrites,      \* bound: records written
    None            \* no file

ASSUME BinLogFileAssumption ==
    /\ MaxLogNum \in Nat /\ MaxLogNum > 1
    /\ MaxLogSize \in Nat \ {0}
    /\ MaxItem \in Nat
    /\ \A p \in Payloads : p \in Seq(Nat) /\ Len(p) \in 1..MaxItem
    /\ MaxTime \in Nat /\ MaxWrites \in Nat
    /\ None \notin Seq(Nat)

VARIABLES
    files,          \* files[i]: the words of file i, or None
    now,            \* the clock
    writes,         \* records written so far
    pc,             \* "run", in ShiftFiles, reading, or "done"
    idx,            \* i of ShiftFiles
    rd,             \* the reader: open file, _readidx, position, feof
    start,          \* the start time asked for, -1 for all records
    ret,            \* the last answer of ReadRecordFromBinLog
    delivered,      \* history: what the reader has handed out
    whole, torn     \* history: the complete records of each file before its first torn
                    \* one, and whether there is a torn one

vars == <<files, now, writes, pc, idx, rd, start, ret, delivered, whole, torn>>
writeVars == <<files, now, writes, idx, whole, torn>>
readVars == <<rd, start, ret, delivered>>

Files == 0..(MaxLogNum - 1)
Closed == [open |-> FALSE, i |-> MaxLogNum, pos |-> 0, eof |-> FALSE]
Opened(i, pos) == [open |-> TRUE, i |-> i, pos |-> pos, eof |-> FALSE]

Init ==
    /\ files = [i \in Files |-> None]
    /\ now = 1 /\ writes = 0
    /\ pc = "run" /\ idx = 0
    /\ rd = Closed /\ start = -1 /\ ret = 1 /\ delivered = <<>>
    /\ whole = [i \in Files |-> <<>>] /\ torn = [i \in Files |-> FALSE]

-----------------------------------------------------------------------------
(* Writing.                                                                *)

Tick == pc = "run" /\ now < MaxTime /\ now' = now + 1
        /\ UNCHANGED <<files, writes, pc, idx, readVars, whole, torn>>

\* tNow, len and the payload, as they are put together in szTmpBuff.
WordsOf(p) == <<now, Len(p)>> \o p

\* fopen "a+"
Old(i) == IF files[i] = None THEN <<>> ELSE files[i]

\* WriteToBinLog; ShiftFiles looks at the size.
WriteToBinLog(p) ==
    /\ pc = "run" /\ writes < MaxWrites
    /\ writes' = writes + 1
    /\ files' = [files EXCEPT ![0] = Old(0) \o WordsOf(p)]
    /\ whole' = IF torn[0] THEN whole
                ELSE [whole EXCEPT ![0] = Append(@, [time |-> now, data |-> p])]
    /\ pc' = IF Len(files'[0]) < MaxLogSize THEN "run" ELSE "remove"
    /\ UNCHANGED <<now, idx, readVars, torn>>

\* The process dies when n words are in the file, and is started again on the
\* shared memory that survives it.
DieInWrite(p, n) ==
    /\ pc = "run" /\ writes < MaxWrites
    /\ n < Len(WordsOf(p))
    /\ writes' = writes + 1
    /\ files' = [files EXCEPT ![0] = Old(0) \o SubSeq(WordsOf(p), 1, n)]
    /\ torn' = [torn EXCEPT ![0] = @ \/ n > 0]
    /\ UNCHANGED <<now, pc, idx, readVars, whole>>

\* File i becomes file j.
Rename(i, j) ==
    /\ files' = [files EXCEPT ![j] = files[i], ![i] = None]
    /\ whole' = [whole EXCEPT ![j] = whole[i], ![i] = <<>>]
    /\ torn' = [torn EXCEPT ![j] = torn[i], ![i] = FALSE]

\* Wrong variant: the last file is left to be overwritten.
RemoveLast_skips ==
    /\ pc = "remove"
    /\ idx' = MaxLogNum - 2 /\ pc' = "shift"
    /\ UNCHANGED <<files, whole, torn, now, writes, readVars>>

\* ShiftFiles: the last file is removed ...
RemoveLast ==
    /\ pc = "remove"
    /\ files' = [files EXCEPT ![MaxLogNum - 1] = None]
    /\ whole' = [whole EXCEPT ![MaxLogNum - 1] = <<>>]
    /\ torn' = [torn EXCEPT ![MaxLogNum - 1] = FALSE]
    /\ idx' = MaxLogNum - 2 /\ pc' = "shift"
    /\ UNCHANGED <<now, writes, readVars>>

\* ... and every other file gets the next number, the oldest first.
Shift ==
    /\ pc = "shift"
    /\ IF files[idx] = None THEN UNCHANGED <<files, whole, torn>> ELSE Rename(idx, idx + 1)
    /\ IF idx = 0 THEN pc' = "run" /\ UNCHANGED idx ELSE idx' = idx - 1 /\ UNCHANGED pc
    /\ UNCHANGED <<now, writes, readVars>>

\* The process dies in ShiftFiles, or a call in it fails.
ShiftEnds ==
    /\ pc \in {"remove", "shift"}
    /\ pc' = "run"
    /\ UNCHANGED <<writeVars, readVars>>

-----------------------------------------------------------------------------
(* Reading.                                                                *)

\* The next file that exists, in the order in which they are read; -1 if none.
NextFile(i) == LET S == {j \in Files : j < i /\ files[j] # None} IN IF S = {} THEN -1 ELSE Max(S)

\* SetReadRecordStartTime(-1) and the loop of StartUp.
ReadAll ==
    /\ pc = "run" /\ pc' = "read"
    /\ start' = -1 /\ rd' = Closed
    /\ UNCHANGED <<writeVars, ret, delivered>>

\* The length of a record is read, and its payload skipped.
skip(w, a, i) ==
    IF i = a.next THEN [at |-> a.at \cup {i}, next |-> i + 2 + w[i + 2]] ELSE a

\* Where the records of a file begin, counted from 0.
Begins(w) ==
    FoldLeft(LAMBDA a, i : skip(w, a, i - 1), [at |-> {}, next |-> 0], [i \in 1..Len(w) |-> i]).at

TimeAt(w, i) == w[i + 1]

\* Wrong variant: a file that begins at the time asked for ends the search.
search_stops_at_equal(t, s, i) ==
    LET w == files[i]
        after == {b \in Begins(w) \ {0} : TimeAt(w, b) >= t}
    IN  IF s.over \/ w = None \/ TimeAt(w, 0) > t THEN s
        ELSE IF TimeAt(w, 0) = t THEN [s EXCEPT !.over = TRUE, !.rd = Opened(i, 0)]
        ELSE [s EXCEPT !.over = TRUE,
                       !.rd = IF after # {} THEN Opened(i, Min(after)) ELSE [Closed EXCEPT !.i = i]]

\* One round of SetReadRecordStartTime's loop, from file 0 on.  A file that begins
\* before t holds the first record at or after t behind its own first record, or no
\* such record; one that begins at t may be preceded by more of that time.
search(t, s, i) ==
    LET w == files[i]
        after == {b \in Begins(w) \ {0} : TimeAt(w, b) >= t}
    IN  IF s.over \/ w = None \/ TimeAt(w, 0) > t THEN s
        ELSE IF TimeAt(w, 0) = t THEN [s EXCEPT !.rd = Opened(i, 0)]
        ELSE [s EXCEPT !.over = TRUE,
                       !.rd = IF after # {} THEN Opened(i, Min(after))
                              ELSE IF s.rd.open THEN s.rd
                              ELSE [Closed EXCEPT !.i = i]]

\* SetReadRecordStartTime(t), on files without torn records; nobody looks at what it
\* answers.
SetReadRecordStartTime(t) ==
    /\ pc = "run" /\ pc' = "read"
    /\ \A i \in Files : ~torn[i] /\ files[i] # <<>>
    /\ start' = t
    /\ rd' = FoldLeft(LAMBDA s, i : search(t, s, i - 1), [over |-> FALSE, rd |-> Closed],
                      [i \in 1..MaxLogNum |-> i]).rd
    /\ UNCHANGED <<writeVars, ret, delivered>>

\* ReadRecordFromBinLog without an open file, or at the end of one.
NextReadFile ==
    /\ pc = "read" /\ ret > 0
    /\ ~rd.open \/ rd.eof
    /\ LET i == NextFile(rd.i) IN
         /\ rd' = IF i >= 0 THEN Opened(i, 0) ELSE [Closed EXCEPT !.i = i]
         /\ ret' = IF i >= 0 THEN ret ELSE -1
    /\ UNCHANGED <<writeVars, pc, start, delivered>>

\* ReadRecordFromBinLog: the two ints, then the payload.  The end of the file in
\* the ints leads to the next file, in the payload to the answer 0.
ReadRecord ==
    /\ pc = "read" /\ ret > 0 /\ rd.open /\ ~rd.eof
    /\ LET w == files[rd.i]
           len == w[rd.pos + 2]
           end == rd.pos + 2 + len
       IN  IF rd.pos + 2 > Len(w)
           THEN rd' = [rd EXCEPT !.pos = Len(w), !.eof = TRUE] /\ UNCHANGED <<ret, delivered>>
           ELSE IF len > MaxItem
           THEN rd' = [rd EXCEPT !.open = FALSE] /\ ret' = -3 /\ UNCHANGED delivered
           ELSE IF len = 0 \/ end > Len(w)
           THEN /\ rd' = [rd EXCEPT !.pos = IF len = 0 THEN end ELSE Len(w), !.eof = len # 0]
                /\ ret' = 0 /\ UNCHANGED delivered
           ELSE /\ rd' = [rd EXCEPT !.pos = end]
                /\ ret' = 1
                /\ delivered' = Append(delivered, [time |-> w[rd.pos + 1],
                                                   data |-> SubSeq(w, rd.pos + 3, end)])
    /\ UNCHANGED <<writeVars, pc, start>>

\* while (0 < ReadRecordFromBinLog()) ends.
ReadEnds ==
    /\ pc = "read" /\ ret <= 0
    /\ pc' = "done"
    /\ UNCHANGED <<writeVars, readVars>>

Done == pc = "done" /\ UNCHANGED vars

Next ==
    \/ Tick
    \/ \E p \in Payloads : WriteToBinLog(p) \/ \E n \in 0..(MaxItem + 1) : DieInWrite(p, n)
    \/ RemoveLast \/ Shift \/ ShiftEnds
    \/ ReadAll \/ \E t \in 1..MaxTime : SetReadRecordStartTime(t)
    \/ NextReadFile \/ ReadRecord \/ ReadEnds \/ Done

Spec == Init /\ [][Next]_vars

-----------------------------------------------------------------------------
(* Properties.                                                             *)

\* Up to the first torn record, file j is the next one.
older(a, j) == IF a.tear THEN a ELSE [recs |-> a.recs \o whole[j], tear |-> torn[j]]

\* The complete records before the first torn one, oldest first.
BeforeTear ==
    FoldLeft(LAMBDA a, j : older(a, MaxLogNum - j), [recs |-> <<>>, tear |-> FALSE],
             [j \in 1..MaxLogNum |-> j])

\* The records of time t or later.
Since(t, recs) == FoldLeft(LAMBDA a, r : IF r.time >= t THEN Append(a, r) ELSE a, <<>>, recs)

\* The replay, which takes the answer 0 ("please ignore it and go on") for the end,
\* hands out every record that is in the files, in the order in which they were
\* written, up to the first torn one, whatever holes and empty files
\* failed rotations and deaths have left; without a torn record it hands out
\* nothing else.  With a start time it hands out exactly the records of that time
\* or later.
ReplayIsExact ==
    pc = "done" =>
        LET B == BeforeTear
            wanted == Since(start, B.recs)
        IN  IF B.tear THEN IsPrefix(wanted, delivered) ELSE delivered = wanted

\* No word of a file is lost, but with the last file, which ShiftFiles removes:
\* rename, which would silently replace a file, never meets one, whatever
\* rotations were cut short before.
OnlyTheLastFileGoes ==
    [][\A i \in Files :
          files[i] # None /\ ~(pc = "remove" /\ i = MaxLogNum - 1) =>
              \E j \in Files \cap {i, i + 1} : files'[j] # None /\ IsPrefix(files[i], files'[j])]_vars
=============================================================================
