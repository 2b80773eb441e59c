------------------------------ MODULE ShmDump ------------------------------
(***************************************************************************)
(* cdb_shm_dump beside mysqld: a second process that reads the name of the *)
(* standby pool from the pair map file, looks at the flag in that pool's   *)
(* meta data, copies the pool with memcpy and prints the copy.  It takes   *)
(* no lock, and mysqld does not know of it: every step of ShmPair may      *)
(* happen between two of its steps, and while memcpy runs.                 *)
(*                                                                         *)
(* memcpy is one step per entry.  A look-up already moves list links, so   *)
(* that any access to the pool while it is copied tears the copy.          *)
(***************************************************************************)
EXTENDS ShmPair

VARIABLES
    rpc,       \* where the dump tool is
    name,      \* the pool it dumps (sm_name)
    warned,    \* it has printed "check standby error"
    copy,      \* the counts in its private copy
    todo,      \* entries memcpy has not reached
    first,     \* history: the pool's counts when the map file was read
    quiet,     \* history: no adder referred to the pool then
    asleep,    \* history: the switch thread has slept ever since
    torn       \* history: the pool was accessed or reset while it was copied

toolVars == <<rpc, name, warned, copy, todo>>
dumpHist == <<first, quiet, asleep, torn>>
dumpVars == <<vars, toolVars, dumpHist>>

NoCounts == [k \in Keys |-> 0]

DumpInit ==
    /\ Init
    /\ rpc = "idle" /\ name = None /\ warned = FALSE
    /\ copy = NoCounts /\ todo = {}
    /\ first = NoCounts /\ quiet = FALSE /\ asleep = FALSE /\ torn = FALSE

-----------------------------------------------------------------------------
(* The tool.  Between runs it keeps nothing.                               *)

EndOfRun ==
    /\ rpc' = "idle" /\ name' = None /\ warned' = FALSE
    /\ copy' = NoCounts /\ todo' = {}
    /\ first' = NoCounts /\ quiet' = FALSE /\ asleep' = FALSE /\ torn' = FALSE

\* main, cdb_attach_shm_mgr: the pools exist and are opened without
\* initialisation; one that is being reset may fail that check, which ends the run.
Attach ==
    /\ rpc = "idle"
    /\ rpc' = "parse"
    /\ UNCHANGED <<vars, name, warned, copy, todo, dumpHist>>

\* parse_pair_map_file: an empty file gives no name and ends the run.
ParsePairMapFile ==
    /\ rpc = "parse"
    /\ mapFile # None
    /\ rpc' = "check"
    /\ name' = mapFile
    /\ first' = mem[mapFile]
    /\ quiet' = \A w \in Writers : ref[w] # mapFile
    /\ asleep' = (swPc = "sleep")
    /\ UNCHANGED <<vars, warned, copy, todo, torn>>

EmptyPairMapFile ==
    /\ rpc = "parse"
    /\ mapFile = None
    /\ EndOfRun
    /\ UNCHANGED vars

\* Wrong variant: the flag is not looked at.
CheckNothing ==
    /\ rpc = "check"
    /\ rpc' = "copy"
    /\ warned' = FALSE
    /\ todo' = Keys
    /\ UNCHANGED <<vars, name, copy, dumpHist>>

\* check_standby: a set flag is reported and nothing else.
CheckStandby ==
    /\ rpc = "check"
    /\ rpc' = "copy"
    /\ warned' = flag[name]
    /\ todo' = Keys
    /\ UNCHANGED <<vars, name, copy, dumpHist>>

\* copy_shm_data, memcpy of the entry of k.
CopyShmData(k) ==
    /\ rpc = "copy" /\ k \in todo
    /\ copy' = [copy EXCEPT ![k] = mem[name][k]]
    /\ todo' = todo \ {k}
    /\ rpc' = IF todo' = {} THEN "print" ELSE "copy"
    /\ torn' = (torn \/ ~ready[name])
    /\ UNCHANGED <<vars, name, warned, first, quiet, asleep>>

\* dump_ins_dml and its three siblings: open the copy, iterate, print, exit.
PrintCopy ==
    /\ rpc = "print"
    /\ EndOfRun
    /\ UNCHANGED vars

Tool ==
    \/ Attach \/ ParsePairMapFile \/ EmptyPairMapFile
    \/ CheckStandby \/ (\E k \in Keys : CopyShmData(k)) \/ PrintCopy

-----------------------------------------------------------------------------
\* This step of mysqld goes to pool s, or resets it.
Touches(s) ==
    \/ \E w \in Writers : /\ ref[w] = s
                          /\ wpc[w] \in Accessing
                          /\ wpc'[w] # wpc[w]
    \/ ~ready'[s]

\* A step of mysqld.
Mysqld ==
    /\ Next
    /\ asleep' = (asleep /\ swPc' = "sleep")
    /\ torn' = (torn \/ (rpc = "copy" /\ todo # Keys /\ Touches(name)))
    /\ UNCHANGED <<toolVars, first, quiet>>

DumpNext == Tool \/ Mysqld

DumpSpec == DumpInit /\ [][DumpNext]_dumpVars

-----------------------------------------------------------------------------
(* Properties.                                                             *)

\* A dump without a warning that runs while the switch thread sleeps shows the
\* standby pool, whether or not the last rewrite of the map file failed: every
\* sample that was there when it began, and none that is not there in the end.
\* Adders that were caught in the pool by the exchange may still be adding.
PromptDumpIsOfStandby ==
    rpc = "print" /\ ~warned /\ asleep =>
        /\ name = standby
        /\ \A k \in Keys : first[k] <= copy[k] /\ copy[k] <= mem[name][k]

\* If no adder was caught in the pool, such a dump is exact: nothing touches
\* the pool while memcpy runs, although no lock is held.
QuietDumpIsExact ==
    rpc = "print" /\ ~warned /\ asleep /\ quiet => ~torn /\ copy = mem[name]
=============================================================================
