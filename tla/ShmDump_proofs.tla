--------------------------- MODULE ShmDump_proofs ---------------------------
(***************************************************************************)
(* Safety of the pair of statistics pools, and what a dump shows, for      *)
(* every set of adders, every set of keys and every pool size.             *)
(*                                                                         *)
(* The invariant of the pair has four parts:                               *)
(*   TypeOK     types;                                                     *)
(*   LockInv    who owns which mutex where;                                *)
(*   RoleInv    what the meta flags and the map file say at each step of   *)
(*              the switch thread, and which pool is being reset;          *)
(*   PromptInv  as long as no adder has outlived a sleep: adders that      *)
(*              refer to the standby pool are gone before it is reset, so  *)
(*              what they read is what they overwrite.                     *)
(*                                                                         *)
(* cdb_shm_dump takes no lock, and adders may outlive any number of sleeps *)
(* of the switch thread.  For the dump the invariant has three more parts: *)
(*   FreshInv   an adder between find and its store has read what it       *)
(*              overwrites, but for the pool that is being reset: before   *)
(*              the exchange the switch thread waits for those adders;     *)
(*   ToolInv    types, and where the tool has a name;                      *)
(*   SleepInv   as long as the switch thread has slept since the map file  *)
(*              was read: the counts of the pool only grow, the copy lies  *)
(*              between the first counts and the present ones, and a pool  *)
(*              no adder referred to has stayed as it was.                 *)
(***************************************************************************)
EXTENDS ShmDump, TLAPS

-----------------------------------------------------------------------------
(* The pair.                                                               *)

LockInv ==
    /\ current # standby
    /\ \A w \in Writers : wpc[w] # "idle" => ref[w] \in Shms /\ key[w] \in Keys
    /\ \A w \in Writers : wpc[w] \in Critical => lock[ref[w]] = w
    /\ swPc \in {"lock_standby", "swap", "unlock_standby", "unlock_current"}
          => lock[current] = Switcher
    /\ swPc \in {"swap", "unlock_standby"} => lock[standby] = Switcher

\* switch_shm is re-initialising the standby pool.
Resetting == {"memset", "delete", "new", "open"}

RoleInv ==
    /\ \A s \in Shms : ~ready[s] => s = standby /\ swPc \in Resetting
    /\ \A s \in Shms : ~caLive[s] => s = standby /\ swPc = "new"
    /\ flag[current] <=> swPc \notin Exchanged
    /\ flag[standby] <=> swPc \in Exchanged \cup {"flag_standby"}

\* From the exchange of the pointers to the end of the next sleep.
MayLag == Exchanged \cup {"flag_standby", "map_open", "map_write", "sleep"}

PromptInv ==
    ~overrun =>
      /\ ~ub
      /\ mem = added
      /\ \A w \in Writers :
           /\ ~dangling[w]
           /\ wpc[w] # "idle" /\ ref[w] = standby => swPc \in MayLag
           /\ wpc[w] # "idle" /\ ref[w] = standby /\ swPc = "sleep" => w \in old
           /\ wpc[w] = "insert" => mem[ref[w]][key[w]] = 0
           /\ wpc[w] = "update" => entry[w] = mem[ref[w]][key[w]]

Inv == TypeOK /\ LockInv /\ RoleInv /\ PromptInv

-----------------------------------------------------------------------------
\* Every step keeps the types; an adder that runs has a pool and a key (LockInv).
LEMMA TypeStep == TypeOK /\ LockInv /\ [Next]_vars => TypeOK'
<1> SUFFICES ASSUME TypeOK, LockInv, [Next]_vars PROVE TypeOK'
    OBVIOUS
<1> USE ShmsDistinct, OwnersDistinct, NoneDistinct DEF TypeOK, LockInv, Shms, WriterPcs, SwitchPcs, Critical, vars, pairVars, poolVars, roleVars, writerVars, histVars
<1>1. ASSUME NEW w \in Writers, NEW k \in Keys, ~ub, GetCurrent(w, k) PROVE TypeOK'
    BY <1>1 DEF GetCurrent
<1>2. ASSUME NEW w \in Writers, ~ub, ReadCa(w) PROVE TypeOK'
    BY <1>2 DEF ReadCa
<1>3. ASSUME NEW w \in Writers, ~ub, LockShm(w) PROVE TypeOK'
    BY <1>3 DEF LockShm
<1>4. ASSUME NEW w \in Writers, ~ub, Find(w) PROVE TypeOK'
    BY <1>4 DEF Find, Sound
<1>5. ASSUME NEW w \in Writers, ~ub, Insert(w) PROVE TypeOK'
    BY <1>5 DEF Insert, Sound, Store
<1>6. ASSUME NEW w \in Writers, ~ub, Update(w) PROVE TypeOK'
    BY <1>6 DEF Update, Sound, Store
<1>7. ASSUME NEW w \in Writers, ~ub, UnlockShm(w) PROVE TypeOK'
    BY <1>7 DEF UnlockShm
<1>8. ASSUME NEW w \in Writers, ~ub, UndefinedAccess(w) PROVE TypeOK'
    BY <1>8 DEF UndefinedAccess, Sound, Accessing
<1>9. CASE ~ub /\ Wake
    BY <1>9 DEF Wake, SwitchStep
<1>10. CASE ~ub /\ Memset
    BY <1>10 DEF Memset, SwitchStep
<1>11. CASE ~ub /\ DeleteCa
    BY <1>11 DEF DeleteCa, SwitchStep, Copied
<1>12. CASE ~ub /\ NewCa
    BY <1>12 DEF NewCa, SwitchStep
<1>13. CASE ~ub /\ OpenCa
    BY <1>13 DEF OpenCa, SwitchStep
<1>14. CASE ~ub /\ LockCurrent
    BY <1>14 DEF LockCurrent, SwitchStep
<1>15. CASE ~ub /\ LockStandby
    BY <1>15 DEF LockStandby, SwitchStep
<1>16. CASE ~ub /\ Swap
    BY <1>16 DEF Swap, SwitchStep
<1>17. CASE ~ub /\ UnlockStandby
    BY <1>17 DEF UnlockStandby, SwitchStep
<1>18. CASE ~ub /\ UnlockCurrent
    BY <1>18 DEF UnlockCurrent, SwitchStep
<1>19. CASE ~ub /\ FlagCurrent
    BY <1>19 DEF FlagCurrent, SwitchStep
<1>20. CASE ~ub /\ FlagStandby
    BY <1>20 DEF FlagStandby, SwitchStep
<1>21. CASE ~ub /\ MapOpen
    BY <1>21 DEF MapOpen, SwitchStep
<1>22. CASE ~ub /\ MapOpenFails
    BY <1>22 DEF MapOpenFails, SwitchStep, InFlight
<1>23. CASE ~ub /\ MapWrite
    BY <1>23 DEF MapWrite, SwitchStep, InFlight
<1>24. CASE ~ub /\ MapWriteFails
    BY <1>24 DEF MapWriteFails, SwitchStep, InFlight
<1>25. CASE UNCHANGED vars
    BY <1>25
<1> QED
    BY <1>1, <1>2, <1>3, <1>4, <1>5, <1>6, <1>7, <1>8, <1>9, <1>10, <1>11, <1>12, <1>13, <1>14, <1>15, <1>16, <1>17, <1>18, <1>19, <1>20, <1>21, <1>22, <1>23, <1>24, <1>25 DEF Next, Writer, SwitchThread, Stopped

\* Every step keeps mutex ownership.
LEMMA LockStep == TypeOK /\ LockInv /\ [Next]_vars => LockInv'
<1> SUFFICES ASSUME TypeOK, LockInv, [Next]_vars PROVE LockInv'
    OBVIOUS
<1> USE ShmsDistinct, OwnersDistinct, NoneDistinct DEF TypeOK, LockInv, Shms, WriterPcs, SwitchPcs, Critical, vars, pairVars, poolVars, roleVars, writerVars, histVars
<1>1. ASSUME NEW w \in Writers, NEW k \in Keys, ~ub, GetCurrent(w, k) PROVE LockInv'
    BY <1>1 DEF GetCurrent
<1>2. ASSUME NEW w \in Writers, ~ub, ReadCa(w) PROVE LockInv'
    BY <1>2 DEF ReadCa
<1>3. ASSUME NEW w \in Writers, ~ub, LockShm(w) PROVE LockInv'
    BY <1>3 DEF LockShm
<1>4. ASSUME NEW w \in Writers, ~ub, Find(w) PROVE LockInv'
    BY <1>4 DEF Find, Sound
<1>5. ASSUME NEW w \in Writers, ~ub, Insert(w) PROVE LockInv'
    BY <1>5 DEF Insert, Sound, Store
<1>6. ASSUME NEW w \in Writers, ~ub, Update(w) PROVE LockInv'
    BY <1>6 DEF Update, Sound, Store
<1>7. ASSUME NEW w \in Writers, ~ub, UnlockShm(w) PROVE LockInv'
    BY <1>7 DEF UnlockShm
<1>8. ASSUME NEW w \in Writers, ~ub, UndefinedAccess(w) PROVE LockInv'
    BY <1>8 DEF UndefinedAccess, Sound, Accessing
<1>9. CASE ~ub /\ Wake
    BY <1>9 DEF Wake, SwitchStep
<1>10. CASE ~ub /\ Memset
    BY <1>10 DEF Memset, SwitchStep
<1>11. CASE ~ub /\ DeleteCa
    BY <1>11 DEF DeleteCa, SwitchStep, Copied
<1>12. CASE ~ub /\ NewCa
    BY <1>12 DEF NewCa, SwitchStep
<1>13. CASE ~ub /\ OpenCa
    BY <1>13 DEF OpenCa, SwitchStep
<1>14. CASE ~ub /\ LockCurrent
    BY <1>14 DEF LockCurrent, SwitchStep
<1>15. CASE ~ub /\ LockStandby
    BY <1>15 DEF LockStandby, SwitchStep
<1>16. CASE ~ub /\ Swap
    BY <1>16 DEF Swap, SwitchStep
<1>17. CASE ~ub /\ UnlockStandby
    BY <1>17 DEF UnlockStandby, SwitchStep
<1>18. CASE ~ub /\ UnlockCurrent
    BY <1>18 DEF UnlockCurrent, SwitchStep
<1>19. CASE ~ub /\ FlagCurrent
    BY <1>19 DEF FlagCurrent, SwitchStep
<1>20. CASE ~ub /\ FlagStandby
    BY <1>20 DEF FlagStandby, SwitchStep
<1>21. CASE ~ub /\ MapOpen
    BY <1>21 DEF MapOpen, SwitchStep
<1>22. CASE ~ub /\ MapOpenFails
    BY <1>22 DEF MapOpenFails, SwitchStep, InFlight
<1>23. CASE ~ub /\ MapWrite
    BY <1>23 DEF MapWrite, SwitchStep, InFlight
<1>24. CASE ~ub /\ MapWriteFails
    BY <1>24 DEF MapWriteFails, SwitchStep, InFlight
<1>25. CASE UNCHANGED vars
    BY <1>25
<1> QED
    BY <1>1, <1>2, <1>3, <1>4, <1>5, <1>6, <1>7, <1>8, <1>9, <1>10, <1>11, <1>12, <1>13, <1>14, <1>15, <1>16, <1>17, <1>18, <1>19, <1>20, <1>21, <1>22, <1>23, <1>24, <1>25 DEF Next, Writer, SwitchThread, Stopped

\* Every step keeps the published roles and the state of the pools in step with the switch thread.
LEMMA RoleStep == TypeOK /\ LockInv /\ RoleInv /\ [Next]_vars => RoleInv'
<1> SUFFICES ASSUME TypeOK, LockInv, RoleInv, [Next]_vars PROVE RoleInv'
    OBVIOUS
<1> USE ShmsDistinct, NoneDistinct DEF TypeOK, LockInv, RoleInv, Shms, SwitchPcs, Exchanged, Resetting, vars, pairVars, poolVars, roleVars, writerVars, histVars
<1>1. ASSUME NEW w \in Writers, NEW k \in Keys, ~ub, GetCurrent(w, k) PROVE RoleInv'
    BY <1>1 DEF GetCurrent
<1>2. ASSUME NEW w \in Writers, ~ub, ReadCa(w) PROVE RoleInv'
    BY <1>2 DEF ReadCa
<1>3. ASSUME NEW w \in Writers, ~ub, LockShm(w) PROVE RoleInv'
    BY <1>3 DEF LockShm
<1>4. ASSUME NEW w \in Writers, ~ub, Find(w) PROVE RoleInv'
    BY <1>4 DEF Find, Sound
<1>5. ASSUME NEW w \in Writers, ~ub, Insert(w) PROVE RoleInv'
    BY <1>5 DEF Insert, Sound, Store
<1>6. ASSUME NEW w \in Writers, ~ub, Update(w) PROVE RoleInv'
    BY <1>6 DEF Update, Sound, Store
<1>7. ASSUME NEW w \in Writers, ~ub, UnlockShm(w) PROVE RoleInv'
    BY <1>7 DEF UnlockShm
<1>8. ASSUME NEW w \in Writers, ~ub, UndefinedAccess(w) PROVE RoleInv'
    BY <1>8 DEF UndefinedAccess, Sound, Accessing
<1>9. CASE ~ub /\ Wake
    BY <1>9 DEF Wake, SwitchStep
<1>10. CASE ~ub /\ Memset
    BY <1>10 DEF Memset, SwitchStep
<1>11. CASE ~ub /\ DeleteCa
    BY <1>11 DEF DeleteCa, SwitchStep, Copied
<1>12. CASE ~ub /\ NewCa
    BY <1>12 DEF NewCa, SwitchStep
<1>13. CASE ~ub /\ OpenCa
    BY <1>13 DEF OpenCa, SwitchStep
<1>14. CASE ~ub /\ LockCurrent
    BY <1>14 DEF LockCurrent, SwitchStep
<1>15. CASE ~ub /\ LockStandby
    BY <1>15 DEF LockStandby, SwitchStep
<1>16. CASE ~ub /\ Swap
    BY <1>16 DEF Swap, SwitchStep
<1>17. CASE ~ub /\ UnlockStandby
    BY <1>17 DEF UnlockStandby, SwitchStep
<1>18. CASE ~ub /\ UnlockCurrent
    BY <1>18 DEF UnlockCurrent, SwitchStep
<1>19. CASE ~ub /\ FlagCurrent
    BY <1>19 DEF FlagCurrent, SwitchStep
<1>20. CASE ~ub /\ FlagStandby
    BY <1>20 DEF FlagStandby, SwitchStep
<1>21. CASE ~ub /\ MapOpen
    BY <1>21 DEF MapOpen, SwitchStep
<1>22. CASE ~ub /\ MapOpenFails
    BY <1>22 DEF MapOpenFails, SwitchStep, InFlight
<1>23. CASE ~ub /\ MapWrite
    BY <1>23 DEF MapWrite, SwitchStep, InFlight
<1>24. CASE ~ub /\ MapWriteFails
    BY <1>24 DEF MapWriteFails, SwitchStep, InFlight
<1>25. CASE UNCHANGED vars
    BY <1>25
<1> QED
    BY <1>1, <1>2, <1>3, <1>4, <1>5, <1>6, <1>7, <1>8, <1>9, <1>10, <1>11, <1>12, <1>13, <1>14, <1>15, <1>16, <1>17, <1>18, <1>19, <1>20, <1>21, <1>22, <1>23, <1>24, <1>25 DEF Next, Writer, SwitchThread, Stopped

\* Every step keeps the accounts right as long as no adder outlives a sleep.
LEMMA PromptStep == TypeOK /\ LockInv /\ RoleInv /\ PromptInv /\ [Next]_vars => PromptInv'
<1> SUFFICES ASSUME TypeOK, LockInv, RoleInv, PromptInv, [Next]_vars PROVE PromptInv'
    OBVIOUS
<1> USE ShmsDistinct, OwnersDistinct, NoneDistinct, WritersAssumption DEF TypeOK, LockInv, RoleInv, PromptInv, Shms, WriterPcs, SwitchPcs, Critical, Exchanged, Resetting, MayLag, vars, pairVars, poolVars, roleVars, writerVars, histVars
<1>1. ASSUME NEW w \in Writers, NEW k \in Keys, ~ub, GetCurrent(w, k) PROVE PromptInv'
    BY <1>1 DEF GetCurrent
<1>2. ASSUME NEW w \in Writers, ~ub, ReadCa(w) PROVE PromptInv'
    BY <1>2 DEF ReadCa
<1>3. ASSUME NEW w \in Writers, ~ub, LockShm(w) PROVE PromptInv'
    BY <1>3 DEF LockShm
<1>4. ASSUME NEW w \in Writers, ~ub, Find(w) PROVE PromptInv'
    BY <1>4 DEF Find, Sound
<1>5. ASSUME NEW w \in Writers, ~ub, Insert(w) PROVE PromptInv'
    BY <1>5 DEF Insert, Sound, Store
<1>6. ASSUME NEW w \in Writers, ~ub, Update(w) PROVE PromptInv'
  <2> SUFFICES ASSUME ~overrun' PROVE PromptInv!2'
      OBVIOUS
  <2>1. /\ ~overrun /\ overrun' = overrun /\ wpc[w] = "update"
        /\ ref[w] \in Shms /\ key[w] \in Keys /\ mem = added
        /\ wpc' = [wpc EXCEPT ![w] = "unlock"]
        /\ UNCHANGED <<standby, swPc, ref, key, entry, dangling, ub, old>>
      BY <1>6 DEF Update
  <2>2. mem' = added'
    <3>1. entry[w] + 1 = added[ref[w]][key[w]] + 1
        BY <2>1
    <3> QED
        BY <1>6, <2>1, <3>1 DEF Update, Store
  <2>3. \A v \in Writers : v # w /\ wpc[v] \in Critical =>
                             mem'[ref[v]][key[v]] = mem[ref[v]][key[v]]
      BY <1>6, <2>1 DEF Update, Store
  <2> QED
      BY <2>1, <2>2, <2>3
<1>7. ASSUME NEW w \in Writers, ~ub, UnlockShm(w) PROVE PromptInv'
    BY <1>7 DEF UnlockShm
<1>8. ASSUME NEW w \in Writers, ~ub, UndefinedAccess(w) PROVE PromptInv'
    BY <1>8 DEF UndefinedAccess, Sound, Accessing
<1>9. CASE ~ub /\ Wake
    BY <1>9 DEF Wake, SwitchStep
<1>10. CASE ~ub /\ Memset
    BY <1>10 DEF Memset, SwitchStep
<1>11. CASE ~ub /\ DeleteCa
    BY <1>11 DEF DeleteCa, SwitchStep, Copied
<1>12. CASE ~ub /\ NewCa
    BY <1>12 DEF NewCa, SwitchStep
<1>13. CASE ~ub /\ OpenCa
    BY <1>13 DEF OpenCa, SwitchStep
<1>14. CASE ~ub /\ LockCurrent
    BY <1>14 DEF LockCurrent, SwitchStep
<1>15. CASE ~ub /\ LockStandby
    BY <1>15 DEF LockStandby, SwitchStep
<1>16. CASE ~ub /\ Swap
    BY <1>16 DEF Swap, SwitchStep
<1>17. CASE ~ub /\ UnlockStandby
    BY <1>17 DEF UnlockStandby, SwitchStep
<1>18. CASE ~ub /\ UnlockCurrent
    BY <1>18 DEF UnlockCurrent, SwitchStep
<1>19. CASE ~ub /\ FlagCurrent
    BY <1>19 DEF FlagCurrent, SwitchStep
<1>20. CASE ~ub /\ FlagStandby
    BY <1>20 DEF FlagStandby, SwitchStep
<1>21. CASE ~ub /\ MapOpen
    BY <1>21 DEF MapOpen, SwitchStep
<1>22. CASE ~ub /\ MapOpenFails
    BY <1>22 DEF MapOpenFails, SwitchStep, InFlight
<1>23. CASE ~ub /\ MapWrite
    BY <1>23 DEF MapWrite, SwitchStep, InFlight
<1>24. CASE ~ub /\ MapWriteFails
    BY <1>24 DEF MapWriteFails, SwitchStep, InFlight
<1>25. CASE UNCHANGED vars
    BY <1>25
<1> QED
    BY <1>1, <1>2, <1>3, <1>4, <1>5, <1>6, <1>7, <1>8, <1>9, <1>10, <1>11, <1>12, <1>13, <1>14, <1>15, <1>16, <1>17, <1>18, <1>19, <1>20, <1>21, <1>22, <1>23, <1>24, <1>25 DEF Next, Writer, SwitchThread, Stopped

-----------------------------------------------------------------------------
\* The invariant holds when cdb_init_shm_mgr has finished.
LEMMA InitInv == Init => Inv
<1> SUFFICES ASSUME Init PROVE Inv
    OBVIOUS
<1> USE ShmsDistinct, OwnersDistinct, NoneDistinct, BoundsAreNat DEF Init, Shms
<1>1. TypeOK
  <2>1. mem \in [Shms -> [Keys -> Nat]]
    <3>1. mem \in [{Shm1, Shm2} -> [Keys -> 0..MaxLeftover]]
        OBVIOUS
    <3>2. \A n \in 0..MaxLeftover : n \in Nat
        OBVIOUS
    <3> QED
        BY <3>1, <3>2
  <2> QED
      BY <2>1 DEF TypeOK, WriterPcs, SwitchPcs
<1>2. LockInv
    BY DEF LockInv, Critical
<1>3. RoleInv
    BY DEF RoleInv, Exchanged, Resetting
<1>4. PromptInv
    BY DEF PromptInv, MayLag
<1> QED
    BY <1>1, <1>2, <1>3, <1>4 DEF Inv

\* The invariant is inductive: every reachable state of the pair satisfies it.
THEOREM Invariance == Spec => []Inv
<1>1. Inv /\ [Next]_vars => Inv'
    BY TypeStep, LockStep, RoleStep, PromptStep DEF Inv
<1> QED
    BY InitInv, <1>1, PTL DEF Spec

\* Type correctness of the pair.
THEOREM TypeCorrect == Spec => []TypeOK
<1>1. Inv => TypeOK
    BY DEF Inv
<1> QED
    BY Invariance, <1>1, PTL

\* One thread per pool mutex, and no adder inside a pool while switch_shm
\* exchanges _current and _standby, for any number of adders.
THEOREM Exclusion == Spec => []MutualExclusion
<1>1. Inv => MutualExclusion
  <2> SUFFICES ASSUME TypeOK, LockInv PROVE MutualExclusion
      BY DEF Inv
  <2>1. ASSUME NEW v \in Writers, NEW w \in Writers, v # w,
               wpc[v] \in Critical, wpc[w] \in Critical
        PROVE  ref[v] # ref[w]
      BY <2>1 DEF LockInv
  <2>2. ASSUME swPc = "swap", NEW w \in Writers, wpc[w] \in Critical PROVE FALSE
    <3>1. ref[w] \in Shms /\ lock[ref[w]] = w
        BY <2>2 DEF LockInv, Critical
    <3>2. lock[current] = Switcher /\ lock[standby] = Switcher /\ Shms = {current, standby}
        BY <2>2 DEF LockInv, TypeOK, Shms
    <3> QED
        BY <3>1, <3>2, OwnersDistinct
  <2> QED
      BY <2>1, <2>2 DEF MutualExclusion
<1> QED
    BY Invariance, <1>1, PTL

\* No sample is lost or counted twice while every add ends within a period.
THEOREM Accounts == Spec => []NoLostUpdate
<1>1. Inv => NoLostUpdate
    BY DEF Inv, PromptInv, NoLostUpdate
<1> QED
    BY Invariance, <1>1, PTL

\* No adder meets the reset, which takes no lock, while every add ends within
\* a period.
THEOREM PromptSafety == Spec => []PromptAddsAreSafe
<1>1. Inv => PromptAddsAreSafe
    BY DEF Inv, PromptInv, PromptAddsAreSafe
<1> QED
    BY Invariance, <1>1, PTL

\* The counts of the period being collected only grow while every add ends
\* within a period: the reset spares the current pool.
THEOREM Growth == Spec => CurrentOnlyGrows
<1> DEFINE Grows == ~overrun' => \A k \in Keys : mem'[current][k] >= mem[current][k]
<1>1. Inv /\ [Next]_vars => [Grows]_vars
  <2> SUFFICES ASSUME Inv, Next, ~overrun', NEW k \in Keys
               PROVE  mem'[current][k] >= mem[current][k]
      BY DEF Grows
  <2> USE DEF Inv, TypeOK, vars, pairVars, poolVars, roleVars, writerVars, histVars
  <2>1. current \in Shms /\ mem[current][k] \in Nat
      OBVIOUS
  <2>2. ASSUME NEW w \in Writers, Insert(w) PROVE mem'[current][k] >= mem[current][k]
      BY <2>1, <2>2 DEF Insert, Store, PromptInv, LockInv
  <2>3. ASSUME NEW w \in Writers, Update(w) PROVE mem'[current][k] >= mem[current][k]
      BY <2>1, <2>3 DEF Update, Store, PromptInv, LockInv
  <2>4. CASE Memset
      BY <2>1, <2>4 DEF Memset, LockInv
  <2>5. CASE mem' = mem
      BY <2>1, <2>5
  <2> QED
      BY <2>2, <2>3, <2>4, <2>5
      DEF Next, Writer, SwitchThread, Stopped, GetCurrent, ReadCa, LockShm, Find, UnlockShm,
          UndefinedAccess, Wake, DeleteCa, NewCa, OpenCa, LockCurrent, LockStandby, Swap,
          UnlockStandby, UnlockCurrent, FlagCurrent, FlagStandby, MapOpen, MapOpenFails, MapWrite,
          MapWriteFails
<1> QED
    BY Invariance, <1>1, PTL DEF Spec, CurrentOnlyGrows

\* The name in the map file, if the flag of the pool it names is clear, is that
\* of the standby pool, but for the moment between exchange and first flag.
THEOREM UnwarnedRead == Spec => []UnwarnedReadIsStandby
<1>1. Inv => UnwarnedReadIsStandby
    BY DEF Inv, LockInv, RoleInv, TypeOK, Shms, UnwarnedReadIsStandby
<1> QED
    BY Invariance, <1>1, PTL

-----------------------------------------------------------------------------
(* The dump.                                                               *)

\* The standby pool has been cleared and adders of an earlier period may be in it.
Cleared == {"delete", "new", "open", "lock_current", "lock_standby"}

FreshInv ==
    \A w \in Writers :
        ~(ref[w] = standby /\ swPc \in Cleared) =>
            /\ wpc[w] = "insert" => mem[ref[w]][key[w]] = 0
            /\ wpc[w] = "update" => entry[w] = mem[ref[w]][key[w]]

Named == {"check", "copy", "print"}

ToolInv ==
    /\ rpc \in {"idle", "parse"} \cup Named
    /\ name \in Shms \cup {None}
    /\ warned \in BOOLEAN /\ quiet \in BOOLEAN /\ asleep \in BOOLEAN /\ torn \in BOOLEAN
    /\ copy \in [Keys -> Nat] /\ first \in [Keys -> Nat]
    /\ todo \subseteq Keys
    /\ rpc \in Named => name \in Shms
    /\ rpc = "print" => todo = {}
    /\ rpc \notin {"copy", "print"} => ~torn

SleepInv ==
    /\ asleep => swPc = "sleep"
    /\ asleep /\ rpc \in Named => \A k \in Keys : first[k] <= mem[name][k]
    /\ asleep /\ rpc \in Named /\ quiet /\ name = standby => \A w \in Writers : ref[w] # name
    /\ asleep /\ rpc \in {"copy", "print"} =>
         /\ ~warned => name = standby
         /\ \A k \in Keys \ todo : first[k] <= copy[k] /\ copy[k] <= mem[name][k]
         /\ quiet /\ name = standby => ~torn /\ \A k \in Keys \ todo : copy[k] = mem[name][k]

DumpInv == Inv /\ FreshInv /\ ToolInv /\ SleepInv

-----------------------------------------------------------------------------
\* Nobody stores into a pool between the find and the store of another adder.
LEMMA FreshStep ==
    ASSUME TypeOK, LockInv, FreshInv, [Next]_vars
    PROVE  FreshInv'
<1> USE ShmsDistinct, OwnersDistinct, NoneDistinct DEF TypeOK, LockInv, Shms, WriterPcs, SwitchPcs, Critical, Accessing, vars, pairVars, poolVars, roleVars, writerVars, histVars, FreshInv, Cleared
<1>1. ASSUME NEW w \in Writers, NEW k \in Keys, ~ub, GetCurrent(w, k) PROVE FreshInv'
    BY <1>1 DEF GetCurrent
<1>2. ASSUME NEW w \in Writers, ~ub, ReadCa(w) PROVE FreshInv'
    BY <1>2 DEF ReadCa
<1>3. ASSUME NEW w \in Writers, ~ub, LockShm(w) PROVE FreshInv'
    BY <1>3 DEF LockShm
<1>4. ASSUME NEW w \in Writers, ~ub, Find(w) PROVE FreshInv'
    BY <1>4 DEF Find, Sound
<1>5. ASSUME NEW w \in Writers, ~ub, Insert(w) PROVE FreshInv'
    BY <1>5 DEF Insert, Sound, Store
<1>6. ASSUME NEW w \in Writers, ~ub, Update(w) PROVE FreshInv'
    BY <1>6 DEF Update, Sound, Store
<1>7. ASSUME NEW w \in Writers, ~ub, UnlockShm(w) PROVE FreshInv'
    BY <1>7 DEF UnlockShm
<1>8. ASSUME NEW w \in Writers, ~ub, UndefinedAccess(w) PROVE FreshInv'
    BY <1>8 DEF UndefinedAccess, Sound, Accessing
<1>9. CASE ~ub /\ Wake
    BY <1>9 DEF Wake, SwitchStep
<1>10. CASE ~ub /\ Memset
    BY <1>10 DEF Memset, SwitchStep
<1>11. CASE ~ub /\ DeleteCa
    BY <1>11 DEF DeleteCa, SwitchStep, Copied
<1>12. CASE ~ub /\ NewCa
    BY <1>12 DEF NewCa, SwitchStep
<1>13. CASE ~ub /\ OpenCa
    BY <1>13 DEF OpenCa, SwitchStep
<1>14. CASE ~ub /\ LockCurrent
    BY <1>14 DEF LockCurrent, SwitchStep
<1>15. CASE ~ub /\ LockStandby
    BY <1>15 DEF LockStandby, SwitchStep
<1>16. CASE ~ub /\ Swap
    BY <1>16 DEF Swap, SwitchStep
<1>17. CASE ~ub /\ UnlockStandby
    BY <1>17 DEF UnlockStandby, SwitchStep
<1>18. CASE ~ub /\ UnlockCurrent
    BY <1>18 DEF UnlockCurrent, SwitchStep
<1>19. CASE ~ub /\ FlagCurrent
    BY <1>19 DEF FlagCurrent, SwitchStep
<1>20. CASE ~ub /\ FlagStandby
    BY <1>20 DEF FlagStandby, SwitchStep
<1>21. CASE ~ub /\ MapOpen
    BY <1>21 DEF MapOpen, SwitchStep
<1>22. CASE ~ub /\ MapOpenFails
    BY <1>22 DEF MapOpenFails, SwitchStep, InFlight
<1>23. CASE ~ub /\ MapWrite
    BY <1>23 DEF MapWrite, SwitchStep, InFlight
<1>24. CASE ~ub /\ MapWriteFails
    BY <1>24 DEF MapWriteFails, SwitchStep, InFlight
<1>25. CASE UNCHANGED vars
    BY <1>25
<1> QED
    BY <1>1, <1>2, <1>3, <1>4, <1>5, <1>6, <1>7, <1>8, <1>9, <1>10, <1>11, <1>12, <1>13, <1>14, <1>15, <1>16, <1>17, <1>18, <1>19, <1>20, <1>21, <1>22, <1>23, <1>24, <1>25 DEF Next, Writer, SwitchThread, Stopped

\* What the steps of mysqld do while the switch thread sleeps.
SleepStep ==
    /\ UNCHANGED pairVars
    /\ \A s \in Shms, k \in Keys : mem[s][k] <= mem'[s][k]
    /\ \A w \in Writers : ref'[w] \in {ref[w], current, None}
    /\ \A s \in Shms : (\A w \in Writers : ref[w] # s) => mem'[s] = mem[s]

\* While the switch thread sleeps counts grow, in pools that adders refer to.
LEMMA AsleepStep ==
    ASSUME TypeOK, LockInv, FreshInv, swPc = "sleep", swPc' = "sleep", [Next]_vars
    PROVE  SleepStep
<1> USE ShmsDistinct, OwnersDistinct, NoneDistinct DEF TypeOK, LockInv, Shms, WriterPcs, SwitchPcs, Critical, Accessing, vars, pairVars, poolVars, roleVars, writerVars, histVars, FreshInv, Cleared, SleepStep
<1>1. ASSUME NEW w \in Writers, NEW k \in Keys, ~ub, GetCurrent(w, k) PROVE SleepStep
    BY <1>1 DEF GetCurrent
<1>2. ASSUME NEW w \in Writers, ~ub, ReadCa(w) PROVE SleepStep
    BY <1>2 DEF ReadCa
<1>3. ASSUME NEW w \in Writers, ~ub, LockShm(w) PROVE SleepStep
    BY <1>3 DEF LockShm
<1>4. ASSUME NEW w \in Writers, ~ub, Find(w) PROVE SleepStep
    BY <1>4 DEF Find, Sound
<1>5. ASSUME NEW w \in Writers, ~ub, Insert(w) PROVE SleepStep
    BY <1>5 DEF Insert, Sound, Store
<1>6. ASSUME NEW w \in Writers, ~ub, Update(w) PROVE SleepStep
    BY <1>6 DEF Update, Sound, Store
<1>7. ASSUME NEW w \in Writers, ~ub, UnlockShm(w) PROVE SleepStep
    BY <1>7 DEF UnlockShm
<1>8. ASSUME NEW w \in Writers, ~ub, UndefinedAccess(w) PROVE SleepStep
    BY <1>8 DEF UndefinedAccess, Sound, Accessing
<1>9. CASE ~ub /\ Wake
    BY <1>9 DEF Wake, SwitchStep
<1>10. CASE ~ub /\ Memset
    BY <1>10 DEF Memset, SwitchStep
<1>11. CASE ~ub /\ DeleteCa
    BY <1>11 DEF DeleteCa, SwitchStep, Copied
<1>12. CASE ~ub /\ NewCa
    BY <1>12 DEF NewCa, SwitchStep
<1>13. CASE ~ub /\ OpenCa
    BY <1>13 DEF OpenCa, SwitchStep
<1>14. CASE ~ub /\ LockCurrent
    BY <1>14 DEF LockCurrent, SwitchStep
<1>15. CASE ~ub /\ LockStandby
    BY <1>15 DEF LockStandby, SwitchStep
<1>16. CASE ~ub /\ Swap
    BY <1>16 DEF Swap, SwitchStep
<1>17. CASE ~ub /\ UnlockStandby
    BY <1>17 DEF UnlockStandby, SwitchStep
<1>18. CASE ~ub /\ UnlockCurrent
    BY <1>18 DEF UnlockCurrent, SwitchStep
<1>19. CASE ~ub /\ FlagCurrent
    BY <1>19 DEF FlagCurrent, SwitchStep
<1>20. CASE ~ub /\ FlagStandby
    BY <1>20 DEF FlagStandby, SwitchStep
<1>21. CASE ~ub /\ MapOpen
    BY <1>21 DEF MapOpen, SwitchStep
<1>22. CASE ~ub /\ MapOpenFails
    BY <1>22 DEF MapOpenFails, SwitchStep, InFlight
<1>23. CASE ~ub /\ MapWrite
    BY <1>23 DEF MapWrite, SwitchStep, InFlight
<1>24. CASE ~ub /\ MapWriteFails
    BY <1>24 DEF MapWriteFails, SwitchStep, InFlight
<1>25. CASE UNCHANGED vars
    BY <1>25
<1> QED
    BY <1>1, <1>2, <1>3, <1>4, <1>5, <1>6, <1>7, <1>8, <1>9, <1>10, <1>11, <1>12, <1>13, <1>14, <1>15, <1>16, <1>17, <1>18, <1>19, <1>20, <1>21, <1>22, <1>23, <1>24, <1>25 DEF Next, Writer, SwitchThread, Stopped

-----------------------------------------------------------------------------
\* A step of mysqld leaves what the tool knows true.
LEMMA MysqldStep ==
    ASSUME DumpInv, Mysqld
    PROVE  Inv' /\ FreshInv' /\ ToolInv' /\ SleepInv'
<1>1. Inv' /\ FreshInv'
    BY TypeStep, LockStep, RoleStep, PromptStep, FreshStep DEF Mysqld, DumpInv, Inv
<1>2. /\ UNCHANGED <<rpc, name, warned, copy, todo, first, quiet>>
      /\ asleep' = (asleep /\ swPc' = "sleep")
      /\ torn' = (torn \/ (rpc = "copy" /\ todo # Keys /\ Touches(name)))
    BY DEF Mysqld, toolVars
<1>3. ToolInv'
  <2>1. asleep' \in BOOLEAN /\ torn' \in BOOLEAN /\ (rpc # "copy" => torn' = torn)
      BY <1>2, Zenon DEF DumpInv, ToolInv
  <2> QED
      BY <1>2, <2>1 DEF DumpInv, ToolInv, Named
<1> SUFFICES SleepInv'
    BY <1>1, <1>3
<1>4. CASE ~asleep'
    BY <1>4 DEF SleepInv
<1>5. CASE asleep'
  <2>1. asleep /\ swPc = "sleep" /\ swPc' = "sleep"
      BY <1>2, <1>5 DEF DumpInv, SleepInv
  <2>2. SleepStep /\ mem \in [Shms -> [Keys -> Nat]] /\ mem' \in [Shms -> [Keys -> Nat]]
      BY <1>1, <2>1, AsleepStep DEF Mysqld, DumpInv, Inv, TypeOK
  <2>3. ASSUME rpc \in Named
        PROVE  \A k \in Keys : first[k] <= mem'[name][k]
      BY <2>1, <2>2, <2>3 DEF DumpInv, ToolInv, SleepInv, SleepStep
  <2>4. ASSUME rpc \in Named, quiet, name = standby
        PROVE  mem'[name] = mem[name] /\ \A w \in Writers : ref[w] # name /\ ref'[w] # name
    <3>1. \A w \in Writers : ref[w] # name
        BY <2>1, <2>4 DEF DumpInv, SleepInv
    <3>2. name \in Shms /\ name # current /\ name # None
        BY <2>4, NoneDistinct DEF DumpInv, ToolInv, Inv, LockInv, Shms
    <3> QED
        BY <2>2, <3>1, <3>2 DEF SleepStep
  <2>5. ASSUME rpc \in {"copy", "print"}
        PROVE  \A k \in Keys \ todo : first[k] <= copy[k] /\ copy[k] <= mem'[name][k]
    <3>1. name \in Shms
        BY <2>5 DEF DumpInv, ToolInv, Named
    <3>2. \A k \in Keys \ todo : first[k] <= copy[k] /\ copy[k] <= mem[name][k]
        BY <2>1, <2>5 DEF DumpInv, SleepInv
    <3>3. \A k \in Keys : mem[name][k] <= mem'[name][k]
        BY <2>2, <3>1 DEF SleepStep
    <3>4. \A k \in Keys : copy[k] \in Nat /\ mem[name][k] \in Nat /\ mem'[name][k] \in Nat
        BY <2>2, <3>1 DEF DumpInv, ToolInv
    <3> QED
        BY <3>2, <3>3, <3>4
  <2>6. ASSUME rpc \in {"copy", "print"}, quiet, name = standby
        PROVE  ~torn' /\ \A k \in Keys \ todo : copy[k] = mem'[name][k]
    <3>1. ~torn /\ \A k \in Keys \ todo : copy[k] = mem[name][k]
        BY <2>1, <2>6 DEF DumpInv, SleepInv
    <3>2. \A w \in Writers : ref[w] # name
        BY <2>4, <2>6 DEF Named
    <3>3. ready'[name]
        BY <1>1, <2>1, <2>6 DEF DumpInv, ToolInv, Inv, RoleInv, Resetting, Named
    <3>4. ~Touches(name)
        BY <3>2, <3>3 DEF Touches
    <3> QED
        BY <1>2, <2>4, <2>6, <3>1, <3>4 DEF Named
  <2>7. standby' = standby
      BY <2>2 DEF SleepStep, pairVars
  <2>8. rpc \in {"copy", "print"} /\ ~warned => name = standby
      BY <2>1 DEF DumpInv, SleepInv
  <2> QED
      BY <1>2, <2>1, <2>3, <2>4, <2>5, <2>6, <2>7, <2>8 DEF SleepInv, Named
<1> QED
    BY <1>4, <1>5

\* A step of the tool moves no variable of mysqld.
LEMMA ToolStep ==
    ASSUME DumpInv, Tool
    PROVE  Inv' /\ FreshInv' /\ ToolInv' /\ SleepInv'
<1>1. UNCHANGED vars
    BY DEF Tool, Attach, ParsePairMapFile, EmptyPairMapFile, CheckStandby, CopyShmData, PrintCopy
<1>2. Inv' /\ FreshInv'
  <2>1. [Next]_vars
      BY <1>1
  <2> QED
      BY <2>1, TypeStep, LockStep, RoleStep, PromptStep, FreshStep DEF DumpInv, Inv
<1> SUFFICES ToolInv' /\ SleepInv'
    BY <1>2
<1>3. /\ UNCHANGED <<standby, current, mem, ready, flag, mapFile, swPc, ref>>
      /\ mem \in [Shms -> [Keys -> Nat]]
      /\ \A s \in Shms : flag[s] \in BOOLEAN /\ ready[s] \in BOOLEAN
    BY <1>1 DEF vars, pairVars, poolVars, roleVars, writerVars, DumpInv, Inv, TypeOK
<1> USE NoneDistinct DEF ToolInv, SleepInv, Named, toolVars, dumpHist
<1>4. ToolInv /\ SleepInv /\ None \notin Shms
    BY DEF DumpInv, Shms
<1>5. CASE Attach
    BY <1>1, <1>3, <1>4, <1>5 DEF Attach
<1>6. CASE ParsePairMapFile
  <2>1. /\ mapFile \in Shms /\ first' \in [Keys -> Nat]
        /\ \A k \in Keys : mem[mapFile][k] \in Nat
      BY <1>3, <1>6 DEF ParsePairMapFile, DumpInv, Inv, TypeOK
  <2>2. /\ asleep' \in BOOLEAN /\ (asleep' => swPc = "sleep")
        /\ quiet' \in BOOLEAN /\ (quiet' => \A w \in Writers : ref[w] # mapFile)
      BY <1>6, Zenon DEF ParsePairMapFile
  <2>3. /\ rpc' = "check" /\ name' = mapFile /\ first' = mem[mapFile]
        /\ rpc = "parse" /\ UNCHANGED <<warned, copy, todo, torn>>
      BY <1>6 DEF ParsePairMapFile
  <2> QED
      BY <1>3, <1>4, <2>1, <2>2, <2>3
<1>7. CASE EmptyPairMapFile \/ PrintCopy
  <2>1. /\ rpc' = "idle" /\ name' = None /\ todo' = {} /\ copy' = NoCounts /\ first' = NoCounts
        /\ ~warned' /\ ~quiet' /\ ~asleep' /\ ~torn'
        /\ warned' \in BOOLEAN /\ quiet' \in BOOLEAN /\ asleep' \in BOOLEAN /\ torn' \in BOOLEAN
      BY <1>7, Zenon DEF EmptyPairMapFile, PrintCopy, EndOfRun
  <2>2. NoCounts \in [Keys -> Nat]
      BY DEF NoCounts
  <2> QED
      BY <2>1, <2>2
<1>8. CASE CheckStandby
  <2>1. /\ rpc = "check" /\ rpc' = "copy" /\ warned' = flag[name] /\ todo' = Keys
        /\ UNCHANGED <<name, copy, first, quiet, asleep, torn>>
      BY <1>8 DEF CheckStandby
  <2>2. asleep /\ ~flag[name] => name = standby
      BY <1>4, <2>1 DEF DumpInv, Inv, LockInv, RoleInv, TypeOK, Shms, Exchanged
  <2> QED
      BY <1>3, <1>4, <2>1, <2>2
<1>9. ASSUME NEW k \in Keys, CopyShmData(k) PROVE ToolInv' /\ SleepInv'
  <2>1. /\ rpc = "copy" /\ rpc' \in {"copy", "print"} /\ (rpc' = "print" => todo' = {})
        /\ copy' = [copy EXCEPT ![k] = mem[name][k]] /\ todo' = todo \ {k}
        /\ UNCHANGED <<name, warned, first, quiet, asleep>>
      BY <1>9 DEF CopyShmData
  <2>2. torn' \in BOOLEAN /\ (ready[name] /\ ~torn => ~torn')
      BY <1>4, <1>9, Zenon DEF CopyShmData
  <2>3. asleep => ready[name]
      BY <1>3, <1>4, <2>1 DEF DumpInv, Inv, RoleInv, Resetting
  <2>4. name \in Shms /\ mem[name][k] \in Nat
      BY <1>3, <1>4, <2>1
  <2>5. /\ copy'[k] = mem[name][k]
        /\ \A j \in Keys \ todo' : j = k \/ (j \in Keys \ todo /\ copy'[j] = copy[j])
      BY <1>4, <2>1
  <2>6. ToolInv'
      BY <1>4, <2>1, <2>2, <2>4
  <2>7. asleep => /\ \A j \in Keys \ todo' : first[j] <= copy'[j] /\ copy'[j] <= mem[name][j]
                  /\ quiet /\ name = standby => ~torn' /\ \A j \in Keys \ todo' : copy'[j] = mem[name][j]
      BY <1>3, <1>4, <2>1, <2>2, <2>3, <2>4, <2>5
  <2> QED
      BY <1>3, <1>4, <2>1, <2>6, <2>7
<1> QED
    BY <1>5, <1>6, <1>7, <1>8, <1>9 DEF Tool

\* The invariant is inductive, whatever the two processes interleave.
THEOREM DumpInvariance == DumpSpec => []DumpInv
<1>1. DumpInit => DumpInv
  <2> SUFFICES ASSUME DumpInit PROVE DumpInv
      OBVIOUS
  <2>1. Inv
      BY InitInv DEF DumpInit
  <2>2. FreshInv
      BY DEF DumpInit, Init, FreshInv
  <2>3. ToolInv /\ SleepInv
      BY DEF DumpInit, NoCounts, ToolInv, SleepInv, Named
  <2> QED
      BY <2>1, <2>2, <2>3 DEF DumpInv
<1>2. DumpInv /\ [DumpNext]_dumpVars => DumpInv'
  <2> SUFFICES ASSUME DumpInv, [DumpNext]_dumpVars PROVE DumpInv'
      OBVIOUS
  <2>1. CASE Mysqld
      BY <2>1, MysqldStep DEF DumpInv
  <2>2. CASE Tool
      BY <2>2, ToolStep DEF DumpInv
  <2>3. CASE UNCHANGED dumpVars
    <3>1. UNCHANGED vars /\ UNCHANGED <<rpc, name, warned, copy, todo, first, quiet, asleep, torn>>
        BY <2>3 DEF dumpVars, toolVars, dumpHist
    <3>2. Inv' /\ FreshInv'
        BY <3>1, TypeStep, LockStep, RoleStep, PromptStep, FreshStep DEF DumpInv, Inv
    <3>3. ToolInv' /\ SleepInv'
        BY <3>1 DEF vars, pairVars, poolVars, writerVars, DumpInv, ToolInv, SleepInv
    <3> QED
        BY <3>2, <3>3 DEF DumpInv
  <2> QED
      BY <2>1, <2>2, <2>3 DEF DumpNext
<1> QED
    BY <1>1, <1>2, PTL DEF DumpSpec

\* A dump without a warning that ran within one sleep of the switch thread is of the
\* standby pool, has every sample it found there and no sample that is not there.
THEOREM DumpOfStandby == DumpSpec => []PromptDumpIsOfStandby
<1>1. DumpInv => PromptDumpIsOfStandby
    BY DEF DumpInv, ToolInv, SleepInv, PromptDumpIsOfStandby, Named
<1> QED
    BY DumpInvariance, <1>1, PTL

\* If no adder referred to the pool when the dump began, nothing touched the pool
\* while it was copied and the copy is the pool.
THEOREM DumpIsExact == DumpSpec => []QuietDumpIsExact
<1>1. DumpInv => QuietDumpIsExact
  <2> SUFFICES ASSUME DumpInv, rpc = "print", ~warned, asleep, quiet
               PROVE  ~torn /\ copy = mem[name]
      BY DEF QuietDumpIsExact
  <2>1. name = standby /\ name \in Shms /\ todo = {}
      BY DEF DumpInv, ToolInv, SleepInv, Named
  <2>2. ~torn /\ \A k \in Keys : copy[k] = mem[name][k]
      BY <2>1 DEF DumpInv, SleepInv, Named
  <2>3. copy \in [Keys -> Nat] /\ mem[name] \in [Keys -> Nat]
      BY <2>1 DEF DumpInv, ToolInv, Inv, TypeOK
  <2> QED
      BY <2>2, <2>3
<1> QED
    BY DumpInvariance, <1>1, PTL
=============================================================================
