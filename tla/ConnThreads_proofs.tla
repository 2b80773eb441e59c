------------------------ MODULE ConnThreads_proofs ------------------------
(***************************************************************************)
(* Safety of the connection threads and of the shutdown, for any number of *)
(* threads and clients and any size of the thread cache.  The invariant:   *)
(*   PlaceInv    where each thread may be, and who has a THD there;        *)
(*   OwnerInv    a THD has one owner: the select thread, a connection      *)
(*               thread, or a place in thread_cache;                       *)
(*   CountInv    what cached_thread_count, wake_thread, thread_count and   *)
(*               connection_count count;                                   *)
(*   KillInv     what kill_server has waited for.                          *)
(* NoAdderAtCleanUp needs all of it: kill_server waits for a counter to    *)
(* reach 0, and concludes that the threads are gone.                       *)
(***************************************************************************)
EXTENDS ConnThreads, FiniteSetTheorems, SequenceTheorems, TLAPS

PlaceInv ==
    /\ \A w \in Workers :
         /\ pc[w] \in WorkerPcs
         /\ thd[w] # None <=> pc[w] \in ServingPcs
    /\ pc["main"] \in MainPcs
    /\ thd["main"] # None <=> pc["main"] \in AdmittingPcs
    /\ pc["sig"] \in SigPcs
    /\ pc["kill"] \in KillPcs
    /\ thd["sig"] = None /\ thd["kill"] = None

OwnerInv ==
    /\ \A t, u \in Threads : thd[t] # None /\ thd[t] = thd[u] => t = u
    /\ \A i, j \in 1..Len(thread_cache) : thread_cache[i] = thread_cache[j] => i = j
    /\ \A t \in Threads, i \in 1..Len(thread_cache) : thd[t] # thread_cache[i]

Cached == {w \in Workers : pc[w] = "cached"}
Unlinking == {w \in Workers : pc[w] \in {"unlink", "unlink_no_cache"}}
Admitted == IF pc["main"] \in {"add", "failed"} THEN 1 ELSE 0

CountInv ==
    /\ cached_thread_count = Cardinality(Cached)
    /\ wake_thread = Len(thread_cache)
    /\ wake_thread <= cached_thread_count
    /\ thread_count = Cardinality(Serving) + wake_thread
    /\ connection_count = thread_count - Cardinality(Unlinking) + Admitted

KillInv ==
    /\ pc["kill"] \in {"select", "mark", "close", "wait", "clean_up", "done"} =>
         cached_thread_count = 0
    /\ pc["kill"] \in {"mark", "close", "wait", "clean_up", "done"} => pc["main"] \in EndPcs
    /\ pc["kill"] \in {"clean_up", "done"} => thread_count = 0

Inv == TypeOK /\ PlaceInv /\ OwnerInv /\ CountInv /\ KillInv

---------------------------------------------------------------------------
\* The arithmetic of a uint stays in its range.
LEMMA UintFacts ==
    /\ \A n \in Nat : Inc(n) \in 0..(UintRange - 1) /\ Inc(n) \in Nat
    /\ \A n \in Nat : Dec(n) \in 0..(UintRange - 1)
    BY ConnThreadsAssumption DEF Inc, Dec

\* The threads have different names.
LEMMA Names ==
    /\ {"main", "sig", "kill"} \subseteq Threads /\ Workers \subseteq Threads
    /\ "main" \notin Workers /\ "sig" \notin Workers /\ "kill" \notin Workers
    /\ None \notin Conns /\ None \notin Workers
    BY ConnThreadsAssumption DEF Threads

\* A step is one of these.
LEMMA NextCases ==
    ASSUME [Next]_vars
    PROVE  \/ (\E c \in Conns : Accept(c)) \/ RefuseConnection \/ AdmitConnection
           \/ UseCachedThread \/ (\E w \in Workers : CreateThread(w))
           \/ CreateThreadFails \/ FailedThreadRelease \/ FailedThreadCleanUp
           \/ StopAccepting \/ SelectThreadEnds \/ BroadcastEnd \/ WaitForCleanUp
           \/ WaitForSignalThread \/ CleanUpMutexes \/ Exit
           \/ (\E w \in Workers : StartConnection(w))
           \/ (\E w \in Workers : EndConnection(w))
           \/ (\E w \in Workers : FlushThreads(w))
           \/ (\E w \in Workers : ReleaseConnection(w))
           \/ (\E w \in Workers : Unlink(w))
           \/ (\E w \in Workers : WaitInCache(w))
           \/ (\E w \in Workers : LeaveCache(w))
           \/ (\E w \in Workers : EndThread(w))
           \/ (\E t \in Threads \ {"main"} : FlushThreadCache(t))
           \/ (\E sig \in {"TERM", "HUP"} : Send(sig))
           \/ (\E sig \in {"TERM", "HUP"} : SignalHand(sig)) \/ ReadKillCached
           \/ WriteKillCached \/ WaitForSelectThread \/ MarkKilled
           \/ CloseConnections \/ WaitForThreads \/ TellMain \/ SpuriousWakeUp
           \/ UNCHANGED vars
<1> USE DEF Threads
<1>1. ASSUME NEW w \in Workers, WorkerStep(w)
      PROVE  \/ StartConnection(w) \/ ReleaseConnection(w) \/ Unlink(w) \/ WaitInCache(w)
             \/ LeaveCache(w) \/ EndThread(w)
             \/ \E t \in Threads \ {"main"} : FlushThreadCache(t)
    BY <1>1, Names, Zenon DEF WorkerStep
<1>2. ASSUME KillServer \/ SignalThread
      PROVE  \/ ReadKillCached \/ WriteKillCached \/ WaitForSelectThread \/ MarkKilled
             \/ CloseConnections \/ WaitForThreads \/ TellMain
             \/ (\E sig \in {"TERM", "HUP"} : SignalHand(sig))
             \/ \E t \in Threads \ {"main"} : FlushThreadCache(t)
    BY <1>2, Names DEF KillServer, SignalThread
<1> QED
    BY <1>1, <1>2, Zenon DEF Next, AdmissionStep, EndOfMain

\* What the counters tell of the threads.
LEMMA CountFacts ==
    ASSUME TypeOK, PlaceInv, CountInv
    PROVE  /\ IsFiniteSet(Cached) /\ IsFiniteSet(Serving) /\ IsFiniteSet(Unlinking)
           /\ Cardinality(Cached) \in Nat /\ Cardinality(Serving) \in Nat
           /\ Cardinality(Unlinking) \in Nat
           /\ cached_thread_count = 0 => Cached = {}
           /\ thread_count = 0 => Serving = {} /\ wake_thread = 0
           /\ Cardinality(Unlinking) <= Cardinality(Serving)
           /\ \A w \in Workers : pc[w] \in {"close", "close_no_cache"} =>
                                   Cardinality(Unlinking) + 1 <= Cardinality(Serving)
<1>1. IsFiniteSet(Cached) /\ IsFiniteSet(Serving) /\ IsFiniteSet(Unlinking)
  <2>1. Cached \subseteq Workers /\ Serving \subseteq Workers /\ Unlinking \subseteq Workers
      BY DEF Cached, Serving, Unlinking
  <2> QED
      BY <2>1, FS_Subset, ConnThreadsAssumption
<1>2. /\ Cardinality(Cached) \in Nat /\ Cardinality(Serving) \in Nat
      /\ Cardinality(Unlinking) \in Nat
    BY <1>1, FS_CardinalityType
<1>3. cached_thread_count = 0 => Cached = {}
    BY <1>1, FS_EmptySet DEF CountInv
<1>4. thread_count = 0 => Serving = {} /\ wake_thread = 0
  <2>1. thread_count = 0 => Cardinality(Serving) = 0 /\ wake_thread = 0
      BY <1>2 DEF CountInv, TypeOK
  <2> QED
      BY <1>1, <2>1, FS_EmptySet
<1>5. Unlinking \subseteq Serving
    BY DEF Unlinking, Serving, PlaceInv, ServingPcs
<1>6. Cardinality(Unlinking) <= Cardinality(Serving)
    BY <1>1, <1>5, FS_Subset
<1>7. ASSUME NEW w \in Workers, pc[w] \in {"close", "close_no_cache"}
      PROVE  Cardinality(Unlinking) + 1 <= Cardinality(Serving)
  <2>1. w \in Serving /\ w \notin Unlinking
      BY <1>7 DEF Unlinking, Serving, PlaceInv, ServingPcs
  <2>2. IsFiniteSet(Serving \ {w}) /\ Cardinality(Serving \ {w}) = Cardinality(Serving) - 1
      BY <1>1, <2>1, FS_RemoveElement
  <2>3. Unlinking \subseteq Serving \ {w}
      BY <1>5, <2>1
  <2>4. Cardinality(Unlinking) <= Cardinality(Serving \ {w})
      BY <2>2, <2>3, FS_Subset
  <2> QED
      BY <1>2, <2>2, <2>4
<1> QED
    BY <1>1, <1>2, <1>3, <1>4, <1>6, <1>7

\* A thread that leaves the cache with a THD takes the first one that waits.
LEMMA QueueFacts ==
    ASSUME TypeOK, CountInv, wake_thread > 0
    PROVE  /\ Head(thread_cache) = thread_cache[1] /\ thread_cache[1] \in Conns
           /\ Tail(thread_cache) \in Seq(Conns)
           /\ Len(Tail(thread_cache)) = Len(thread_cache) - 1
           /\ Len(thread_cache) \in Nat /\ Len(thread_cache) > 0
           /\ \A i \in 1..Len(Tail(thread_cache)) :
                i + 1 \in 1..Len(thread_cache) /\ Tail(thread_cache)[i] = thread_cache[i + 1]
    BY DEF TypeOK, CountInv

\* What such a thread does, but for the condition variables.
Takes(w) ==
    /\ pc[w] = "cached" /\ pc' = [pc EXCEPT ![w] = "serve"]
    /\ cached_thread_count' = cached_thread_count - 1
    /\ wake_thread' = wake_thread - 1
    /\ thread_cache' = Tail(thread_cache)
    /\ thd' = [thd EXCEPT ![w] = thread_cache[1]]
    /\ threads' = threads \union {thread_cache[1]}
    /\ holder' = None
    /\ UNCHANGED <<killed, kill_cached_threads, thread_count, connection_count, reg,
                   pending, flushes>>

\* A thread that leaves the cache while a THD waits takes it.
LEMMA TakeFacts ==
    ASSUME TypeOK, CountInv, NEW w \in Workers, LeaveCache(w), wake_thread > 0
    PROVE  Takes(w)
    BY QueueFacts DEF LeaveCache, InCacheLoop, Goto, counts, signals, Takes

\* Every step keeps each thread where it may be.
LEMMA PlaceStep ==
    ASSUME TypeOK, PlaceInv, CountInv, [Next]_vars
    PROVE  PlaceInv'
<1> USE Names, ConnThreadsAssumption
       DEF Goto, vars, conns, cache, counts, signals, TypeOK, PlaceInv, ServingPcs,
           WorkerPcs, AdmittingPcs, EndPcs, MainPcs, SigPcs, KillPcs, abort_loop,
           cleanup_done
<1>1. ASSUME NEW c \in Conns, Accept(c) PROVE PlaceInv'
    BY <1>1 DEF Accept, Busy
<1>2. CASE RefuseConnection
    BY <1>2 DEF RefuseConnection
<1>3. CASE AdmitConnection
    BY <1>3 DEF AdmitConnection
<1>4. CASE UseCachedThread
    BY <1>4 DEF UseCachedThread, Signal
<1>5. ASSUME NEW w \in Workers, CreateThread(w) PROVE PlaceInv'
    BY <1>5 DEF CreateThread
<1>6. CASE CreateThreadFails
    BY <1>6 DEF CreateThreadFails
<1>7. CASE FailedThreadRelease
    BY <1>7 DEF FailedThreadRelease
<1>8. CASE FailedThreadCleanUp
    BY <1>8 DEF FailedThreadCleanUp
<1>9. CASE StopAccepting
    BY <1>9 DEF StopAccepting
<1>10. CASE SelectThreadEnds
    BY <1>10 DEF SelectThreadEnds
<1>11. CASE BroadcastEnd
    BY <1>11 DEF BroadcastEnd, Broadcast
<1>12. CASE WaitForCleanUp
    BY <1>12 DEF WaitForCleanUp, Wait, Awake
<1>13. CASE WaitForSignalThread
    BY <1>13 DEF WaitForSignalThread
<1>14. CASE CleanUpMutexes
    BY <1>14 DEF CleanUpMutexes
<1>15. CASE Exit
    BY <1>15 DEF Exit
<1>16. ASSUME NEW w \in Workers, StartConnection(w) PROVE PlaceInv'
    BY <1>16 DEF StartConnection, WorkerGoto
<1>17. ASSUME NEW w \in Workers, EndConnection(w) PROVE PlaceInv'
    BY <1>17 DEF EndConnection, WorkerGoto
<1>18. ASSUME NEW w \in Workers, FlushThreads(w) PROVE PlaceInv'
    BY <1>18 DEF FlushThreads, WorkerGoto
<1>19. ASSUME NEW w \in Workers, ReleaseConnection(w) PROVE PlaceInv'
    BY <1>19 DEF ReleaseConnection
<1>20. ASSUME NEW w \in Workers, Unlink(w) PROVE PlaceInv'
    BY <1>20 DEF Unlink, MayCache
<1>21. ASSUME NEW w \in Workers, WaitInCache(w) PROVE PlaceInv'
    BY <1>21 DEF WaitInCache, InCacheLoop, Wait
<1>22. ASSUME NEW w \in Workers, LeaveCache(w) PROVE PlaceInv'
  <2>1. CASE wake_thread > 0
      BY <1>22, <2>1, QueueFacts DEF LeaveCache, InCacheLoop
  <2>2. CASE wake_thread = 0
      BY <1>22, <2>2 DEF LeaveCache, InCacheLoop
  <2> QED
      BY <1>22, <2>1, <2>2 DEF LeaveCache
<1>23. ASSUME NEW w \in Workers, EndThread(w) PROVE PlaceInv'
    BY <1>23 DEF EndThread, Broadcast
<1>24. ASSUME NEW t \in Threads \ {"main"}, FlushThreadCache(t) PROVE PlaceInv'
    BY <1>24 DEF FlushThreadCache, AfterFlush
<1>25. ASSUME NEW sig \in {"TERM", "HUP"}, Send(sig) PROVE PlaceInv'
    BY <1>25 DEF Send
<1>26. ASSUME NEW sig \in {"TERM", "HUP"}, SignalHand(sig) PROVE PlaceInv'
    BY <1>26 DEF SignalHand, cleanup_done
<1>27. CASE ReadKillCached
    BY <1>27 DEF ReadKillCached
<1>28. CASE WriteKillCached
    BY <1>28 DEF WriteKillCached
<1>29. CASE WaitForSelectThread
    BY <1>29 DEF WaitForSelectThread, select_thread_in_use
<1>30. CASE MarkKilled
    BY <1>30 DEF MarkKilled
<1>31. CASE CloseConnections
    BY <1>31 DEF CloseConnections
<1>32. CASE WaitForThreads
    BY <1>32 DEF WaitForThreads, Wait, Awake
<1>33. CASE TellMain
    BY <1>33 DEF TellMain, Broadcast
<1>34. CASE SpuriousWakeUp
    BY <1>34 DEF SpuriousWakeUp
<1>35. CASE UNCHANGED vars
    BY <1>35
<1> QED
    BY NextCases, <1>1, <1>2, <1>3, <1>4, <1>5, <1>6, <1>7, <1>8, <1>9, <1>10, <1>11,
       <1>12, <1>13, <1>14, <1>15, <1>16, <1>17, <1>18, <1>19, <1>20, <1>21, <1>22, <1>23,
       <1>24, <1>25, <1>26, <1>27, <1>28, <1>29, <1>30, <1>31, <1>32, <1>33, <1>34, <1>35

\* Every step keeps the types; a counter that goes down was not 0.
LEMMA TypeStep ==
    ASSUME TypeOK, PlaceInv, CountInv, [Next]_vars
    PROVE  TypeOK'
<1> USE Names, ConnThreadsAssumption
       DEF Goto, vars, conns, cache, counts, signals, TypeOK, ServingPcs, WorkerPcs,
           AdmittingPcs, EndPcs, MainPcs, SigPcs, KillPcs, abort_loop, cleanup_done,
           Conds, Unlocked, Awake
<1>1. ASSUME NEW c \in Conns, Accept(c) PROVE TypeOK'
    BY <1>1 DEF Accept, Busy
<1>2. CASE RefuseConnection
    BY <1>2 DEF RefuseConnection
<1>3. CASE AdmitConnection
    BY <1>3 DEF AdmitConnection
<1>4. CASE UseCachedThread
  <2>1. thd["main"] \in Conns
      BY <1>4 DEF UseCachedThread, PlaceInv
  <2>2. thread_cache' \in Seq(Conns)
      BY <1>4, <2>1 DEF UseCachedThread
  <2>3. waiting' \in [Conds -> SUBSET Threads]
      BY <1>4 DEF UseCachedThread, Signal
  <2> QED
      BY <1>4, <2>1, <2>2, <2>3 DEF UseCachedThread
<1>5. ASSUME NEW w \in Workers, CreateThread(w) PROVE TypeOK'
  <2>1. thd["main"] \in Conns
      BY <1>5 DEF CreateThread, PlaceInv
  <2> QED
      BY <1>5, <2>1 DEF CreateThread
<1>6. CASE CreateThreadFails
  <2>1. thd["main"] \in Conns
      BY <1>6 DEF CreateThreadFails, PlaceInv
  <2> QED
      BY <1>6, <2>1 DEF CreateThreadFails
<1>7. CASE FailedThreadRelease
  <2>1. connection_count - 1 \in Nat
      BY <1>7, CountFacts DEF FailedThreadRelease, CountInv, Admitted
  <2> QED
      BY <1>7, <2>1 DEF FailedThreadRelease
<1>8. CASE FailedThreadCleanUp
    BY <1>8 DEF FailedThreadCleanUp
<1>9. CASE StopAccepting
    BY <1>9 DEF StopAccepting
<1>10. CASE SelectThreadEnds
    BY <1>10 DEF SelectThreadEnds
<1>11. CASE BroadcastEnd
    BY <1>11 DEF BroadcastEnd, Broadcast
<1>12. CASE WaitForCleanUp
    BY <1>12 DEF WaitForCleanUp, Wait, Awake
<1>13. CASE WaitForSignalThread
    BY <1>13 DEF WaitForSignalThread
<1>14. CASE CleanUpMutexes
    BY <1>14 DEF CleanUpMutexes
<1>15. CASE Exit
    BY <1>15 DEF Exit
<1>16. ASSUME NEW w \in Workers, StartConnection(w) PROVE TypeOK'
    BY <1>16 DEF StartConnection, WorkerGoto
<1>17. ASSUME NEW w \in Workers, EndConnection(w) PROVE TypeOK'
    BY <1>17 DEF EndConnection, WorkerGoto
<1>18. ASSUME NEW w \in Workers, FlushThreads(w) PROVE TypeOK'
    BY <1>18 DEF FlushThreads, WorkerGoto
<1>19. ASSUME NEW w \in Workers, ReleaseConnection(w) PROVE TypeOK'
  <2>1. Cardinality(Unlinking) + 1 <= Cardinality(Serving)
        /\ Cardinality(Unlinking) \in Nat /\ Cardinality(Serving) \in Nat
      BY <1>19, CountFacts DEF ReleaseConnection
  <2>2. connection_count >= 1
      BY <2>1 DEF CountInv, Admitted
  <2> QED
      BY <1>19, <2>2 DEF ReleaseConnection
<1>20. ASSUME NEW w \in Workers, Unlink(w) PROVE TypeOK'
  <2>1. thread_count - 1 \in Nat
      BY <1>20, CountFacts DEF Unlink, Serving, PlaceInv
  <2>2. cached_thread_count' \in 0..thread_cache_size
      BY <1>20 DEF Unlink, MayCache
  <2> QED
      BY <1>20, <2>1, <2>2 DEF Unlink
<1>21. ASSUME NEW w \in Workers, WaitInCache(w) PROVE TypeOK'
    BY <1>21 DEF WaitInCache, InCacheLoop, Wait
<1>22. ASSUME NEW w \in Workers, LeaveCache(w) PROVE TypeOK'
  <2>1. cached_thread_count - 1 \in 0..thread_cache_size
      BY <1>22, CountFacts DEF LeaveCache, InCacheLoop, Cached
  <2>2. waiting' \in [Conds -> SUBSET Threads]
      BY <1>22 DEF LeaveCache, Signal
  <2>3. CASE wake_thread > 0
    <3>1. thread_cache[1] \in Conns /\ Tail(thread_cache) \in Seq(Conns)
        BY <2>3, QueueFacts
    <3>2. Takes(w)
        BY <1>22, <2>3, TakeFacts, Zenon
    <3> QED
        BY <2>1, <2>2, <2>3, <3>1, <3>2 DEF Takes
  <2>4. CASE wake_thread = 0
      BY <1>22, <2>1, <2>2, <2>4 DEF LeaveCache
  <2> QED
      BY <1>22, <2>3, <2>4 DEF LeaveCache
<1>23. ASSUME NEW w \in Workers, EndThread(w) PROVE TypeOK'
    BY <1>23 DEF EndThread, Broadcast
<1>24. ASSUME NEW t \in Threads \ {"main"}, FlushThreadCache(t) PROVE TypeOK'
  <2> DEFINE kct == IF pc[t] = "flush" THEN Inc(kill_cached_threads) ELSE kill_cached_threads
  <2>1. kill_cached_threads \in Nat /\ UintRange \in Nat
      OBVIOUS
  <2>2. kct \in 0..(UintRange - 1) /\ kct \in Nat
      BY <2>1, UintFacts
  <2>3. Dec(kct) \in 0..(UintRange - 1)
      BY <2>2, UintFacts
  <2>4. kill_cached_threads' \in {kct, Dec(kct)}
      BY <1>24, Zenon DEF FlushThreadCache
  <2>5. waiting' \in [Conds -> SUBSET Threads]
      BY <1>24 DEF FlushThreadCache
  <2>6. pc' \in [Threads -> WorkerPcs \union MainPcs \union SigPcs \union KillPcs]
      BY <1>24 DEF FlushThreadCache, AfterFlush
  <2> HIDE DEF kct
  <2>7. kill_cached_threads' \in 0..(UintRange - 1)
      BY <2>2, <2>3, <2>4
  <2> QED
      BY <1>24, <2>5, <2>6, <2>7 DEF FlushThreadCache
<1>25. ASSUME NEW sig \in {"TERM", "HUP"}, Send(sig) PROVE TypeOK'
    BY <1>25 DEF Send
<1>26. ASSUME NEW sig \in {"TERM", "HUP"}, SignalHand(sig) PROVE TypeOK'
    BY <1>26 DEF SignalHand, cleanup_done
<1>27. CASE ReadKillCached
    BY <1>27 DEF ReadKillCached
<1>28. CASE WriteKillCached
  <2>1. reg \in Nat
      OBVIOUS
  <2>2. kill_cached_threads' \in 0..(UintRange - 1)
      BY <1>28, <2>1, UintFacts DEF WriteKillCached
  <2> QED
      BY <1>28, <2>2 DEF WriteKillCached
<1>29. CASE WaitForSelectThread
    BY <1>29 DEF WaitForSelectThread, select_thread_in_use
<1>30. CASE MarkKilled
    BY <1>30 DEF MarkKilled
<1>31. CASE CloseConnections
    BY <1>31 DEF CloseConnections
<1>32. CASE WaitForThreads
    BY <1>32 DEF WaitForThreads, Wait, Awake
<1>33. CASE TellMain
    BY <1>33 DEF TellMain, Broadcast
<1>34. CASE SpuriousWakeUp
    BY <1>34 DEF SpuriousWakeUp
<1>35. CASE UNCHANGED vars
    BY <1>35
<1> QED
    BY NextCases, <1>1, <1>2, <1>3, <1>4, <1>5, <1>6, <1>7, <1>8, <1>9, <1>10, <1>11,
       <1>12, <1>13, <1>14, <1>15, <1>16, <1>17, <1>18, <1>19, <1>20, <1>21, <1>22, <1>23,
       <1>24, <1>25, <1>26, <1>27, <1>28, <1>29, <1>30, <1>31, <1>32, <1>33, <1>34, <1>35

\* No step gives a THD a second owner.
LEMMA OwnerStep ==
    ASSUME TypeOK, PlaceInv, OwnerInv, CountInv, [Next]_vars
    PROVE  OwnerInv'
<1> USE Names, ConnThreadsAssumption
       DEF Goto, vars, conns, cache, counts, signals, TypeOK, PlaceInv, OwnerInv,
           ServingPcs, AdmittingPcs, EndPcs
<1>1. ASSUME NEW c \in Conns, Accept(c) PROVE OwnerInv'
    BY <1>1 DEF Accept, Busy
<1>2. CASE RefuseConnection
    BY <1>2 DEF RefuseConnection
<1>3. CASE AdmitConnection
    BY <1>3 DEF AdmitConnection
<1>4. CASE UseCachedThread
    BY <1>4 DEF UseCachedThread, Signal
<1>5. ASSUME NEW w \in Workers, CreateThread(w) PROVE OwnerInv'
    BY <1>5 DEF CreateThread
<1>6. CASE CreateThreadFails
    BY <1>6 DEF CreateThreadFails
<1>7. CASE FailedThreadRelease
    BY <1>7 DEF FailedThreadRelease
<1>8. CASE FailedThreadCleanUp
    BY <1>8 DEF FailedThreadCleanUp
<1>9. CASE StopAccepting
    BY <1>9 DEF StopAccepting
<1>10. CASE SelectThreadEnds
    BY <1>10 DEF SelectThreadEnds
<1>11. CASE BroadcastEnd
    BY <1>11 DEF BroadcastEnd, Broadcast
<1>12. CASE WaitForCleanUp
    BY <1>12 DEF WaitForCleanUp, Wait, Awake
<1>13. CASE WaitForSignalThread
    BY <1>13 DEF WaitForSignalThread
<1>14. CASE CleanUpMutexes
    BY <1>14 DEF CleanUpMutexes
<1>15. CASE Exit
    BY <1>15 DEF Exit
<1>16. ASSUME NEW w \in Workers, StartConnection(w) PROVE OwnerInv'
    BY <1>16 DEF StartConnection, WorkerGoto
<1>17. ASSUME NEW w \in Workers, EndConnection(w) PROVE OwnerInv'
    BY <1>17 DEF EndConnection, WorkerGoto
<1>18. ASSUME NEW w \in Workers, FlushThreads(w) PROVE OwnerInv'
    BY <1>18 DEF FlushThreads, WorkerGoto
<1>19. ASSUME NEW w \in Workers, ReleaseConnection(w) PROVE OwnerInv'
    BY <1>19 DEF ReleaseConnection
<1>20. ASSUME NEW w \in Workers, Unlink(w) PROVE OwnerInv'
    BY <1>20 DEF Unlink, MayCache
<1>21. ASSUME NEW w \in Workers, WaitInCache(w) PROVE OwnerInv'
    BY <1>21 DEF WaitInCache, InCacheLoop, Wait
<1>22. ASSUME NEW w \in Workers, LeaveCache(w) PROVE OwnerInv'
  <2>1. CASE wake_thread > 0
    <3> DEFINE c == thread_cache[1]
    <3>1. /\ thd' = [thd EXCEPT ![w] = c] /\ thread_cache' = Tail(thread_cache)
          /\ Len(thread_cache) > 0
          /\ \A i \in 1..Len(thread_cache') : /\ i \in Nat /\ i + 1 \in 1..Len(thread_cache)
                                               /\ thread_cache'[i] = thread_cache[i + 1]
      <4>1. Takes(w)
          BY <1>22, <2>1, TakeFacts, Zenon
      <4> QED
          BY <2>1, <4>1, QueueFacts DEF Takes
    <3>2. c \in Conns /\ 1 \in 1..Len(thread_cache)
        BY <2>1, QueueFacts
    <3>3. \A t \in Threads : thd[t] # c
        BY <3>2
    <3>4. \A i \in 1..Len(thread_cache') : thread_cache'[i] # c
        BY <3>1, <3>2
    <3>5. \A t, u \in Threads : thd'[t] # None /\ thd'[t] = thd'[u] => t = u
        BY <3>1, <3>2, <3>3
    <3>6. \A i, j \in 1..Len(thread_cache') : thread_cache'[i] = thread_cache'[j] => i = j
      <4> SUFFICES ASSUME NEW i \in 1..Len(thread_cache'), NEW j \in 1..Len(thread_cache'),
                          thread_cache'[i] = thread_cache'[j]
                   PROVE  i = j
          OBVIOUS
      <4>1. i + 1 = j + 1 /\ i \in Nat /\ j \in Nat
          BY <3>1
      <4> QED
          BY <4>1
    <3>7. \A t \in Threads, i \in 1..Len(thread_cache') : thd'[t] # thread_cache'[i]
        BY <3>1, <3>4
    <3> QED
        BY <3>5, <3>6, <3>7
  <2>2. CASE wake_thread = 0
      BY <1>22, <2>2 DEF LeaveCache, InCacheLoop
  <2> QED
      BY <1>22, <2>1, <2>2 DEF LeaveCache
<1>23. ASSUME NEW w \in Workers, EndThread(w) PROVE OwnerInv'
    BY <1>23 DEF EndThread, Broadcast
<1>24. ASSUME NEW t \in Threads \ {"main"}, FlushThreadCache(t) PROVE OwnerInv'
    BY <1>24 DEF FlushThreadCache, AfterFlush
<1>25. ASSUME NEW sig \in {"TERM", "HUP"}, Send(sig) PROVE OwnerInv'
    BY <1>25 DEF Send
<1>26. ASSUME NEW sig \in {"TERM", "HUP"}, SignalHand(sig) PROVE OwnerInv'
    BY <1>26 DEF SignalHand, cleanup_done
<1>27. CASE ReadKillCached
    BY <1>27 DEF ReadKillCached
<1>28. CASE WriteKillCached
    BY <1>28 DEF WriteKillCached
<1>29. CASE WaitForSelectThread
    BY <1>29 DEF WaitForSelectThread, select_thread_in_use
<1>30. CASE MarkKilled
    BY <1>30 DEF MarkKilled
<1>31. CASE CloseConnections
    BY <1>31 DEF CloseConnections
<1>32. CASE WaitForThreads
    BY <1>32 DEF WaitForThreads, Wait, Awake
<1>33. CASE TellMain
    BY <1>33 DEF TellMain, Broadcast
<1>34. CASE SpuriousWakeUp
    BY <1>34 DEF SpuriousWakeUp
<1>35. CASE UNCHANGED vars
    BY <1>35
<1> QED
    BY NextCases, <1>1, <1>2, <1>3, <1>4, <1>5, <1>6, <1>7, <1>8, <1>9, <1>10, <1>11,
       <1>12, <1>13, <1>14, <1>15, <1>16, <1>17, <1>18, <1>19, <1>20, <1>21, <1>22, <1>23,
       <1>24, <1>25, <1>26, <1>27, <1>28, <1>29, <1>30, <1>31, <1>32, <1>33, <1>34, <1>35

\* What kill_server has waited for stays true.
LEMMA KillStep ==
    ASSUME TypeOK, PlaceInv, CountInv, KillInv, [Next]_vars
    PROVE  KillInv'
<1> USE Names, ConnThreadsAssumption
       DEF Goto, vars, conns, cache, counts, signals, TypeOK, PlaceInv, KillInv,
           ServingPcs, WorkerPcs, AdmittingPcs, EndPcs, MainPcs, SigPcs, KillPcs,
           abort_loop, cleanup_done, select_thread_in_use
<1>1. ASSUME NEW c \in Conns, Accept(c) PROVE KillInv'
    BY <1>1 DEF Accept, Busy
<1>2. CASE RefuseConnection
    BY <1>2 DEF RefuseConnection
<1>3. CASE AdmitConnection
    BY <1>3 DEF AdmitConnection
<1>4. CASE UseCachedThread
    BY <1>4 DEF UseCachedThread, Signal
<1>5. ASSUME NEW w \in Workers, CreateThread(w) PROVE KillInv'
    BY <1>5 DEF CreateThread
<1>6. CASE CreateThreadFails
    BY <1>6 DEF CreateThreadFails
<1>7. CASE FailedThreadRelease
    BY <1>7 DEF FailedThreadRelease
<1>8. CASE FailedThreadCleanUp
    BY <1>8 DEF FailedThreadCleanUp
<1>9. CASE StopAccepting
    BY <1>9 DEF StopAccepting
<1>10. CASE SelectThreadEnds
    BY <1>10 DEF SelectThreadEnds
<1>11. CASE BroadcastEnd
    BY <1>11 DEF BroadcastEnd, Broadcast
<1>12. CASE WaitForCleanUp
    BY <1>12 DEF WaitForCleanUp, Wait, Awake
<1>13. CASE WaitForSignalThread
    BY <1>13 DEF WaitForSignalThread
<1>14. CASE CleanUpMutexes
    BY <1>14 DEF CleanUpMutexes
<1>15. CASE Exit
    BY <1>15 DEF Exit
<1>16. ASSUME NEW w \in Workers, StartConnection(w) PROVE KillInv'
    BY <1>16 DEF StartConnection, WorkerGoto
<1>17. ASSUME NEW w \in Workers, EndConnection(w) PROVE KillInv'
    BY <1>17 DEF EndConnection, WorkerGoto
<1>18. ASSUME NEW w \in Workers, FlushThreads(w) PROVE KillInv'
    BY <1>18 DEF FlushThreads, WorkerGoto
<1>19. ASSUME NEW w \in Workers, ReleaseConnection(w) PROVE KillInv'
    BY <1>19 DEF ReleaseConnection
<1>20. ASSUME NEW w \in Workers, Unlink(w) PROVE KillInv'
  <2>1. Serving # {} /\ (abort_loop => cached_thread_count' = cached_thread_count)
      BY <1>20 DEF Unlink, MayCache, Serving
  <2>2. thread_count # 0
      BY <2>1, CountFacts
  <2> QED
      BY <1>20, <2>1, <2>2 DEF Unlink
<1>21. ASSUME NEW w \in Workers, WaitInCache(w) PROVE KillInv'
    BY <1>21 DEF WaitInCache, InCacheLoop, Wait
<1>22. ASSUME NEW w \in Workers, LeaveCache(w) PROVE KillInv'
  <2>1. cached_thread_count # 0
      BY <1>22, CountFacts DEF LeaveCache, InCacheLoop, Cached
  <2> QED
      BY <1>22, <2>1 DEF LeaveCache
<1>23. ASSUME NEW w \in Workers, EndThread(w) PROVE KillInv'
    BY <1>23 DEF EndThread, Broadcast
<1>24. ASSUME NEW t \in Threads \ {"main"}, FlushThreadCache(t) PROVE KillInv'
    BY <1>24 DEF FlushThreadCache, AfterFlush
<1>25. ASSUME NEW sig \in {"TERM", "HUP"}, Send(sig) PROVE KillInv'
    BY <1>25 DEF Send
<1>26. ASSUME NEW sig \in {"TERM", "HUP"}, SignalHand(sig) PROVE KillInv'
    BY <1>26 DEF SignalHand, cleanup_done
<1>27. CASE ReadKillCached
    BY <1>27 DEF ReadKillCached
<1>28. CASE WriteKillCached
    BY <1>28 DEF WriteKillCached
<1>29. CASE WaitForSelectThread
    BY <1>29 DEF WaitForSelectThread, select_thread_in_use
<1>30. CASE MarkKilled
    BY <1>30 DEF MarkKilled
<1>31. CASE CloseConnections
    BY <1>31 DEF CloseConnections
<1>32. CASE WaitForThreads
    BY <1>32 DEF WaitForThreads, Wait, Awake
<1>33. CASE TellMain
    BY <1>33 DEF TellMain, Broadcast
<1>34. CASE SpuriousWakeUp
    BY <1>34 DEF SpuriousWakeUp
<1>35. CASE UNCHANGED vars
    BY <1>35
<1> QED
    BY NextCases, <1>1, <1>2, <1>3, <1>4, <1>5, <1>6, <1>7, <1>8, <1>9, <1>10, <1>11,
       <1>12, <1>13, <1>14, <1>15, <1>16, <1>17, <1>18, <1>19, <1>20, <1>21, <1>22, <1>23,
       <1>24, <1>25, <1>26, <1>27, <1>28, <1>29, <1>30, <1>31, <1>32, <1>33, <1>34, <1>35

\* No counter and nothing that is counted moves.
CountsStay ==
    /\ Cached' = Cached /\ Serving' = Serving /\ Unlinking' = Unlinking /\ Admitted' = Admitted
    /\ UNCHANGED <<cached_thread_count, wake_thread, thread_count, connection_count, thread_cache>>

\* Then the counters still agree.
LEMMA StayFacts ==
    ASSUME CountInv, CountsStay PROVE CountInv'
    BY DEF CountInv, CountsStay

\* Every step keeps the counters in agreement with what they count.
LEMMA CountStep ==
    ASSUME TypeOK, PlaceInv, CountInv, [Next]_vars
    PROVE  CountInv'
<1> USE Names, ConnThreadsAssumption DEF Goto, vars, conns, cache, counts, signals
<1>a. /\ IsFiniteSet(Cached) /\ IsFiniteSet(Serving) /\ IsFiniteSet(Unlinking)
      /\ Cardinality(Cached) \in Nat /\ Cardinality(Serving) \in Nat
      /\ Cardinality(Unlinking) \in Nat
    BY CountFacts
<1>b. /\ cached_thread_count \in Nat /\ wake_thread \in Nat /\ thread_count \in Nat
      /\ connection_count \in Nat /\ Len(thread_cache) \in Nat
    BY DEF TypeOK
<1>c. /\ pc \in [Threads -> WorkerPcs \union MainPcs \union SigPcs \union KillPcs]
      /\ thd \in [Threads -> Conns \union {None}] /\ thread_cache \in Seq(Conns)
    BY DEF TypeOK
<1>d. /\ cached_thread_count = Cardinality(Cached) /\ wake_thread = Len(thread_cache)
      /\ wake_thread <= cached_thread_count
      /\ thread_count = Cardinality(Serving) + wake_thread
      /\ connection_count = thread_count - Cardinality(Unlinking) + Admitted
    BY DEF CountInv
<1>e. /\ Cardinality(Cached) \in Nat /\ Cardinality(Serving) \in Nat
      /\ Cardinality(Unlinking) \in Nat
    BY <1>a
<1>1. ASSUME NEW c \in Conns, Accept(c) PROVE CountInv'
    BY <1>1, StayFacts, <1>c
       DEF Accept, Busy, CountsStay, Admitted, Cached, Serving, Unlinking, PlaceInv,
           ServingPcs
<1>2. CASE RefuseConnection
    BY <1>2, StayFacts, <1>c
       DEF RefuseConnection, CountsStay, Admitted, Cached, Serving, Unlinking, PlaceInv,
           ServingPcs
<1>3. CASE AdmitConnection
  <2>1. Cached' = Cached /\ Serving' = Serving /\ Unlinking' = Unlinking
      BY <1>c, <1>3 DEF AdmitConnection, Cached, Serving, Unlinking, PlaceInv, ServingPcs
  <2>2. /\ Admitted = 0 /\ Admitted' = 1 /\ connection_count' = connection_count + 1
        /\ UNCHANGED <<cached_thread_count, wake_thread, thread_count, thread_cache>>
      BY <1>c, <1>3 DEF AdmitConnection, Admitted
  <2> QED
      BY <1>a, <1>b, <2>1, <2>2 DEF CountInv
<1>4. CASE UseCachedThread
  <2>1. Cached' = Cached /\ Serving' = Serving /\ Unlinking' = Unlinking
      BY <1>c, <1>4 DEF UseCachedThread, Cached, Serving, Unlinking, PlaceInv, ServingPcs
  <2>2. Len(thread_cache') = Len(thread_cache) + 1
      BY <1>c, <1>4 DEF UseCachedThread
  <2>3. /\ Admitted = 1 /\ Admitted' = 0 /\ thread_count' = thread_count + 1
        /\ wake_thread' = wake_thread + 1 /\ cached_thread_count > wake_thread
        /\ UNCHANGED <<cached_thread_count, connection_count>>
      BY <1>c, <1>4 DEF UseCachedThread, Admitted
  <2> QED
    <3>a. /\ Cardinality(Cached') = Cardinality(Cached)
          /\ Cardinality(Serving') = Cardinality(Serving)
          /\ Cardinality(Unlinking') = Cardinality(Unlinking)
          /\ Len(thread_cache') = Len(thread_cache) + 1
          /\ Admitted = 1 /\ Admitted' = 0
        BY <2>1, <2>2, <2>3
    <3>b. /\ cached_thread_count' = cached_thread_count
          /\ wake_thread' = wake_thread + 1 /\ wake_thread' <= cached_thread_count'
          /\ thread_count' = thread_count + 1
          /\ connection_count' = connection_count
        BY <1>b, <1>d, <1>e, <2>1, <2>2, <2>3
    <3>1. cached_thread_count' = Cardinality(Cached') /\ wake_thread' = Len(thread_cache')
        BY <1>d, <3>a, <3>b
    <3>2. thread_count' = Cardinality(Serving') + wake_thread'
      <4>1. thread_count = Cardinality(Serving) + wake_thread
          BY <1>d
      <4>2. /\ thread_count' = thread_count + 1 /\ wake_thread' = wake_thread + 1
            /\ Cardinality(Serving') = Cardinality(Serving)
          BY <3>a, <3>b
      <4> QED
          BY <1>b, <1>e, <4>1, <4>2
    <3>3. connection_count' = thread_count' - Cardinality(Unlinking') + Admitted'
      <4>1. connection_count = thread_count - Cardinality(Unlinking) + Admitted
          BY <1>d
      <4>2. /\ connection_count' = connection_count /\ thread_count' = thread_count + 1
            /\ Cardinality(Unlinking') = Cardinality(Unlinking)
            /\ Admitted = 1 /\ Admitted' = 0
          BY <3>a, <3>b
      <4> QED
          BY <1>b, <1>e, <4>1, <4>2
    <3> QED
        BY <3>1, <3>2, <3>3, <3>b DEF CountInv
<1>5. ASSUME NEW w \in Workers, CreateThread(w) PROVE CountInv'
  <2>1. Cached' = Cached /\ Unlinking' = Unlinking /\ w \notin Serving
      BY <1>c, <1>5 DEF CreateThread, Cached, Serving, Unlinking, PlaceInv, ServingPcs
  <2>2. Serving' = Serving \cup {w}
    <3>1. thd' = [thd EXCEPT !["main"] = None, ![w] = thd["main"]] /\ thd["main"] # None
        BY <1>5 DEF CreateThread, PlaceInv, AdmittingPcs
    <3> QED
        BY <1>c, <3>1 DEF Serving
  <2>3. Cardinality(Serving') = Cardinality(Serving) + 1
      BY <1>a, <2>1, <2>2, FS_AddElement
  <2>4. /\ Admitted = 1 /\ Admitted' = 0 /\ thread_count' = thread_count + 1
        /\ UNCHANGED <<cached_thread_count, wake_thread, thread_cache, connection_count>>
      BY <1>c, <1>5 DEF CreateThread, Admitted
  <2> QED
    <3>a. /\ Cardinality(Cached') = Cardinality(Cached)
          /\ Cardinality(Serving') = Cardinality(Serving) + 1
          /\ Cardinality(Unlinking') = Cardinality(Unlinking)
          /\ Len(thread_cache') = Len(thread_cache)
          /\ Admitted = 1 /\ Admitted' = 0
        BY <2>1, <2>3, <2>4
    <3>b. /\ cached_thread_count' = cached_thread_count
          /\ wake_thread' = wake_thread /\ wake_thread' <= cached_thread_count'
          /\ thread_count' = thread_count + 1
          /\ connection_count' = connection_count
        BY <1>b, <1>d, <1>e, <2>1, <2>3, <2>4
    <3>1. cached_thread_count' = Cardinality(Cached') /\ wake_thread' = Len(thread_cache')
        BY <1>d, <3>a, <3>b
    <3>2. thread_count' = Cardinality(Serving') + wake_thread'
      <4>1. thread_count = Cardinality(Serving) + wake_thread
          BY <1>d
      <4>2. /\ thread_count' = thread_count + 1 /\ wake_thread' = wake_thread
            /\ Cardinality(Serving') = Cardinality(Serving) + 1
          BY <3>a, <3>b
      <4> QED
          BY <1>b, <1>e, <4>1, <4>2
    <3>3. connection_count' = thread_count' - Cardinality(Unlinking') + Admitted'
      <4>1. connection_count = thread_count - Cardinality(Unlinking) + Admitted
          BY <1>d
      <4>2. /\ connection_count' = connection_count /\ thread_count' = thread_count + 1
            /\ Cardinality(Unlinking') = Cardinality(Unlinking)
            /\ Admitted = 1 /\ Admitted' = 0
          BY <3>a, <3>b
      <4> QED
          BY <1>b, <1>e, <4>1, <4>2
    <3> QED
        BY <3>1, <3>2, <3>3, <3>b DEF CountInv
<1>6. CASE CreateThreadFails
    BY <1>6, StayFacts, <1>c
       DEF CreateThreadFails, CountsStay, Admitted, Cached, Serving, Unlinking, PlaceInv,
           ServingPcs
<1>7. CASE FailedThreadRelease
  <2>1. Cached' = Cached /\ Serving' = Serving /\ Unlinking' = Unlinking
      BY <1>c, <1>7 DEF FailedThreadRelease, Cached, Serving, Unlinking, PlaceInv, ServingPcs
  <2>2. /\ Admitted = 1 /\ Admitted' = 0 /\ connection_count' = connection_count - 1
        /\ UNCHANGED <<cached_thread_count, wake_thread, thread_count, thread_cache>>
      BY <1>c, <1>7 DEF FailedThreadRelease, Admitted
  <2> QED
      BY <1>a, <1>b, <2>1, <2>2 DEF CountInv
<1>8. CASE FailedThreadCleanUp
    BY <1>8, StayFacts, <1>c
       DEF FailedThreadCleanUp, CountsStay, Admitted, Cached, Serving, Unlinking,
           PlaceInv, ServingPcs
<1>9. CASE StopAccepting
    BY <1>9, StayFacts, <1>c
       DEF StopAccepting, CountsStay, Admitted, Cached, Serving, Unlinking, PlaceInv,
           ServingPcs
<1>10. CASE SelectThreadEnds
    BY <1>10, StayFacts, <1>c
       DEF SelectThreadEnds, CountsStay, Admitted, Cached, Serving, Unlinking, PlaceInv,
           ServingPcs
<1>11. CASE BroadcastEnd
    BY <1>11, StayFacts, <1>c
       DEF BroadcastEnd, Broadcast, CountsStay, Admitted, Cached, Serving, Unlinking,
           PlaceInv, ServingPcs
<1>12. CASE WaitForCleanUp
    BY <1>12, StayFacts, <1>c
       DEF WaitForCleanUp, Wait, Awake, CountsStay, Admitted, Cached, Serving, Unlinking,
           PlaceInv, ServingPcs
<1>13. CASE WaitForSignalThread
    BY <1>13, StayFacts, <1>c
       DEF WaitForSignalThread, CountsStay, Admitted, Cached, Serving, Unlinking,
           PlaceInv, ServingPcs
<1>14. CASE CleanUpMutexes
    BY <1>14, StayFacts, <1>c
       DEF CleanUpMutexes, CountsStay, Admitted, Cached, Serving, Unlinking, PlaceInv,
           ServingPcs
<1>15. CASE Exit
    BY <1>15, StayFacts, <1>c
       DEF Exit, CountsStay, Admitted, Cached, Serving, Unlinking, PlaceInv, ServingPcs
<1>16. ASSUME NEW w \in Workers, StartConnection(w) PROVE CountInv'
    BY <1>16, StayFacts, <1>c
       DEF StartConnection, WorkerGoto, CountsStay, Admitted, Cached, Serving, Unlinking,
           PlaceInv, ServingPcs
<1>17. ASSUME NEW w \in Workers, EndConnection(w) PROVE CountInv'
    BY <1>17, StayFacts, <1>c
       DEF EndConnection, WorkerGoto, CountsStay, Admitted, Cached, Serving, Unlinking,
           PlaceInv, ServingPcs
<1>18. ASSUME NEW w \in Workers, FlushThreads(w) PROVE CountInv'
    BY <1>18, StayFacts, <1>c
       DEF FlushThreads, WorkerGoto, CountsStay, Admitted, Cached, Serving, Unlinking,
           PlaceInv, ServingPcs
<1>19. ASSUME NEW w \in Workers, ReleaseConnection(w) PROVE CountInv'
  <2>1. Cached' = Cached /\ Serving' = Serving /\ w \notin Unlinking
      BY <1>c, <1>19 DEF ReleaseConnection, Cached, Serving, Unlinking, PlaceInv, ServingPcs
  <2>2. Unlinking' = Unlinking \cup {w}
      BY <1>c, <1>19 DEF ReleaseConnection, Cached, Serving, Unlinking, PlaceInv, ServingPcs
  <2>3. Cardinality(Unlinking') = Cardinality(Unlinking) + 1
      BY <1>a, <2>1, <2>2, FS_AddElement
  <2>4. /\ Admitted' = Admitted /\ connection_count' = connection_count - 1
        /\ Admitted \in {0, 1}
        /\ UNCHANGED <<cached_thread_count, wake_thread, thread_cache, thread_count>>
      BY <1>c, <1>19 DEF ReleaseConnection, Admitted
  <2> QED
    <3>a. /\ Cardinality(Cached') = Cardinality(Cached)
          /\ Cardinality(Serving') = Cardinality(Serving)
          /\ Cardinality(Unlinking') = Cardinality(Unlinking) + 1
          /\ Len(thread_cache') = Len(thread_cache)
          /\ Admitted' = Admitted /\ Admitted \in Nat
        BY <2>1, <2>3, <2>4
    <3>b. /\ cached_thread_count' = cached_thread_count
          /\ wake_thread' = wake_thread /\ wake_thread' <= cached_thread_count'
          /\ thread_count' = thread_count
          /\ connection_count' = connection_count - 1
        BY <1>b, <1>d, <1>e, <2>1, <2>3, <2>4
    <3>1. cached_thread_count' = Cardinality(Cached') /\ wake_thread' = Len(thread_cache')
        BY <1>d, <3>a, <3>b
    <3>2. thread_count' = Cardinality(Serving') + wake_thread'
      <4>1. thread_count = Cardinality(Serving) + wake_thread
          BY <1>d
      <4>2. /\ thread_count' = thread_count /\ wake_thread' = wake_thread
            /\ Cardinality(Serving') = Cardinality(Serving)
          BY <3>a, <3>b
      <4> QED
          BY <1>b, <1>e, <4>1, <4>2
    <3>3. connection_count' = thread_count' - Cardinality(Unlinking') + Admitted'
      <4>1. connection_count = thread_count - Cardinality(Unlinking) + Admitted
          BY <1>d
      <4>2. /\ connection_count' = connection_count - 1 /\ thread_count' = thread_count
            /\ Cardinality(Unlinking') = Cardinality(Unlinking) + 1
            /\ Admitted' = Admitted /\ Admitted \in Nat
          BY <3>a, <3>b
      <4> QED
          BY <1>b, <1>e, <4>1, <4>2
    <3> QED
        BY <3>1, <3>2, <3>3, <3>b DEF CountInv
<1>20. ASSUME NEW w \in Workers, Unlink(w) PROVE CountInv'
  <2>1. w \in Serving /\ w \in Unlinking /\ w \notin Cached
      BY <1>c, <1>20 DEF Unlink, Cached, Serving, Unlinking, PlaceInv, ServingPcs
  <2>2. Serving' = Serving \ {w} /\ Unlinking' = Unlinking \ {w}
      BY <1>c, <1>20 DEF Unlink, Cached, Serving, Unlinking, PlaceInv, ServingPcs
  <2>3. /\ Cardinality(Serving') = Cardinality(Serving) - 1
        /\ Cardinality(Unlinking') = Cardinality(Unlinking) - 1
      BY <2>1, <2>2, <1>a, FS_RemoveElement
  <2>4. /\ cached_thread_count' = Cardinality(Cached')
        /\ cached_thread_count <= cached_thread_count' /\ cached_thread_count' \in Nat
    <3>1. CASE MayCache(w)
      <4>1. Cached' = Cached \cup {w} /\ cached_thread_count' = cached_thread_count + 1
          BY <1>c, <1>20, <3>1 DEF Unlink, Cached, Serving, Unlinking, PlaceInv, ServingPcs
      <4>2. Cardinality(Cached') = Cardinality(Cached) + 1
          BY <2>1, <4>1, <1>a, FS_AddElement
      <4> QED
          BY <1>b, <4>1, <4>2, <1>a DEF CountInv
    <3>2. CASE ~MayCache(w)
      <4>1. Cached' = Cached /\ cached_thread_count' = cached_thread_count
          BY <1>c, <1>20, <3>2 DEF Unlink, Cached, Serving, Unlinking, PlaceInv, ServingPcs
      <4> QED
          BY <1>b, <4>1, <1>a DEF CountInv
    <3> QED
        BY <3>1, <3>2
  <2>5. /\ thread_count' = thread_count - 1 /\ Admitted' = Admitted /\ Admitted \in {0, 1}
        /\ UNCHANGED <<wake_thread, thread_cache, connection_count>>
      BY <1>c, <1>20 DEF Unlink, Admitted, Cached, Serving, Unlinking, PlaceInv, ServingPcs
  <2> QED
    <3>1. thread_count' = Cardinality(Serving') + wake_thread'
        BY <1>b, <1>d, <1>e, <2>3, <2>5
    <3>2. connection_count' = thread_count' - Cardinality(Unlinking') + Admitted'
        BY <1>b, <1>d, <1>e, <2>3, <2>5
    <3>3. wake_thread' = Len(thread_cache') /\ wake_thread' <= cached_thread_count'
        BY <1>b, <1>d, <2>4, <2>5
    <3> QED
        BY <2>4, <3>1, <3>2, <3>3 DEF CountInv
<1>21. ASSUME NEW w \in Workers, WaitInCache(w) PROVE CountInv'
    BY <1>21, StayFacts, <1>c
       DEF WaitInCache, InCacheLoop, Wait, CountsStay, Admitted, Cached, Serving,
           Unlinking, PlaceInv, ServingPcs
<1>22. ASSUME NEW w \in Workers, LeaveCache(w) PROVE CountInv'
  <2>1. /\ w \in Cached /\ w \notin Serving /\ Unlinking' = Unlinking
        /\ Admitted' = Admitted /\ Admitted \in {0, 1}
        /\ cached_thread_count' = cached_thread_count - 1
        /\ UNCHANGED <<thread_count, connection_count>>
      BY <1>c, <1>22
         DEF LeaveCache, InCacheLoop, Admitted, Cached, Serving, Unlinking, PlaceInv,
             ServingPcs
  <2>2. Cached' = Cached \ {w}
      BY <1>c, <1>22
         DEF LeaveCache, InCacheLoop, Cached, Serving, Unlinking, PlaceInv, ServingPcs
  <2>3. Cardinality(Cached') = Cardinality(Cached) - 1 /\ Cardinality(Cached) # 0
    <3>1. Cardinality(Cached) # 0
        BY <2>1, <1>a, FS_EmptySet
    <3> QED
        BY <2>1, <2>2, <3>1, <1>a, FS_RemoveElement
  <2>4. CASE wake_thread > 0
    <3>1. Takes(w)
        BY <1>22, <2>4, TakeFacts, Zenon
    <3>2. Serving' = Serving \cup {w}
      <4>1. thread_cache[1] # None
          BY <2>4, QueueFacts
      <4> QED
          BY <3>1, <4>1, <1>c DEF Takes, Serving, Cached
    <3>3. Cardinality(Serving') = Cardinality(Serving) + 1
        BY <2>1, <3>2, <1>a, FS_AddElement
    <3>4. Len(thread_cache') = Len(thread_cache) - 1 /\ wake_thread' = wake_thread - 1
        BY <2>4, <3>1, QueueFacts DEF Takes
    <3> QED
      <4>a. /\ Cardinality(Cached') = Cardinality(Cached) - 1
            /\ Cardinality(Serving') = Cardinality(Serving) + 1
            /\ Cardinality(Unlinking') = Cardinality(Unlinking)
            /\ Len(thread_cache') = Len(thread_cache) - 1
            /\ Admitted' = Admitted /\ Admitted \in Nat
          BY <2>1, <2>3, <3>3, <3>4
      <4>b. /\ cached_thread_count' = cached_thread_count - 1
            /\ wake_thread' = wake_thread - 1 /\ wake_thread' <= cached_thread_count'
            /\ thread_count' = thread_count
            /\ connection_count' = connection_count
          BY <1>b, <1>d, <1>e, <2>1, <2>3, <3>3, <3>4
      <4>1. cached_thread_count' = Cardinality(Cached') /\ wake_thread' = Len(thread_cache')
          BY <1>d, <4>a, <4>b
      <4>2. thread_count' = Cardinality(Serving') + wake_thread'
        <5>1. thread_count = Cardinality(Serving) + wake_thread
            BY <1>d
        <5>2. /\ thread_count' = thread_count /\ wake_thread' = wake_thread - 1
              /\ Cardinality(Serving') = Cardinality(Serving) + 1
            BY <4>a, <4>b
        <5> QED
            BY <1>b, <1>e, <5>1, <5>2
      <4>3. connection_count' = thread_count' - Cardinality(Unlinking') + Admitted'
        <5>1. connection_count = thread_count - Cardinality(Unlinking) + Admitted
            BY <1>d
        <5>2. /\ connection_count' = connection_count /\ thread_count' = thread_count
              /\ Cardinality(Unlinking') = Cardinality(Unlinking)
              /\ Admitted' = Admitted /\ Admitted \in Nat
            BY <4>a, <4>b
        <5> QED
            BY <1>b, <1>e, <5>1, <5>2
      <4> QED
          BY <4>1, <4>2, <4>3, <4>b DEF CountInv
  <2>5. CASE wake_thread = 0
    <3>1. Serving' = Serving /\ UNCHANGED <<wake_thread, thread_cache>>
        BY <1>22, <2>5 DEF LeaveCache, Cached, Serving, Unlinking, PlaceInv, ServingPcs
    <3> QED
      <4>a. /\ Cardinality(Cached') = Cardinality(Cached) - 1
            /\ Cardinality(Serving') = Cardinality(Serving)
            /\ Cardinality(Unlinking') = Cardinality(Unlinking)
            /\ Len(thread_cache') = Len(thread_cache)
            /\ Admitted' = Admitted /\ Admitted \in Nat
          BY <2>1, <2>3, <2>5, <3>1
      <4>b. /\ cached_thread_count' = cached_thread_count - 1
            /\ wake_thread' = wake_thread /\ wake_thread' <= cached_thread_count'
            /\ thread_count' = thread_count
            /\ connection_count' = connection_count
          BY <1>b, <1>d, <1>e, <2>1, <2>3, <2>5, <3>1
      <4>1. cached_thread_count' = Cardinality(Cached') /\ wake_thread' = Len(thread_cache')
          BY <1>d, <4>a, <4>b
      <4>2. thread_count' = Cardinality(Serving') + wake_thread'
        <5>1. thread_count = Cardinality(Serving) + wake_thread
            BY <1>d
        <5>2. /\ thread_count' = thread_count /\ wake_thread' = wake_thread
              /\ Cardinality(Serving') = Cardinality(Serving)
            BY <4>a, <4>b
        <5> QED
            BY <1>b, <1>e, <5>1, <5>2
      <4>3. connection_count' = thread_count' - Cardinality(Unlinking') + Admitted'
        <5>1. connection_count = thread_count - Cardinality(Unlinking) + Admitted
            BY <1>d
        <5>2. /\ connection_count' = connection_count /\ thread_count' = thread_count
              /\ Cardinality(Unlinking') = Cardinality(Unlinking)
              /\ Admitted' = Admitted /\ Admitted \in Nat
            BY <4>a, <4>b
        <5> QED
            BY <1>b, <1>e, <5>1, <5>2
      <4> QED
          BY <4>1, <4>2, <4>3, <4>b DEF CountInv
  <2> QED
      BY <1>b, <2>4, <2>5
<1>23. ASSUME NEW w \in Workers, EndThread(w) PROVE CountInv'
    BY <1>23, StayFacts, <1>c
       DEF EndThread, Broadcast, CountsStay, Admitted, Cached, Serving, Unlinking,
           PlaceInv, ServingPcs
<1>24. ASSUME NEW t \in Threads \ {"main"}, FlushThreadCache(t) PROVE CountInv'
    BY <1>24, StayFacts, <1>c
       DEF FlushThreadCache, AfterFlush, CountsStay, Admitted, Cached, Serving, Unlinking,
           PlaceInv, ServingPcs
<1>25. ASSUME NEW sig \in {"TERM", "HUP"}, Send(sig) PROVE CountInv'
    BY <1>25, StayFacts, <1>c
       DEF Send, CountsStay, Admitted, Cached, Serving, Unlinking, PlaceInv, ServingPcs
<1>26. ASSUME NEW sig \in {"TERM", "HUP"}, SignalHand(sig) PROVE CountInv'
    BY <1>26, StayFacts, <1>c
       DEF SignalHand, cleanup_done, CountsStay, Admitted, Cached, Serving, Unlinking,
           PlaceInv, ServingPcs
<1>27. CASE ReadKillCached
    BY <1>27, StayFacts, <1>c
       DEF ReadKillCached, CountsStay, Admitted, Cached, Serving, Unlinking, PlaceInv,
           ServingPcs
<1>28. CASE WriteKillCached
    BY <1>28, StayFacts, <1>c
       DEF WriteKillCached, CountsStay, Admitted, Cached, Serving, Unlinking, PlaceInv,
           ServingPcs
<1>29. CASE WaitForSelectThread
    BY <1>29, StayFacts, <1>c
       DEF WaitForSelectThread, select_thread_in_use, CountsStay, Admitted, Cached,
           Serving, Unlinking, PlaceInv, ServingPcs
<1>30. CASE MarkKilled
    BY <1>30, StayFacts, <1>c
       DEF MarkKilled, CountsStay, Admitted, Cached, Serving, Unlinking, PlaceInv,
           ServingPcs
<1>31. CASE CloseConnections
    BY <1>31, StayFacts, <1>c
       DEF CloseConnections, CountsStay, Admitted, Cached, Serving, Unlinking, PlaceInv,
           ServingPcs
<1>32. CASE WaitForThreads
    BY <1>32, StayFacts, <1>c
       DEF WaitForThreads, Wait, Awake, CountsStay, Admitted, Cached, Serving, Unlinking,
           PlaceInv, ServingPcs
<1>33. CASE TellMain
    BY <1>33, StayFacts, <1>c
       DEF TellMain, Broadcast, CountsStay, Admitted, Cached, Serving, Unlinking,
           PlaceInv, ServingPcs
<1>34. CASE SpuriousWakeUp
    BY <1>34, StayFacts, <1>c
       DEF SpuriousWakeUp, CountsStay, Admitted, Cached, Serving, Unlinking, PlaceInv,
           ServingPcs
<1>35. CASE UNCHANGED vars
    BY <1>35, StayFacts
       DEF CountsStay, Admitted, Cached, Serving, Unlinking, PlaceInv, ServingPcs
<1> QED
    BY NextCases, <1>1, <1>2, <1>3, <1>4, <1>5, <1>6, <1>7, <1>8, <1>9, <1>10, <1>11,
       <1>12, <1>13, <1>14, <1>15, <1>16, <1>17, <1>18, <1>19, <1>20, <1>21, <1>22, <1>23,
       <1>24, <1>25, <1>26, <1>27, <1>28, <1>29, <1>30, <1>31, <1>32, <1>33, <1>34, <1>35

---------------------------------------------------------------------------
\* The server starts with no connection, no THD and no connection thread.
LEMMA InitInv == Init => Inv
<1> SUFFICES ASSUME Init PROVE Inv
    OBVIOUS
<1> USE Names, ConnThreadsAssumption
<1>1. TypeOK
  <2>1. \A t \in Threads : pc[t] \in {"accept", "sigwait", "none"}
      BY DEF Init
  <2>2. pc \in [Threads -> WorkerPcs \union MainPcs \union SigPcs \union KillPcs]
      BY <2>1 DEF Init, WorkerPcs, MainPcs, SigPcs, KillPcs
  <2> QED
      BY <2>2 DEF Init, TypeOK, Conds
<1>2. /\ \A w \in Workers : pc[w] = "none" /\ thd[w] = None
      /\ pc["main"] = "accept" /\ pc["sig"] = "sigwait" /\ pc["kill"] = "none"
      /\ \A t \in Threads : thd[t] = None
      /\ thread_cache = <<>> /\ Len(thread_cache) = 0
    BY DEF Init
<1>3. PlaceInv
    BY <1>2 DEF PlaceInv, ServingPcs, WorkerPcs, AdmittingPcs, MainPcs, SigPcs, KillPcs
<1>4. OwnerInv
    BY <1>2 DEF OwnerInv
<1>5. CountInv
  <2>1. Cached = {} /\ Serving = {} /\ Unlinking = {} /\ Admitted = 0
      BY <1>2 DEF Cached, Serving, Unlinking, Admitted
  <2>2. Cardinality(Cached) = 0 /\ Cardinality(Serving) = 0 /\ Cardinality(Unlinking) = 0
      BY <2>1, FS_EmptySet
  <2> QED
      BY <1>2, <2>1, <2>2 DEF Init, CountInv
<1>6. KillInv
    BY <1>2 DEF KillInv
<1> QED
    BY <1>1, <1>3, <1>4, <1>5, <1>6 DEF Inv

\* The invariant holds of the threads of mysqld, whatever the client, the
\* signals and the schedule of the threads are.
THEOREM Invariance == Spec => []Inv
<1>1. Inv /\ [Next]_vars => Inv'
    BY TypeStep, PlaceStep, OwnerStep, CountStep, KillStep DEF Inv
<1> QED
    BY <1>1, InitInv, PTL DEF Spec

\* No two THDs of thread_cache are the same, so the queue is as long as
\* the set of THDs in it is large.
LEMMA QueuedCount ==
    ASSUME TypeOK, OwnerInv PROVE Cardinality(Queued) = Len(thread_cache)
<1>1. thread_cache \in Seq(Conns) /\ Len(thread_cache) \in Nat
    BY DEF TypeOK
<1>2. DOMAIN thread_cache = 1..Len(thread_cache)
    BY <1>1
<1>3. thread_cache \in [1..Len(thread_cache) -> Queued]
    BY <1>1, <1>2 DEF Queued
<1>4. thread_cache \in Bijection(1..Len(thread_cache), Queued)
  <2>1. \A x, y \in 1..Len(thread_cache) : thread_cache[x] = thread_cache[y] => x = y
      BY DEF OwnerInv
  <2>2. \A q \in Queued : \E i \in 1..Len(thread_cache) : thread_cache[i] = q
      BY <1>2 DEF Queued
  <2> QED
      BY <1>3, <2>1, <2>2 DEF Bijection, Injection, Surjection, IsInjective
<1>5. ExistsBijection(1..Len(thread_cache), Queued)
    BY <1>4 DEF ExistsBijection
<1> QED
    BY <1>1, <1>5, FS_CountingElements

\* Every step of mysqld keeps pc, the THDs and the counters of their types.
THEOREM TypeCorrect == Spec => []TypeOK
    BY Invariance, PTL DEF Inv

\* A THD that waits in thread_cache has a cached thread of its own.
THEOREM QueueCorrect == Spec => []QueuedHaveThreads
<1>1. Inv => QueuedHaveThreads
    BY QueuedCount DEF Inv, CountInv, Cached, QueuedHaveThreads
<1> QED
    BY <1>1, Invariance, PTL

\* thread_count, connection_count and cached_thread_count count what they
\* are for.
THEOREM CountsCorrect == Spec => []CountersAgree
<1>1. Inv => CountersAgree
  <2> SUFFICES ASSUME Inv PROVE CountersAgree
      OBVIOUS
  <2>1. Cardinality(Queued) = wake_thread
      BY QueuedCount DEF Inv, CountInv
  <2>2. cached_thread_count <= thread_cache_size
      BY ConnThreadsAssumption DEF Inv, TypeOK
  <2> QED
      BY <2>1, <2>2 DEF Inv, CountInv, CountersAgree, Cached, Unlinking, Admitted
<1> QED
    BY <1>1, Invariance, PTL

\* When signal_hand shuts the statistics pools down, no thread is left that
\* calls an adder or that may be given a THD.
THEOREM CleanUpCorrect == Spec => []NoAdderAtCleanUp
<1>1. Inv => NoAdderAtCleanUp
  <2> SUFFICES ASSUME Inv, cleanup_done PROVE NoAdderAtCleanUp
      BY DEF NoAdderAtCleanUp
  <2>1. cached_thread_count = 0 /\ thread_count = 0 /\ pc["main"] \in EndPcs
      BY DEF Inv, KillInv, cleanup_done
  <2>2. Serving = {} /\ Cached = {} /\ wake_thread = 0
      BY <2>1, CountFacts DEF Inv
  <2>3. thd["main"] = None
      BY <2>1 DEF Inv, PlaceInv, EndPcs, AdmittingPcs
  <2>4. Queued = {}
    <3>1. thread_cache \in Seq(Conns) /\ Len(thread_cache) = 0
        BY <2>2 DEF Inv, TypeOK, CountInv
    <3> QED
        BY <3>1 DEF Queued
  <2>5. ASSUME NEW w \in Workers PROVE pc[w] \in {"none", "end"}
    <3>1. thd[w] = None /\ pc[w] # "cached"
        BY <2>2 DEF Serving, Cached
    <3> QED
        BY <3>1 DEF Inv, PlaceInv, WorkerPcs
  <2> QED
      BY <2>2, <2>3, <2>4, <2>5 DEF NoAdderAtCleanUp
<1> QED
    BY <1>1, Invariance, PTL
============================================================================
