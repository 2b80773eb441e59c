---------------------------- MODULE ConnThreads ----------------------------
(***************************************************************************)
(* The connection threads of mysqld: the select thread that admits a       *)
(* connection (a THD), the threads that serve one and wait in the thread   *)
(* cache for the next, FLUSH THREADS, and the shutdown that signal_hand,   *)
(* kill_server and main carry out together.  The connection threads and    *)
(* the select thread are the callers of the statistics adders.             *)
(*                                                                         *)
(* A section under LOCK_thread_count is one step, except in cache_thread,  *)
(* whose two reads of abort_loop (a variable set without the lock) are     *)
(* apart.  A thread in waiting[cond] sleeps in pthread_cond_wait.          *)
(***************************************************************************)
EXTENDS Naturals, FiniteSets, Sequences

CONSTANTS
    Workers,            \* bound: the threads alive at one time
    Conns,              \* clients; a THD is named by its client
    None,
    thread_cache_size,
    max_connections,
    UintRange,          \* the values of a uint: 2^32, or fewer as only 0 is special
    MaxFlush            \* bound: FLUSH THREADS commands and SIGHUPs

ASSUME ConnThreadsAssumption ==
    /\ IsFiniteSet(Workers) /\ IsFiniteSet(Conns)
    /\ None \notin Workers \union Conns
    /\ Workers \intersect {"main", "sig", "kill"} = {}
    /\ thread_cache_size \in Nat /\ max_connections \in Nat /\ MaxFlush \in Nat
    /\ UintRange \in Nat \ {0}

VARIABLES
    pc,                  \* where each thread is
    thd,                 \* thd[t]: the THD that t works on
    threads,             \* the list of THDs that have a thread
    thread_cache,        \* THDs that wait for a cached thread
    cached_thread_count, wake_thread, kill_cached_threads,
    thread_count, connection_count,
    killed,              \* THDs marked killed or whose connection is closed
    waiting,             \* waiting[cond]: the threads that sleep on cond
    holder,              \* the thread that keeps LOCK_thread_count across steps
    reg,                 \* kill_cached_threads as read at line 886
    pending,             \* signals for signal_hand
    flushes              \* FLUSH THREADS commands and SIGHUPs so far

conns == <<thd, threads, thread_cache, killed>>
cache == <<cached_thread_count, wake_thread>>
counts == <<thread_count, connection_count>>
signals == <<pending, flushes>>
vars == <<pc, conns, cache, kill_cached_threads, counts, waiting, holder, reg, signals>>

Threads == Workers \union {"main", "sig", "kill"}
Conds == {"thread_cache", "flush_thread_cache", "thread_count"}

\* The flags of the shutdown, each set by one step of one thread.
abort_loop == pc["kill"] # "none"
select_thread_in_use == pc["main"] \in 
    {"accept", "admit", "add", "failed", "failed_close", "leave"}
cleanup_done == pc["kill"] \in {"clean_up", "done"}
ready_to_exit == pc["kill"] = "done"

Init ==
    /\ pc = [t \in Threads |-> CASE t = "main" -> "accept"
                                 [] t = "sig" -> "sigwait"
                                 [] OTHER -> "none"]
    /\ thd = [t \in Threads |-> None]
    /\ threads = {} /\ thread_cache = <<>> /\ killed = {}
    /\ cached_thread_count = 0 /\ wake_thread = 0 /\ kill_cached_threads = 0
    /\ thread_count = 0 /\ connection_count = 0
    /\ waiting = [c \in Conds |-> {}]
    /\ holder = None /\ reg = 0
    /\ pending = {} /\ flushes = 0

Goto(t, l) == pc' = [pc EXCEPT ![t] = l]

Inc(n) == (n + 1) % UintRange
Dec(n) == (n + UintRange - 1) % UintRange

\* LOCK_thread_count can be taken, by t after its wait on cond.
Unlocked == holder = None
Awake(t, cond) == t \notin waiting[cond] /\ Unlocked

Wait(t, cond) == waiting' = [waiting EXCEPT ![cond] = @ \union {t}]
Broadcast(cond) == waiting' = [waiting EXCEPT ![cond] = {}]
\* pthread_cond_signal wakes one of the threads that wait.
Signal(cond) ==
    IF waiting[cond] = {} THEN UNCHANGED waiting
    ELSE \E t \in waiting[cond] : waiting' = [waiting EXCEPT ![cond] = @ \ {t}]

----------------------------------------------------------------------------
(* The select thread: handle_connections_sockets and create_new_thread.    *)

Busy == {thd[t] : t \in Threads} \union {thread_cache[i] : i \in DOMAIN thread_cache}

\* A failure up to here, which an adder counts, leaves the loop where it was.
Accept(c) ==
    /\ pc["main"] = "accept" /\ ~abort_loop /\ c \notin Busy
    /\ thd' = [thd EXCEPT !["main"] = c]
    /\ Goto("main", "admit")
    /\ UNCHANGED <<threads, thread_cache, killed, cache, kill_cached_threads, counts,
                   waiting, holder, reg, signals>>

\* The refusal is counted by cdb_ins_conn_add.
RefuseConnection ==
    /\ pc["main"] = "admit"
    /\ connection_count >= max_connections + 1 \/ abort_loop
    /\ thd' = [thd EXCEPT !["main"] = None]
    /\ Goto("main", "accept")
    /\ UNCHANGED <<threads, thread_cache, killed, cache, kill_cached_threads, counts,
                   waiting, holder, reg, signals>>

AdmitConnection ==
    /\ pc["main"] = "admit"
    /\ ~(connection_count >= max_connections + 1 \/ abort_loop)
    /\ connection_count' = connection_count + 1
    /\ Goto("main", "add")
    /\ UNCHANGED <<conns, cache, kill_cached_threads, thread_count, waiting, holder,
                   reg, signals>>

\* Mutant: a cached thread is promised to any number of THDs.
PromisesThreadTwice ==
    /\ pc["main"] = "add" /\ Unlocked
    /\ cached_thread_count > 0
    /\ thread_count' = thread_count + 1
    /\ thread_cache' = Append(thread_cache, thd["main"])
    /\ wake_thread' = wake_thread + 1
    /\ Signal("thread_cache")
    /\ thd' = [thd EXCEPT !["main"] = None]
    /\ Goto("main", "accept")
    /\ UNCHANGED <<threads, killed, cached_thread_count, kill_cached_threads,
                   connection_count, holder, reg, signals>>

\* Mutant: the THD is queued and nobody is told.
QueuesSilently ==
    /\ pc["main"] = "add" /\ Unlocked
    /\ cached_thread_count > wake_thread
    /\ thread_count' = thread_count + 1
    /\ thread_cache' = Append(thread_cache, thd["main"])
    /\ wake_thread' = wake_thread + 1
    /\ thd' = [thd EXCEPT !["main"] = None]
    /\ Goto("main", "accept")
    /\ UNCHANGED <<threads, killed, cached_thread_count, kill_cached_threads,
                   connection_count, waiting, holder, reg, signals>>

UseCachedThread ==
    /\ pc["main"] = "add" /\ Unlocked
    /\ cached_thread_count > wake_thread
    /\ thread_count' = thread_count + 1
    /\ thread_cache' = Append(thread_cache, thd["main"])
    /\ wake_thread' = wake_thread + 1
    /\ Signal("thread_cache")
    /\ thd' = [thd EXCEPT !["main"] = None]
    /\ Goto("main", "accept")
    /\ UNCHANGED <<threads, killed, cached_thread_count, kill_cached_threads,
                   connection_count, holder, reg, signals>>

CreateThread(w) ==
    /\ pc["main"] = "add" /\ Unlocked
    /\ cached_thread_count <= wake_thread
    /\ pc[w] = "none"
    /\ thread_count' = thread_count + 1
    /\ threads' = threads \union {thd["main"]}
    /\ thd' = [thd EXCEPT !["main"] = None, ![w] = thd["main"]]
    /\ pc' = [pc EXCEPT !["main"] = "accept", ![w] = "start"]
    /\ UNCHANGED <<thread_cache, killed, cache, kill_cached_threads, connection_count,
                   waiting, holder, reg, signals>>

\* Mutant: thread_count does not go back.
FailureStaysCounted ==
    /\ pc["main"] = "add" /\ Unlocked
    /\ cached_thread_count <= wake_thread
    /\ thread_count' = thread_count + 1
    /\ threads' = threads \union {thd["main"]}
    /\ killed' = killed \union {thd["main"]}
    /\ Goto("main", "failed")
    /\ UNCHANGED <<thd, thread_cache, cache, kill_cached_threads, connection_count,
                   waiting, holder, reg, signals>>

\* pthread_create fails: thread_count goes back, the THD stays in the list.
CreateThreadFails ==
    /\ pc["main"] = "add" /\ Unlocked
    /\ cached_thread_count <= wake_thread
    /\ threads' = threads \union {thd["main"]}
    /\ killed' = killed \union {thd["main"]}
    /\ Goto("main", "failed")
    /\ UNCHANGED <<thd, thread_cache, cache, kill_cached_threads, counts, waiting,
                   holder, reg, signals>>

FailedThreadRelease ==
    /\ pc["main"] = "failed"
    /\ connection_count' = connection_count - 1
    /\ Goto("main", "failed_close")
    /\ UNCHANGED <<conns, cache, kill_cached_threads, thread_count, waiting, holder,
                   reg, signals>>

FailedThreadCleanUp ==
    /\ pc["main"] = "failed_close" /\ Unlocked
    /\ threads' = threads \ {thd["main"]}
    /\ killed' = killed \ {thd["main"]}
    /\ thd' = [thd EXCEPT !["main"] = None]
    /\ Goto("main", "accept")
    /\ UNCHANGED <<thread_cache, cache, kill_cached_threads, counts, waiting, holder,
                   reg, signals>>

----------------------------------------------------------------------------
(* A connection thread: handle_one_connection.                             *)

WorkerGoto(w, l) ==
    /\ Goto(w, l)
    /\ UNCHANGED <<conns, cache, kill_cached_threads, counts, waiting, holder, reg>>

\* init_new_connection_thread succeeds or fails.
StartConnection(w) ==
    /\ pc[w] = "start"
    /\ \E l \in {"serve", "close_no_cache"} : WorkerGoto(w, l)
    /\ UNCHANGED signals

EndConnection(w) ==
    /\ pc[w] = "serve" /\ WorkerGoto(w, "close") /\ UNCHANGED signals

FlushThreads(w) ==
    /\ pc[w] = "serve" /\ flushes < MaxFlush
    /\ WorkerGoto(w, "flush")
    /\ flushes' = flushes + 1 /\ UNCHANGED pending

\* unlink_thd up to LOCK_thread_count.
ReleaseConnection(w) ==
    /\ pc[w] \in {"close", "close_no_cache"}
    /\ connection_count' = connection_count - 1
    /\ Goto(w, IF pc[w] = "close" THEN "unlink" ELSE "unlink_no_cache")
    /\ UNCHANGED <<conns, cache, kill_cached_threads, thread_count, waiting, holder,
                   reg, signals>>

\* The rest of unlink_thd, and the first test of cache_thread.
MayCache(w) ==
    /\ pc[w] = "unlink"
    /\ cached_thread_count < thread_cache_size
    /\ ~abort_loop /\ kill_cached_threads = 0

Unlink(w) ==
    /\ pc[w] \in {"unlink", "unlink_no_cache"} /\ Unlocked
    /\ thread_count' = thread_count - 1
    /\ threads' = threads \ {thd[w]}
    /\ killed' = killed \ {thd[w]}
    /\ thd' = [thd EXCEPT ![w] = None]
    /\ \/ /\ MayCache(w)
          /\ cached_thread_count' = cached_thread_count + 1
          /\ holder' = w
          /\ Goto(w, "cached")
       \/ /\ ~MayCache(w)
          /\ Goto(w, "end")
          /\ UNCHANGED <<cached_thread_count, holder>>
    /\ UNCHANGED <<thread_cache, wake_thread, kill_cached_threads, connection_count,
                   waiting, reg, signals>>

\* The loop of cache_thread, entered with the lock or after a wait.
InCacheLoop(w) ==
    /\ pc[w] = "cached"
    /\ holder = w \/ Awake(w, "thread_cache")

StayCached == ~abort_loop /\ wake_thread = 0 /\ kill_cached_threads = 0

WaitInCache(w) ==
    /\ InCacheLoop(w) /\ StayCached
    /\ Wait(w, "thread_cache")
    /\ holder' = None
    /\ UNCHANGED <<pc, conns, cache, kill_cached_threads, counts, reg, signals>>

LeaveCache(w) ==
    /\ InCacheLoop(w) /\ ~StayCached
    /\ cached_thread_count' = cached_thread_count - 1
    /\ IF kill_cached_threads # 0 THEN Signal("flush_thread_cache") ELSE UNCHANGED waiting
    /\ \/ /\ wake_thread > 0
          /\ wake_thread' = wake_thread - 1
          /\ thread_cache' = Tail(thread_cache)
          /\ thd' = [thd EXCEPT ![w] = Head(thread_cache)]
          /\ threads' = threads \union {Head(thread_cache)}
          /\ Goto(w, "serve")
       \/ /\ wake_thread = 0
          /\ Goto(w, "end")
          /\ UNCHANGED <<wake_thread, thread_cache, thd, threads>>
    /\ holder' = None
    /\ UNCHANGED <<killed, kill_cached_threads, counts, reg, signals>>

\* Mutant: a thread ends without the broadcast.
EndsSilently(w) ==
    /\ pc[w] = "end"
    /\ Goto(w, "none")
    /\ UNCHANGED <<conns, cache, kill_cached_threads, counts, waiting, holder, reg, signals>>

\* The thread is out of the lock; its last act is the broadcast.
EndThread(w) ==
    /\ pc[w] = "end"
    /\ Broadcast("thread_count")
    /\ Goto(w, "none")
    /\ UNCHANGED <<conns, cache, kill_cached_threads, counts, holder, reg, signals>>

----------------------------------------------------------------------------
(* flush_thread_cache, by a connection thread, signal_hand or kill_server. *)

AfterFlush(t) == CASE t = "sig" -> "sigwait" [] t = "kill" -> "select" [] OTHER -> "serve"

FlushThreadCache(t) ==
    /\ \/ pc[t] = "flush" /\ Unlocked
       \/ pc[t] = "flushing" /\ Awake(t, "flush_thread_cache")
    /\ LET kct == IF pc[t] = "flush" THEN Inc(kill_cached_threads)
                                      ELSE kill_cached_threads IN
       IF cached_thread_count > 0
       THEN /\ kill_cached_threads' = kct
            /\ waiting' = [waiting EXCEPT !["thread_cache"] = {},
                                          !["flush_thread_cache"] = @ \union {t}]
            /\ Goto(t, "flushing")
       ELSE /\ kill_cached_threads' = Dec(kct)
            /\ Goto(t, AfterFlush(t))
            /\ UNCHANGED waiting
    /\ UNCHANGED <<conns, cache, counts, holder, reg, signals>>

----------------------------------------------------------------------------
(* signal_hand.                                                            *)

Send(sig) ==
    /\ sig \notin pending /\ pc["sig"] # "exited"
    /\ sig = "HUP" => flushes < MaxFlush
    /\ pending' = pending \union {sig}
    /\ flushes' = IF sig = "HUP" THEN flushes + 1 ELSE flushes
    /\ UNCHANGED <<pc, conns, cache, kill_cached_threads, counts, waiting, holder, reg>>

\* With cleanup_done it shuts the statistics pools down and ends, whatever
\* the signal is; SIGTERM sets abort_loop and starts kill_server, once, and a
\* pthread_create that fails is only logged; SIGHUP flushes.
SignalHand(sig) ==
    /\ pc["sig"] = "sigwait" /\ sig \in pending
    /\ pending' = pending \ {sig}
    /\ \/ cleanup_done /\ Goto("sig", "exited")
       \/ ~cleanup_done /\ abort_loop /\ UNCHANGED pc
       \/ ~abort_loop /\ sig = "TERM" /\ \E l \in {"inc", "not_started"} : Goto("kill", l)
       \/ ~abort_loop /\ sig = "HUP" /\ Goto("sig", "flush")
    /\ UNCHANGED <<conns, cache, kill_cached_threads, counts, waiting, holder, reg,
                   flushes>>

----------------------------------------------------------------------------
(* kill_server: close_connections and clean_up.                            *)

\* kill_cached_threads++ without the lock: a read and a write.
ReadKillCached ==
    /\ pc["kill"] = "inc"
    /\ reg' = kill_cached_threads
    /\ Goto("kill", "inc_write")
    /\ UNCHANGED <<conns, cache, kill_cached_threads, counts, waiting, holder, signals>>

WriteKillCached ==
    /\ pc["kill"] = "inc_write"
    /\ kill_cached_threads' = Inc(reg)
    /\ Goto("kill", "flush")
    /\ UNCHANGED <<conns, cache, counts, waiting, holder, reg, signals>>

\* Mutant: the select thread is not waited for.
SkipSelectThread ==
    /\ pc["kill"] = "select" /\ Unlocked
    /\ Goto("kill", "mark")
    /\ UNCHANGED <<conns, cache, kill_cached_threads, counts, waiting, holder, reg, signals>>

\* A timed wait, repeated: it ends whether or not somebody broadcasts.
WaitForSelectThread ==
    /\ pc["kill"] = "select" /\ ~select_thread_in_use /\ Unlocked
    /\ Goto("kill", "mark")
    /\ UNCHANGED <<conns, cache, kill_cached_threads, counts, waiting, holder, reg, signals>>

MarkKilled ==
    /\ pc["kill"] = "mark" /\ Unlocked
    /\ killed' = killed \union threads
    /\ Goto("kill", "close")
    /\ UNCHANGED <<thd, threads, thread_cache, cache, kill_cached_threads, counts,
                   waiting, holder, reg, signals>>

CloseConnections ==
    /\ pc["kill"] = "close" /\ Unlocked
    /\ IF threads = {}
       THEN Goto("kill", "wait") /\ UNCHANGED <<threads, killed>>
       ELSE \E c \in threads : /\ threads' = threads \ {c}
                               /\ killed' = killed \union {c}
                               /\ UNCHANGED pc
    /\ UNCHANGED <<thd, thread_cache, cache, kill_cached_threads, counts, waiting,
                   holder, reg, signals>>

WaitForThreads ==
    /\ pc["kill"] = "wait" /\ Awake("kill", "thread_count")
    /\ IF thread_count > 0
       THEN Wait("kill", "thread_count") /\ UNCHANGED pc
       ELSE Goto("kill", "clean_up") /\ UNCHANGED waiting
    /\ UNCHANGED <<conns, cache, kill_cached_threads, counts, holder, reg, signals>>

TellMain ==
    /\ pc["kill"] = "clean_up" /\ Unlocked
    /\ Broadcast("thread_count")
    /\ Goto("kill", "done")
    /\ UNCHANGED <<conns, cache, kill_cached_threads, counts, holder, reg, signals>>

----------------------------------------------------------------------------
(* The end of main.                                                        *)

StopAccepting ==
    /\ pc["main"] = "accept" /\ abort_loop
    /\ Goto("main", "leave")
    /\ UNCHANGED <<conns, cache, kill_cached_threads, counts, waiting, holder, reg, signals>>

SelectThreadEnds ==
    /\ pc["main"] = "leave" /\ Unlocked
    /\ Goto("main", "broadcast")
    /\ UNCHANGED <<conns, cache, kill_cached_threads, counts, waiting, holder, reg, signals>>

BroadcastEnd ==
    /\ pc["main"] = "broadcast"
    /\ Broadcast("thread_count")
    /\ Goto("main", "wait")
    /\ UNCHANGED <<conns, cache, kill_cached_threads, counts, holder, reg, signals>>

WaitForCleanUp ==
    /\ pc["main"] = "wait" /\ Awake("main", "thread_count")
    /\ IF ready_to_exit THEN Goto("main", "signal") /\ UNCHANGED waiting
                        ELSE Wait("main", "thread_count") /\ UNCHANGED pc
    /\ UNCHANGED <<conns, cache, kill_cached_threads, counts, holder, reg, signals>>

\* wait_for_signal_thread_to_end: pthread_kill of a live thread returns 0,
\* which is not ESRCH, and the loop ends.
WaitForSignalThread ==
    /\ pc["main"] = "signal"
    /\ pending' = IF pc["sig"] # "exited" THEN pending \union {"TERM"} ELSE pending
    /\ Goto("main", "destroy")
    /\ UNCHANGED <<conns, cache, kill_cached_threads, counts, waiting, holder, reg, flushes>>

CleanUpMutexes ==
    /\ pc["main"] = "destroy"
    /\ Goto("main", "destroyed")
    /\ UNCHANGED <<conns, cache, kill_cached_threads, counts, waiting, holder, reg, signals>>

Exit ==
    /\ pc["main"] = "destroyed"
    /\ Goto("main", "exited")
    /\ UNCHANGED <<conns, cache, kill_cached_threads, counts, waiting, holder, reg, signals>>

----------------------------------------------------------------------------
\* pthread_cond_wait may return without a signal.
SpuriousWakeUp ==
    /\ \E cond \in Conds : \E t \in waiting[cond] :
          waiting' = [waiting EXCEPT ![cond] = @ \ {t}]
    /\ UNCHANGED <<pc, conns, cache, kill_cached_threads, counts, holder, reg, signals>>

AdmissionStep ==
    \/ RefuseConnection \/ AdmitConnection \/ UseCachedThread
    \/ \E w \in Workers : CreateThread(w)
    \/ CreateThreadFails \/ FailedThreadRelease \/ FailedThreadCleanUp

EndOfMain ==
    \/ StopAccepting \/ SelectThreadEnds \/ BroadcastEnd
    \/ WaitForCleanUp \/ WaitForSignalThread \/ CleanUpMutexes \/ Exit

WorkerStep(w) ==
    \/ StartConnection(w) \/ ReleaseConnection(w) \/ Unlink(w)
    \/ WaitInCache(w) \/ LeaveCache(w) \/ EndThread(w)
    \/ FlushThreadCache(w)

KillServer ==
    \/ ReadKillCached \/ WriteKillCached \/ FlushThreadCache("kill")
    \/ WaitForSelectThread \/ MarkKilled \/ CloseConnections
    \/ WaitForThreads \/ TellMain

SignalThread == FlushThreadCache("sig") \/ \E sig \in {"TERM", "HUP"} : SignalHand(sig)

Running == pc["main"] # "exited"

\* abort_loop is set, and there is no thread that runs kill_server.
KillNotStarted == pc["kill"] = "not_started"

Next ==
    \/ /\ Running
       /\ \/ \E c \in Conns : Accept(c)
          \/ AdmissionStep \/ EndOfMain \/ KillServer \/ SignalThread
          \/ \E w \in Workers : WorkerStep(w) \/ EndConnection(w) \/ FlushThreads(w)
          \/ \E sig \in {"TERM", "HUP"} : Send(sig)
          \/ SpuriousWakeUp
    \/ ~Running /\ UNCHANGED vars

Spec == Init /\ [][Next]_vars

(* Every thread that can run runs.  A client need not send anything and   *)
(* need not leave, but a thread whose THD is killed stops serving it.  It  *)
(* is kill_server that wakes the select thread.                            *)
Fairness ==
    /\ WF_vars(Running /\ AdmissionStep)
    /\ WF_vars(Running /\ ~KillNotStarted /\ EndOfMain)
    /\ WF_vars(Running /\ KillServer)
    /\ WF_vars(Running /\ SignalThread)
    /\ \A w \in Workers :
          /\ WF_vars(Running /\ WorkerStep(w))
          /\ WF_vars(Running /\ thd[w] \in killed /\ EndConnection(w))

FairSpec == Spec /\ Fairness

----------------------------------------------------------------------------
Serving == {w \in Workers : thd[w] # None}
Queued == {thread_cache[i] : i \in DOMAIN thread_cache}

\* Where a thread has a THD, and where the others may be.
ServingPcs == {"start", "serve", "flush", "flushing", "close", "close_no_cache",
               "unlink", "unlink_no_cache"}
WorkerPcs == ServingPcs \union {"none", "cached", "end"}
AdmittingPcs == {"admit", "add", "failed", "failed_close"}
EndPcs == {"broadcast", "wait", "signal", "destroy", "destroyed", "exited"}
MainPcs == AdmittingPcs \union EndPcs \union {"accept", "leave"}
SigPcs == {"sigwait", "flush", "flushing", "exited"}
KillPcs == {"none", "not_started", "inc", "inc_write", "flush", "flushing", "select",
            "mark", "close", "wait", "clean_up", "done"}

TypeOK ==
    /\ pc \in [Threads -> WorkerPcs \union MainPcs \union SigPcs \union KillPcs]
    /\ thd \in [Threads -> Conns \union {None}]
    /\ threads \subseteq Conns /\ killed \subseteq Conns
    /\ thread_cache \in Seq(Conns)
    /\ cached_thread_count \in 0..thread_cache_size /\ wake_thread \in Nat
    /\ kill_cached_threads \in 0..(UintRange - 1)
    /\ thread_count \in Nat /\ connection_count \in Nat
    /\ waiting \in [Conds -> SUBSET Threads]
    /\ holder \in Workers \union {None} /\ reg \in 0..(UintRange - 1)
    /\ pending \subseteq {"TERM", "HUP"} /\ flushes \in 0..MaxFlush

(* A THD that waits in thread_cache has a cached thread of its own to take *)
(* it: create_thread_to_handle_connection hands out no thread twice, and   *)
(* neither a thread that leaves the cache nor a flush strands one.         *)
QueuedHaveThreads ==
    /\ Cardinality(Queued) = wake_thread
    /\ wake_thread <= Cardinality({w \in Workers : pc[w] = "cached"})

(* thread_count and connection_count count the THDs, whatever order the    *)
(* two locks were taken in and whether or not pthread_create failed; a     *)
(* drift would keep shutdown waiting or refuse clients for ever.  The      *)
(* cached threads are counted, too, and are never too many.                *)
CountersAgree ==
    /\ cached_thread_count = Cardinality({w \in Workers : pc[w] = "cached"})
    /\ cached_thread_count <= thread_cache_size
    /\ thread_count = Cardinality(Serving) + Cardinality(Queued)
    /\ connection_count =
          thread_count
          - Cardinality({w \in Workers : pc[w] \in {"unlink", "unlink_no_cache"}})
          + (IF pc["main"] \in {"add", "failed"} THEN 1 ELSE 0)

(* From clean_up on, and so when signal_hand destroys the locks of the     *)
(* statistics pools, no thread is left that calls an adder or that may be  *)
(* given a THD.                                                            *)
NoAdderAtCleanUp ==
    cleanup_done =>
        /\ Serving = {} /\ Queued = {} /\ thd["main"] = None
        /\ \A w \in Workers : pc[w] \in {"none", "end"}

(* A queued connection gets a thread.                                      *)
QueuedIsServed ==
    \A c \in Conns : c \in Queued ~> \E w \in Workers : thd[w] = c

(* A flush sleeps on COND_flush_thread_cache and no thread is left in the   *)
(* cache to wake it: of two flushes that slept there, the last cached       *)
(* thread has woken one.                                                    *)
FlushForgotten ==
    waiting["flush_thread_cache"] # {} /\ cached_thread_count = 0

(* "Force server down. Kill all connections and threads and exit.": once    *)
(* abort_loop is set, every connection thread ends, cached, serving or      *)
(* about to be queued, and so does mysqld, but for a flush that is          *)
(* forgotten and for a kill_server that could not be started.               *)
ShutdownCompletes == abort_loop ~> (~Running \/ FlushForgotten \/ KillNotStarted)
============================================================================
