---------------------------- MODULE MCCacheAccess ----------------------------
(* CacheAccess for TLC: values of one and of two chunks that differ in what   *)
(* they leave of each other in a chunk.  The view of the pool is recorded     *)
(* beside it, so that the refinement mapping is computed once per state.      *)
EXTENDS CacheAccess

MCValues == {<<7>>, <<7, 9, 9>>}

VARIABLE view

MCInit == Init /\ view = View(cache)
MCNext == Next /\ view' = View(cache')
MCSpec == MCInit /\ [][MCNext]_<<cache, view>>

Store == INSTANCE CacheStore WITH
            lru <- view.lru, entries <- view.entries, freeChunks <- cache.a.free_total_

\* The linked lists, chunks and counters implement the bounded map ordered by
\* use: every operation has the effect CacheStore promises.
ImplementsStore == Store!SpecStore
=============================================================================
