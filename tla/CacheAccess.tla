----------------------------- MODULE CacheAccess -----------------------------
(***************************************************************************)
(* CacheAccess (tfc_cache_access) on one pool: every operation its callers *)
(* run under the pool's lock, each one step.  The binary log and the dump  *)
(* files, which mysqld leaves switched off (_cache_dump_min = -1), are     *)
(* module Persist.                                                         *)
(***************************************************************************)
EXTENDS HashMap, Functions

CONSTANTS
    Values,     \* the byte strings that are stored
    ModBase     \* modbase of the bulk operations

ASSUME ValueAssumption == /\ \A v \in Values : v \in Seq(Nat)
                          /\ ModBase \in Nat \ {0}

VARIABLE cache      \* the pool's memory

Init == cache = init_pool

-----------------------------------------------------------------------------
\* get, get_key and get_lru_pre touch the node they find; get_lru_pre then reads the
\* node that is now next to it.
Get(k) == cache' = find_node(cache, k).h

\* The pool and return code of set(): find, then insert or update; 1 if full.
set(h, k, bytes, f) ==
    LET s == find_node(h, k)
        r == IF s.n = Nil THEN insert_node(s.h, k, bytes) ELSE update_node(s.h, s.n, bytes)
    IN  IF r.n = Nil THEN [h |-> r.h, rc |-> 1]
        ELSE [h |-> set_node_flag(r.h, r.n, f), rc |-> 0]

Set(k, bytes, f) == cache' = set(cache, k, bytes, f).h

mark_clean(h, k) ==
    LET s == find_node(h, k)
    IN  IF s.n = Nil THEN h ELSE set_node_flag(s.h, s.n, "unchg")

MarkClean(k) == cache' = mark_clean(cache, k)

Del(k) ==
    LET s == find_node(cache, k)
    IN  cache' = IF s.n = Nil THEN s.h ELSE delete_node(s.h, s.n)

\* oldest, oldest_key: read the tail of the add list and change nothing ...
Oldest == UNCHANGED cache

\* ... except the oldest_key that answers the expiry time, which looks the key up.
OldestKeyTouch ==
    /\ cache.add_tail_ # Nil
    /\ cache' = find_node(cache, cache.node[cache.add_tail_].key_).h

\* What a loop along the nodes of list collects of the wanted ones, in order.
collect(list, wanted) ==
    LET upto[i \in 0..Len(list)] ==
            IF i = 0 THEN <<>>
            ELSE IF list[i] \in wanted THEN Append(upto[i - 1], list[i]) ELSE upto[i - 1]
    IN  upto[Len(list)]

\* del_node(modbase, mobres): the nodes are collected first, then deleted.
DelNode(res) ==
    cache' = FoldLeft(delete_node, cache,
                      collect(AddList(cache), {n \in Nodes : cache.node[n].key_ % ModBase = res}))

\* Wrong variant: the iterator stops at the first clean node.
next_dirty_stops(h, n) ==
    LET next == h.node[n].add_next_
    IN  IF next # Nil /\ h.node[next].flag_ # "unchg" THEN next ELSE Nil

\* dirty_iterator::operator++: the next node of the add list that is not clean.
next_dirty(h, n) ==
    LET walk[i \in 0..NodeTotal] ==
            [m \in Nodes \cup {Nil} |->
                IF m = Nil \/ i = 0 THEN Nil
                ELSE IF h.node[m].flag_ # "unchg" THEN m ELSE walk[i - 1][h.node[m].add_next_]]
    IN  walk[NodeTotal][h.node[n].add_next_]

\* Most turns the loop of mark_clean(modbase, mobres) can take: each selected
\* node restarts the scan at most once.
ScanBound == (NodeTotal + 1) * (NodeTotal + 1)

\* Wrong variant: the scan stops at the first key that is not selected.
mark_clean_all_stops(h, res) ==
    LET turn(st) ==
          LET selected == st.h.node[st.n].key_ % ModBase = res
              m == mark_clean(st.h, st.h.node[st.n].key_)
          IN  IF selected THEN [h |-> m, n |-> next_dirty(m, st.n)] ELSE [h |-> st.h, n |-> Nil]
        scan[i \in 0..ScanBound] ==
          IF i = 0 THEN [h |-> h, n |-> h.add_head_]
          ELSE LET st == scan[i - 1] IN IF st.n = Nil THEN st ELSE turn(st)
    IN  scan[ScanBound]

\* mark_clean(modbase, mobres): a dirty_iterator walks the add list while
\* mark_clean(key) moves the node it stands on to the head of that list, so
\* that the scan starts over behind it.  n = Nil when the loop has ended.
mark_clean_all(h, res) ==
    LET turn(st) ==
          LET selected == st.h.node[st.n].key_ % ModBase = res
              m == IF selected THEN mark_clean(st.h, st.h.node[st.n].key_) ELSE st.h
          IN  [h |-> m, n |-> next_dirty(m, st.n)]
        scan[i \in 0..ScanBound] ==
          IF i = 0 THEN [h |-> h, n |-> h.add_head_]
          ELSE LET st == scan[i - 1] IN IF st.n = Nil THEN st ELSE turn(st)
    IN  scan[ScanBound]

MarkCleanAll(res) == cache' = mark_clean_all(cache, res).h

\* core_dump_mem(modbase, mobres), or modbase = -1 for all keys, into a buffer
\* that is large enough: the nodes of the selected keys that are written, in order.
core_dump_mem(h, selected) ==
    LET walk[i \in 0..NodeTotal] ==
            [n \in Nodes \cup {Nil} |->
                IF n = Nil \/ i = 0 THEN <<>> ELSE <<n>> \o walk[i - 1][next_dirty(h, n)]]
    IN  collect(walk[NodeTotal][h.add_head_], {n \in Nodes : h.node[n].key_ \in selected})

Next ==
    \/ \E k \in Keys : Get(k) \/ MarkClean(k) \/ Del(k)
    \/ \E k \in Keys, v \in Values, f \in Flags : Set(k, v, f)
    \/ Oldest
    \/ OldestKeyTouch
    \/ \E res \in 0..(ModBase - 1) : DelNode(res) \/ MarkCleanAll(res)

Spec == Init /\ [][Next]_cache

-----------------------------------------------------------------------------
(* The iterator of TfcShmMap: oldest_key, get, until the first key returns. *)

\* Wrong variant: the iterator reads the next key without touching the last one.
get_for_iteration_no_touch(h, k) == [h |-> h, n |-> lookup(h, k)]

get_for_iteration(h, k) == find_node(h, k)

\* init_begin and operator++ until end(): the keys visited and the pool left.
iterate(h) ==
    LET first == h.node[h.add_tail_].key_
        step(st) ==
          LET k == st.h.node[st.h.add_tail_].key_
          IN  IF st.seen # <<>> /\ k = first THEN [st EXCEPT !.done = TRUE]
              ELSE [h |-> get_for_iteration(st.h, k).h, seen |-> Append(st.seen, k),
                    done |-> FALSE]
        run[i \in 0..(NodeTotal + 1)] ==
          IF i = 0 THEN [h |-> h, seen |-> <<>>, done |-> FALSE]
          ELSE LET st == run[i - 1] IN IF st.done THEN st ELSE step(st)
    IN  IF h.add_tail_ = Nil THEN [h |-> h, seen |-> <<>>, done |-> TRUE]
        ELSE run[NodeTotal + 1]

-----------------------------------------------------------------------------
(* Properties.                                                             *)

\* Handles and fields stay in their ranges.
TypeOK ==
    /\ cache.node \in [Nodes -> [key_ : Keys \cup {0}, chunk_len_ : Nat,
                                 chunk_head_ : Chunks \cup {Nil},
                                 node_prev_ : Nodes \cup {Nil}, node_next_ : Nodes \cup {Nil},
                                 add_prev_ : Nodes \cup {Nil}, add_next_ : Nodes \cup {Nil},
                                 flag_ : Flags]]
    /\ cache.bucket \in [Buckets -> Nodes \cup {Nil}]
    /\ {cache.add_head_, cache.add_tail_, cache.free_list_} \subseteq Nodes \cup {Nil}
    /\ cache.used_node_num_ \in 0..NodeTotal
    /\ cache.a.next_ \in [Chunks -> Chunks \cup {Nil}]
    /\ cache.a.free_list_ \in Chunks \cup {Nil}
    /\ cache.a.free_total_ \in 0..ChunkTotal

UsedNodes == ToSet(AddList(cache))

\* Back pointers undo forward pointers: prev of a list's head is Nil and prev
\* of every other member is the member before it.
BackPointers(list, prev) ==
    \A i \in DOMAIN list : prev[list[i]] = IF i = 1 THEN Nil ELSE list[i - 1]

\* No sequence of operations breaks the node lists: each is finite, a node is
\* either free or in the add list and in the list of its own key's bucket,
\* keys are unique, both doubly linked lists read the same backwards, and the
\* count of used nodes is right.
NodesPartitioned ==
    LET prevs == [n \in Nodes |-> cache.node[n].node_prev_]
        add   == AddList(cache)
        used  == ToSet(add)
        freed == FreeNodes(cache)
    IN  /\ Len(add) = cache.used_node_num_
        /\ Len(add) + Len(freed) = NodeTotal
        /\ used \cup ToSet(freed) = Nodes
        /\ BackPointers(add, add_prevs(cache))
        /\ cache.add_tail_ = IF add = <<>> THEN Nil ELSE Last(add)
        /\ \A b \in Buckets :
              LET list == BucketList(cache, b)
              IN  /\ BackPointers(list, prevs)
                  /\ Len(list) = Cardinality(ToSet(list))
                  /\ ToSet(list) = {n \in used : get_bucket_id(cache.node[n].key_) = b}
        /\ Cardinality({cache.node[n].key_ : n \in used}) = Cardinality(used)

\* No sequence of operations leaks a chunk, frees one twice or lets two values
\* share one: the free list and the values' chains divide the chunks among
\* them, and every chain is as long as its value needs.
ChunksPartitioned ==
    LET used  == UsedNodes
        chain == [n \in used |-> Chain(cache.a.next_, cache.node[n].chunk_head_)]
        freed == Chain(cache.a.next_, cache.a.free_list_)
    IN  /\ Len(freed) = cache.a.free_total_
        /\ \A n \in used : Len(chain[n]) = get_chunk_num(cache.node[n].chunk_len_)
        /\ Len(freed) + SumFunctionOnSet([n \in used |-> Len(chain[n])], used) = ChunkTotal
        /\ ToSet(freed) \cup UNION {ToSet(chain[n]) : n \in used} = Chunks

\* A pool left behind by complete operations passes the checks with which
\* open(init = false) admits it: mysqld can be restarted on it and
\* cdb_shm_dump can open a copy of it.
CompletePoolVerifies == verify_pool(cache)

\* The iterator of TfcShmMap, which cdb_shm_dump runs on its copy, ends, visits
\* every entry once, oldest first, although each visit reorders the list it
\* walks, and leaves the order as it found it.
IterationVisitsAllOnce ==
    LET it  == iterate(cache)
        add == AddList(cache)
    IN  /\ it.done
        /\ it.seen = Reverse([i \in DOMAIN add |-> cache.node[add[i]].key_])
        /\ AddList(it.h) = add

\* The bulk mark_clean ends and leaves no selected entry dirty, although it
\* moves the node its iterator stands on.
BulkMarkCleanCompletes ==
    \A res \in 0..(ModBase - 1) :
        LET m == mark_clean_all(cache, res)
        IN  /\ m.n = Nil
            /\ \A n \in UsedNodes : m.h.node[n].key_ % ModBase = res => m.h.node[n].flag_ = "unchg"

\* set() refuses a value, be it for a key in use or for one more, exactly when
\* it does not fit, where room is counted from the values stored: a new key
\* needs a node no other key has, and the value needs no more chunks than the
\* other keys' values leave.
SetRefusesOnlyWhatDoesNotFit ==
    LET used    == UsedNodes
        need    == [n \in used |-> get_chunk_num(cache.node[n].chunk_len_)]
        another == 1 + Max(Keys \cup {0})
    IN  \A k \in Keys \cup {another} :
            LET others == {n \in used : cache.node[n].key_ # k}
                taken  == SumFunctionOnSet(need, others)
            IN  \A v \in Values :
                    set(cache, k, v, "dirty").rc = 0 <=>
                        /\ Cardinality(others) < NodeTotal
                        /\ taken + get_chunk_num(Len(v)) <= ChunkTotal

\* core_dump_mem ("only dirty data is dumped") writes every dirty entry of the
\* selected keys once, in whatever way look-ups have mixed clean and dirty nodes
\* in the list it walks; the one clean entry it may write is the most recently
\* used one, which the iterator does not look at before it starts.
DumpKeepsDirtyData ==
    \A selected \in {Keys} \cup {{k \in Keys : k % ModBase = res} : res \in 0..(ModBase - 1)} :
        LET dump  == core_dump_mem(cache, selected)
            dirty == {n \in UsedNodes : cache.node[n].flag_ = "dirty"}
        IN  /\ Len(dump) = Cardinality(ToSet(dump))
            /\ ToSet(dump) = {n \in dirty \cup ({cache.add_head_} \ {Nil}) :
                                  cache.node[n].key_ \in selected}

\* What callers can learn of a pool: the keys present, most recently used
\* first, and what a look-up of each of them answers.
View(h) ==
    LET add == AddList(h)
        lru == [i \in DOMAIN add |-> h.node[add[i]].key_]
    IN  [lru     |-> lru,
         entries |-> [k \in ToSet(lru) |->
                        LET n == lookup(h, k)
                        IN  [data |-> node_data(h, n), flag |-> h.node[n].flag_]]]
=============================================================================
