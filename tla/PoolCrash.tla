------------------------------ MODULE PoolCrash ------------------------------
(***************************************************************************)
(* mysqld dies inside a change of a statistics pool.  The pool stays in    *)
(* shared memory as the stores so far have left it; the next mysqld opens  *)
(* it if verify_pool_data admits it and does not start otherwise, until    *)
(* somebody removes the segment.                                           *)
(*                                                                         *)
(* The changes are those that statistics make: set of CacheAccess, with    *)
(* values of one chunk and one length, and the reset of switch_shm.  A     *)
(* change is the sequence of its stores in program order; HashMap has the  *)
(* same operations in one step.  memset and a copied value are one store.  *)
(***************************************************************************)
EXTENDS HashMap

CONSTANTS MaxDeaths,    \* bound: deaths
          Values        \* the byte a value consists of

ASSUME PoolCrashAssumption ==
    /\ MaxDeaths \in Nat /\ Values \subseteq Nat \ {0} /\ ChunkSize = 1

VARIABLES
    pool,       \* the pool: the record of HashMap and the sizes in its headers
    pc,         \* "run", "down", or the next mysqld's end: "refused", "hung"
    deaths,     \* deaths so far
    sets        \* history: the values stored under each key since the last reset

vars == <<pool, pc, deaths, sets>>

\* Zeroed memory, read as a handle, is that of the header itself.
Zero == NodeTotal + ChunkTotal + 1

-----------------------------------------------------------------------------
(* Stores.                                                                 *)

InNode(n, f, v)  == [in |-> "node", at |-> n, field |-> f, val |-> v]
InMap(f, v)      == [in |-> "map", at |-> 0, field |-> f, val |-> v]
InBucket(b, v)   == [in |-> "bucket", at |-> b, field |-> "bucket", val |-> v]
InChunk(c, f, v) == [in |-> "chunk", at |-> c, field |-> f, val |-> v]
InAlloc(f, v)    == [in |-> "alloc", at |-> 0, field |-> f, val |-> v]
If(c, s)         == IF c THEN <<s>> ELSE <<>>

store(h, s) ==
    CASE s.in = "node"   -> [h EXCEPT !.node[s.at] = [@ EXCEPT ![s.field] = s.val]]
      [] s.in = "map"    -> [h EXCEPT ![s.field] = s.val]
      [] s.in = "bucket" -> [h EXCEPT !.bucket[s.at] = s.val]
      [] s.in = "chunk"  -> [h EXCEPT !.a = [@ EXCEPT ![s.field] = [@ EXCEPT ![s.at] = s.val]]]
      [] s.in = "alloc"  -> [h EXCEPT !.a = [@ EXCEPT ![s.field] = s.val]]
      [] s.in = "memset" -> s.val

run(h, stores) == FoldLeft(store, h, stores)

-----------------------------------------------------------------------------
(* The operations of the hash map, store by store.                         *)

\* Wrong variant: the tail is not moved.
delete_from_add_list_keeps_tail_stores(h, n) ==
    LET next == h.node[n].add_next_
        prev == h.node[n].add_prev_
    IN  IF next = Nil /\ prev = Nil /\ h.add_head_ # n /\ h.add_tail_ # n THEN <<>>
        ELSE If(prev # Nil, InNode(prev, "add_next_", next))
             \o If(next # Nil, InNode(next, "add_prev_", prev))
             \o If(h.add_head_ = n, InMap("add_head_", next))
             \o <<InNode(n, "add_prev_", Nil), InNode(n, "add_next_", Nil)>>

delete_from_add_list_stores(h, n) ==
    LET next == h.node[n].add_next_
        prev == h.node[n].add_prev_
    IN  IF next = Nil /\ prev = Nil /\ h.add_head_ # n /\ h.add_tail_ # n THEN <<>>
        ELSE If(prev # Nil, InNode(prev, "add_next_", next))
             \o If(next # Nil, InNode(next, "add_prev_", prev))
             \o If(h.add_head_ = n, InMap("add_head_", next))
             \o If(h.add_tail_ = n, InMap("add_tail_", prev))
             \o <<InNode(n, "add_prev_", Nil), InNode(n, "add_next_", Nil)>>

insert_add_list_head_stores(h0, n) ==
    LET del == delete_from_add_list_stores(h0, n)
        h   == run(h0, del)
    IN  del \o <<InNode(n, "add_next_", h.add_head_), InMap("add_head_", n)>>
            \o If(h.add_tail_ = Nil, InMap("add_tail_", n))
            \o <<InNode(n, "add_prev_", Nil)>>
            \o If(h.add_head_ # Nil, InNode(h.add_head_, "add_prev_", n))

\* malloc(1) and split of a value of one chunk.
malloc_stores(h, v) ==
    LET c == h.a.free_list_
    IN  <<InAlloc("free_list_", h.a.next_[c]), InChunk(c, "next_", Nil),
          InAlloc("free_total_", h.a.free_total_ - 1), InChunk(c, "data_", <<v>>)>>

\* Wrong variant: the node is linked and counted before it has its key and its value.
use_node_links_first_stores(h, n, k, head) ==
    LET b == get_bucket_id(k) IN
      <<InNode(n, "node_next_", h.bucket[b]), InNode(n, "node_prev_", Nil), InBucket(b, n)>>
      \o If(h.bucket[b] # Nil, InNode(h.bucket[b], "node_prev_", n))
      \o <<InMap("used_node_num_", h.used_node_num_ + 1),
            InNode(n, "key_", k), InNode(n, "chunk_len_", 1), InNode(n, "chunk_head_", head)>>

\* use_node and insert_node_list
use_node_stores(h, n, k, head) ==
    LET b == get_bucket_id(k) IN
      <<InNode(n, "key_", k), InNode(n, "chunk_len_", 1), InNode(n, "chunk_head_", head),
        InNode(n, "node_next_", h.bucket[b]), InNode(n, "node_prev_", Nil), InBucket(b, n)>>
      \o If(h.bucket[b] # Nil, InNode(h.bucket[b], "node_prev_", n))
      \o <<InMap("used_node_num_", h.used_node_num_ + 1)>>

insert_node_stores(h, k, v) ==
    LET n     == h.free_list_
        take  == <<InMap("free_list_", h.node[n].node_next_), InNode(n, "node_next_", Nil)>>
        back  == <<InNode(n, "node_next_", h.node[n].node_next_), InMap("free_list_", n)>>
        using == take \o malloc_stores(h, v) \o use_node_stores(h, n, k, h.a.free_list_)
    IN  IF n = Nil THEN <<>>
        ELSE IF h.a.free_total_ < 1 THEN take \o back
        ELSE using \o insert_add_list_head_stores(run(h, using), n)
                   \o <<InNode(n, "flag_", "dirty")>>

\* update_node with the old length, on a node that find_node has moved to the head.
update_node_stores(h, n, v) ==
    <<InChunk(h.node[n].chunk_head_, "data_", <<v>>), InNode(n, "chunk_len_", 1)>>
    \o insert_add_list_head_stores(h, n) \o <<InNode(n, "flag_", "dirty")>>

\* CacheAccess::set
set_stores(h, k, v) ==
    LET n    == lookup(h, k)
        find == insert_add_list_head_stores(h, n)
    IN  IF n = Nil THEN insert_node_stores(h, k, v)
                   ELSE find \o update_node_stores(run(h, find), n, v)

-----------------------------------------------------------------------------
(* Reset and start.                                                        *)

Sizes == [node_total_ |-> NodeTotal, bucket_size_ |-> BucketSize, chunk_total_ |-> ChunkTotal]

\* A pool with the sizes of its headers.
WithSizes(h, sizes) ==
    [f \in DOMAIN h \cup DOMAIN sizes |-> IF f \in DOMAIN h THEN h[f] ELSE sizes[f]]

initialised == WithSizes(init_pool, Sizes)

zeroed ==
    WithSizes([node   |-> [n \in Nodes |-> [blank_node EXCEPT !.chunk_head_ = Zero, !.node_prev_ = Zero,
                                    !.node_next_ = Zero, !.add_prev_ = Zero, !.add_next_ = Zero]],
               bucket |-> [b \in Buckets |-> Zero],
               add_head_ |-> Zero, add_tail_ |-> Zero, free_list_ |-> Zero, used_node_num_ |-> 0,
               a |-> [next_ |-> [c \in Chunks |-> Zero], data_ |-> init_chunks.data_,
                      free_list_ |-> Zero, free_total_ |-> 0]],
              [f \in DOMAIN Sizes |-> 0])

\* memset, CHashMap::init_pool_data, CChunkAllocator::init_pool_data
reset_stores ==
    <<[in |-> "memset", val |-> zeroed],
      InMap("node_total_", NodeTotal), InMap("bucket_size_", BucketSize),
      InMap("used_node_num_", 0), InMap("add_head_", Nil), InMap("add_tail_", Nil),
      InMap("free_list_", Nil)>>
    \o [b \in 1..BucketSize |-> InBucket(b - 1, Nil)]
    \o FlattenSeq([n \in 1..NodeTotal |->
           <<InNode(n, "node_next_", Nil),
             InNode(n, "node_prev_", Nil), InNode(n, "add_next_", Nil), InNode(n, "add_prev_", Nil),
             InNode(n, "chunk_head_", Nil),
             InNode(n, "node_next_", n - 1), InMap("free_list_", n)>>])
    \o <<InAlloc("free_list_", Nil)>>
    \o FlattenSeq([c \in 1..ChunkTotal |-> <<InChunk(c, "next_", c - 1), InAlloc("free_list_", c)>>])
    \o <<InMap("chunk_total_", ChunkTotal), InAlloc("free_total_", ChunkTotal)>>

\* verify_pool_data of the map, then of the allocator.  A free list that leads into the
\* header never ends: node_next_ of a node there is the second bucket, still zero.
verify(h) ==
    IF h.node_total_ # NodeTotal \/ h.bucket_size_ # BucketSize THEN "refused"
    ELSE IF h.free_list_ = Zero THEN "hung"
    ELSE IF h.used_node_num_ + Len(FreeNodes(h)) # NodeTotal THEN "refused"
    ELSE IF h.chunk_total_ # ChunkTotal THEN "refused"
    ELSE IF verify_chunks(h.a) THEN "run" ELSE "refused"

Init ==
    /\ pool = initialised
    /\ pc = "run" /\ deaths = 0
    /\ sets = [k \in Keys |-> {}]

\* A sample is stored; the pool may be full.
Set(k, v) ==
    /\ pc = "run"
    /\ pool' = run(pool, set_stores(pool, k, v))
    /\ sets' = [sets EXCEPT ![k] = @ \cup {v}]
    /\ UNCHANGED <<pc, deaths>>

\* mysqld dies when i of the stores are done.
DieInSet(k, v) ==
    /\ pc = "run" /\ deaths < MaxDeaths
    /\ \E i \in 0..Len(set_stores(pool, k, v)) : pool' = run(pool, SubSeq(set_stores(pool, k, v), 1, i))
    /\ sets' = [sets EXCEPT ![k] = @ \cup {v}]
    /\ pc' = "down" /\ deaths' = deaths + 1

\* switch_shm resets the pool.
Reset ==
    /\ pc = "run"
    /\ pool' = run(pool, reset_stores)
    /\ sets' = [k \in Keys |-> {}]
    /\ UNCHANGED <<pc, deaths>>

DieInReset ==
    /\ pc = "run" /\ deaths < MaxDeaths
    /\ \E i \in DOMAIN reset_stores : pool' = run(pool, SubSeq(reset_stores, 1, i))
    /\ sets' = [k \in Keys |-> {}]
    /\ pc' = "down" /\ deaths' = deaths + 1

\* The next mysqld opens the pool it finds.
Restart ==
    /\ pc = "down"
    /\ pc' = verify(pool)
    /\ UNCHANGED <<pool, deaths, sets>>

\* Somebody ends the hanging start, removes the segment and starts mysqld again.
RemoveSegment ==
    /\ pc \in {"refused", "hung"}
    /\ pc' = "run" /\ pool' = initialised /\ sets' = [k \in Keys |-> {}]
    /\ UNCHANGED deaths

Next ==
    \/ \E k \in Keys, v \in Values : Set(k, v) \/ DieInSet(k, v)
    \/ Reset \/ DieInReset \/ Restart \/ RemoveSegment

Spec == Init /\ [][Next]_vars

-----------------------------------------------------------------------------
(* Properties.                                                             *)

Distinct(s) == Cardinality(ToSet(s)) = Len(s)
Linked(h) == UNION {ToSet(BucketList(h, b)) : b \in Buckets}
Ends(next, head) == Distinct(Chain(next, head))

\* A complete change, store by store, is the operation of HashMap.
StoresAreOperations ==
    pc = "run" /\ deaths = 0 =>
        /\ run(pool, reset_stores) = initialised
        /\ \A k \in Keys, v \in Values :
             LET f == find_node(pool, k)
                 r == IF f.n = Nil THEN insert_node(f.h, k, <<v>>) ELSE update_node(f.h, f.n, <<v>>)
             IN  run(pool, set_stores(pool, k, v))
                   = IF r.n = Nil THEN r.h ELSE set_node_flag(r.h, r.n, "dirty")

\* Whatever a start admits can be looked up in and stored to: every bucket's list ends
\* and holds only nodes of its keys, no such node is free or in two lists, their
\* chunks are their own, what a key leads to is a value once stored under it, and the
\* add list, cut or even closed to a circle by a death, meets no other nodes.
AdmittedPoolServes ==
    pc = "run" =>
        /\ Ends(node_nexts(pool), pool.free_list_) /\ Ends(pool.a.next_, pool.a.free_list_)
        /\ \A b \in Buckets :
             /\ Ends(node_nexts(pool), pool.bucket[b])
             /\ ToSet(BucketList(pool, b)) \cap ToSet(FreeNodes(pool)) = {}
             /\ \A n \in ToSet(BucketList(pool, b)) :
                  /\ get_bucket_id(pool.node[n].key_) = b
                  /\ pool.node[n].chunk_head_ \notin ToSet(Chain(pool.a.next_, pool.a.free_list_))
                  /\ \A v \in ToSet(node_data(pool, n)) : v \in sets[pool.node[n].key_]
        /\ \A m, n \in Linked(pool) :
             m # n => /\ pool.node[m].chunk_head_ # pool.node[n].chunk_head_
                      /\ pool.node[m].key_ # pool.node[n].key_
        /\ ToSet(AddList(pool)) \subseteq Linked(pool)
=============================================================================
