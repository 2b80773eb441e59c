------------------------------- MODULE HashMap -------------------------------
(***************************************************************************)
(* CHashMap (tfc_cache_hash_map): the hash map inside a pool.  NodeTotal   *)
(* nodes are linked into a free list (node_next_), into one doubly linked  *)
(* list per bucket (node_prev_, node_next_) and into the doubly linked     *)
(* "add list" (add_prev_, add_next_) that keeps the most recently used     *)
(* node at its head.  A node's value is a chain of chunks (ChunkAlloc).    *)
(*                                                                         *)
(* The operators take and return the pool, a record                        *)
(*   [node, bucket, add_head_, add_tail_, free_list_, used_node_num_, a];  *)
(* the ones that answer a node return [h |-> pool, n |-> node].  Keys are  *)
(* the first 32 bits of the 16 byte keys, the part that chooses a bucket.  *)
(* The time stamps add_info_1_ and add_info_2_ steer nothing here and are  *)
(* left out.                                                               *)
(***************************************************************************)
EXTENDS ChunkAlloc

CONSTANTS Keys, NodeTotal, BucketSize

ASSUME NodeAssumption == /\ Keys \subseteq Nat
                         /\ NodeTotal \in Nat
                         /\ BucketSize \in Nat \ {0}

Nodes == 1..NodeTotal
Buckets == 0..(BucketSize - 1)
Flags == {"unchg", "dirty"}

get_bucket_id(k) == k % BucketSize

\* init_node
blank_node == [key_ |-> 0, chunk_len_ |-> 0, chunk_head_ |-> Nil, node_prev_ |-> Nil,
               node_next_ |-> Nil, add_prev_ |-> Nil, add_next_ |-> Nil, flag_ |-> "unchg"]

\* init_pool_data: every node enters the free list at its head.
init_pool ==
    [node           |-> [n \in Nodes |-> [blank_node EXCEPT !.node_next_ = n - 1]],
     bucket         |-> [b \in Buckets |-> Nil],
     add_head_      |-> Nil,
     add_tail_      |-> Nil,
     free_list_     |-> NodeTotal,
     used_node_num_ |-> 0,
     a              |-> init_chunks]

node_nexts(h) == [n \in Nodes |-> h.node[n].node_next_]
add_nexts(h)  == [n \in Nodes |-> h.node[n].add_next_]
add_prevs(h)  == [n \in Nodes |-> h.node[n].add_prev_]

\* The nodes of the add list, most recently used first; those of a bucket; the free ones.
AddList(h)       == Chain(add_nexts(h), h.add_head_)
BucketList(h, b) == Chain(node_nexts(h), h.bucket[b])
FreeNodes(h)     == Chain(node_nexts(h), h.free_list_)

\* verify_pool_data of the map and of the allocator, as open() runs them.
verify_pool(h) ==
    /\ h.used_node_num_ + Len(FreeNodes(h)) = NodeTotal
    /\ verify_chunks(h.a)

-----------------------------------------------------------------------------
\* A store through a pointer that is NULL-checked first.
set_node_prev(node, n, v) == IF n = Nil THEN node ELSE [node EXCEPT ![n].node_prev_ = v]
set_node_next(node, n, v) == IF n = Nil THEN node ELSE [node EXCEPT ![n].node_next_ = v]
set_add_prev(node, n, v)  == IF n = Nil THEN node ELSE [node EXCEPT ![n].add_prev_ = v]
set_add_next(node, n, v)  == IF n = Nil THEN node ELSE [node EXCEPT ![n].add_next_ = v]

free_list_insert(h, n) ==
    [h EXCEPT !.node[n].node_next_ = h.free_list_, !.free_list_ = n]

\* n is the head of the free list.
free_list_remove(h, n) ==
    [h EXCEPT !.node[n].node_next_ = Nil, !.free_list_ = h.node[n].node_next_]

insert_node_list(h, n) ==
    LET b    == get_bucket_id(h.node[n].key_)
        next == h.bucket[b]
    IN  [h EXCEPT !.node = set_node_prev([h.node EXCEPT ![n].node_next_ = next,
                                                        ![n].node_prev_ = Nil], next, n),
                  !.bucket[b] = n,
                  !.used_node_num_ = @ + 1]

\* Wrong variant: the node behind the removed one keeps its back pointer.
delete_from_node_list_one_way(h, n) ==
    LET next == h.node[n].node_next_
        prev == h.node[n].node_prev_
        b    == get_bucket_id(h.node[n].key_)
        node == set_node_next(h.node, prev, next)
    IN  [h EXCEPT !.node = [node EXCEPT ![n].node_next_ = Nil, ![n].node_prev_ = Nil],
                  !.bucket[b] = IF @ = n THEN next ELSE @,
                  !.used_node_num_ = @ - 1]

delete_from_node_list(h, n) ==
    LET next == h.node[n].node_next_
        prev == h.node[n].node_prev_
        b    == get_bucket_id(h.node[n].key_)
        node == set_node_prev(set_node_next(h.node, prev, next), next, prev)
    IN  [h EXCEPT !.node = [node EXCEPT ![n].node_next_ = Nil, ![n].node_prev_ = Nil],
                  !.bucket[b] = IF @ = n THEN next ELSE @,
                  !.used_node_num_ = @ - 1]

\* A node that has no neighbours and is neither head nor tail is in no list.
delete_from_add_list(h, n) ==
    LET next == h.node[n].add_next_
        prev == h.node[n].add_prev_
        node == set_add_prev(set_add_next(h.node, prev, next), next, prev)
    IN  IF next = Nil /\ prev = Nil /\ h.add_head_ # n /\ h.add_tail_ # n
          THEN h
          ELSE [h EXCEPT !.node = [node EXCEPT ![n].add_next_ = Nil, ![n].add_prev_ = Nil],
                         !.add_head_ = IF @ = n THEN next ELSE @,
                         !.add_tail_ = IF @ = n THEN prev ELSE @]

insert_add_list_head(h0, n) ==
    LET h    == delete_from_add_list(h0, n)
        next == h.add_head_
    IN  [h EXCEPT !.node = set_add_prev([h.node EXCEPT ![n].add_next_ = next,
                                                       ![n].add_prev_ = Nil], next, n),
                  !.add_head_ = n,
                  !.add_tail_ = IF @ = Nil THEN n ELSE @]

-----------------------------------------------------------------------------
\* The node of key k in its bucket's list, Nil if there is none.
lookup(h, k) ==
    LET walk[i \in 0..NodeTotal] ==
            [n \in Nodes \cup {Nil} |->
                IF n = Nil \/ i = 0 THEN Nil
                ELSE IF h.node[n].key_ = k THEN n ELSE walk[i - 1][h.node[n].node_next_]]
    IN  walk[NodeTotal][h.bucket[get_bucket_id(k)]]

\* A node that is found becomes the most recently used one.
find_node(h, k) ==
    LET n == lookup(h, k)
    IN  [h |-> IF n = Nil THEN h ELSE insert_add_list_head(h, n), n |-> n]

\* use_node
use_node(h, n, k, len, head) ==
    insert_node_list([h EXCEPT !.node[n].key_ = k, !.node[n].chunk_len_ = len,
                               !.node[n].chunk_head_ = head], n)

\* insert_node: no free node, or no chain of chunks, and nothing has changed.
insert_node(h, k, bytes) ==
    LET n == h.free_list_
        p == free_list_remove(h, n)
        m == malloc(p.a, get_chunk_num(Len(bytes)))
        q == [p EXCEPT !.a = split(m.a, m.head, bytes)]
    IN  IF n = Nil THEN [h |-> h, n |-> Nil]
        ELSE IF m.head = Nil THEN [h |-> free_list_insert(p, n), n |-> Nil]
        ELSE [h |-> insert_add_list_head(use_node(q, n, k, Len(bytes), m.head), n), n |-> n]

\* The free chunks and the ones the old value gives back are enough for the new value.
update_fits(h, n, bytes) ==
    get_chunk_num(Len(bytes)) <= get_chunk_num(h.node[n].chunk_len_) + h.a.free_total_

\* Wrong variant: the new value's chunks are taken without freeing the old ones.
update_node_leaks(h, n, bytes) ==
    LET same == get_chunk_num(Len(bytes)) = get_chunk_num(h.node[n].chunk_len_)
        m    == IF same THEN [a |-> h.a, head |-> h.node[n].chunk_head_]
                ELSE malloc(h.a, get_chunk_num(Len(bytes)))
    IN  IF ~update_fits(h, n, bytes) THEN [h |-> h, n |-> Nil]
        ELSE [h |-> insert_add_list_head(
                      [h EXCEPT !.a = split(m.a, m.head, bytes),
                                !.node[n].chunk_head_ = m.head,
                                !.node[n].chunk_len_ = Len(bytes)], n),
              n |-> n]

\* update_node: another number of chunks is freed first, then allocated; the
\* same number is overwritten in place.
update_node(h, n, bytes) ==
    LET same == get_chunk_num(Len(bytes)) = get_chunk_num(h.node[n].chunk_len_)
        m    == IF same THEN [a |-> h.a, head |-> h.node[n].chunk_head_]
                ELSE malloc(free(h.a, h.node[n].chunk_head_), get_chunk_num(Len(bytes)))
    IN  IF ~update_fits(h, n, bytes) THEN [h |-> h, n |-> Nil]
        ELSE [h |-> insert_add_list_head(
                      [h EXCEPT !.a = split(m.a, m.head, bytes),
                                !.node[n].chunk_head_ = m.head,
                                !.node[n].chunk_len_ = Len(bytes)], n),
              n |-> n]

free_node(h, n) ==
    LET d == delete_from_node_list(h, n)
    IN  [d EXCEPT !.a = free(d.a, d.node[n].chunk_head_), !.node[n] = blank_node]

delete_node(h, n) ==
    free_list_insert(free_node(delete_from_add_list(h, n), n), n)

\* merge_node_data
node_data(h, n) == merge(h.a, h.node[n].chunk_head_, h.node[n].chunk_len_)

set_node_flag(h, n, f) == [h EXCEPT !.node[n].flag_ = f]
=============================================================================
