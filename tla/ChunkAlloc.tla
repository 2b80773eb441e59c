----------------------------- MODULE ChunkAlloc -----------------------------
(***************************************************************************)
(* CChunkAllocator (tfc_cache_chunk_alloc): a pool of ChunkTotal chunks of *)
(* ChunkSize bytes each, linked through next_ into a free list and into    *)
(* one chain per stored value.  Handles (offsets into the pool) are the    *)
(* numbers of the chunks; Nil is INVALID_BC_MEM_HANDLER_L.                 *)
(*                                                                         *)
(* The operators take and return the allocator's memory, a record          *)
(*   [next_, data_, free_list_, free_total_].                              *)
(***************************************************************************)
EXTENDS Naturals, Sequences, SequencesExt, FiniteSets

CONSTANTS ChunkTotal, ChunkSize

ASSUME ChunkAssumption == ChunkTotal \in Nat /\ ChunkSize \in Nat \ {0}

Nil == 0
Chunks == 1..ChunkTotal

\* The handles met when next is followed from head until Nil.  A list that is
\* longer than the number of handles runs in a circle (and so would the code).
Chain(next, head) ==
    LET bound == Cardinality(DOMAIN next) + 1
        walk[i \in 0..bound] ==
            [p \in DOMAIN next \cup {Nil} |->
                IF p = Nil \/ i = 0 THEN <<>> ELSE <<p>> \o walk[i - 1][next[p]]]
    IN  walk[bound][head]

-----------------------------------------------------------------------------
\* init_pool_data: the chunks enter the free list in order, each at its head.
init_chunks ==
    [next_       |-> [c \in Chunks |-> c - 1],
     data_       |-> [c \in Chunks |-> [b \in 1..ChunkSize |-> 0]],
     free_list_  |-> ChunkTotal,
     free_total_ |-> ChunkTotal]

\* verify_pool_data: the free list has free_total_ chunks.
verify_chunks(a) == Len(Chain(a.next_, a.free_list_)) = a.free_total_

\* get_chunk_num: chunks that hold len bytes.
get_chunk_num(len) == (len + ChunkSize - 1) \div ChunkSize

\* One turn of malloc's loop: the head of the free list becomes the head of
\* the chain being built.
malloc_one(m) ==
    [head |-> m.a.free_list_,
     a    |-> [m.a EXCEPT !.free_list_ = m.a.next_[m.a.free_list_],
                          !.next_[m.a.free_list_] = m.head]]

\* Wrong variant: the last chunks are never given away.
malloc_refuses_last(a, n) ==
    IF a.free_total_ <= n
      THEN [a |-> a, head |-> Nil]
      ELSE LET m == FoldLeft(LAMBDA acc, i : malloc_one(acc), [a |-> a, head |-> Nil],
                             [i \in 1..n |-> i])
           IN  [m EXCEPT !.a.free_total_ = @ - n]

\* Wrong variant: a chain of n chunks is accounted for as one chunk.
malloc_counts_one(a, n) ==
    IF a.free_total_ < n
      THEN [a |-> a, head |-> Nil]
      ELSE LET m == FoldLeft(LAMBDA acc, i : malloc_one(acc), [a |-> a, head |-> Nil],
                             [i \in 1..n |-> i])
           IN  [m EXCEPT !.a.free_total_ = @ - 1]

\* malloc(n): a chain of n chunks, or Nil and no change if fewer are free.
\* malloc(0) also answers Nil, the handle of an empty chain.
malloc(a, n) ==
    IF a.free_total_ < n
      THEN [a |-> a, head |-> Nil]
      ELSE LET m == FoldLeft(LAMBDA acc, i : malloc_one(acc), [a |-> a, head |-> Nil],
                             [i \in 1..n |-> i])
           IN  [m EXCEPT !.a.free_total_ = @ - n]

chunk_free_list_insert(a, c) ==
    [a EXCEPT !.next_[c] = a.free_list_, !.free_list_ = c]

\* free(head): the chunks of the chain go to the head of the free list one by one.
free(a, head) ==
    FoldLeft(LAMBDA acc, c : [chunk_free_list_insert(acc, c) EXCEPT !.free_total_ = @ + 1],
             a, Chain(a.next_, head))

\* Wrong variant: every chunk of the chain receives the first bytes.
split_same_bytes(a, head, bytes) ==
    LET chain == Chain(a.next_, head)
    IN  [a EXCEPT !.data_ = [c \in Chunks |->
            [b \in 1..ChunkSize |->
                IF c \in ToSet(chain) /\ b <= Len(bytes) THEN bytes[b] ELSE a.data_[c][b]]]]

\* split: the bytes fill the chunks of the chain in order; what a chunk holds
\* beyond the last byte stays as it was.
split(a, head, bytes) ==
    LET chain == Chain(a.next_, head)
        cell(i, b) == (i - 1) * ChunkSize + b
    IN  [a EXCEPT !.data_ = [c \in Chunks |->
            [b \in 1..ChunkSize |->
                LET at == {i \in DOMAIN chain : chain[i] = c /\ cell(i, b) <= Len(bytes)}
                IN  IF at = {} THEN a.data_[c][b]
                    ELSE bytes[cell(CHOOSE i \in at : TRUE, b)]]]]

\* merge: the first len bytes of the chain, read back in order.
merge(a, head, len) ==
    LET chain == Chain(a.next_, head)
    IN  [p \in 1..len |-> a.data_[chain[((p - 1) \div ChunkSize) + 1]]
                                 [((p - 1) % ChunkSize) + 1]]
=============================================================================
