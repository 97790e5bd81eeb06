------------------------------ MODULE MemPool ------------------------------
(***************************************************************************)
(* A memory pool (src/mem_pool.c): a list of chunks that memory is taken   *)
(* from by advancing `last', and a list of headers of large blocks, which  *)
(* come from malloc one by one. Addresses are offsets into their chunk;    *)
(* the first chunk begins with the pool's own structure.                   *)
(***************************************************************************)
EXTENDS Integers, Sequences

CONSTANTS
    POOL_SIZE,          \* the size given to mem_pool_create
    MAX_SIZE_OF_CHUNK,
    POOL_HDR,           \* sizeof(mem_pool_t)
    CHUNK_HDR,          \* sizeof(mem_pool_chunk_t)
    LARGE_HDR,          \* sizeof(mem_pool_large_t)
    SIZE_T,             \* the number of values of size_t
    FAILS,              \* add_mem_chunk's 4
    SCAN,               \* alloc_large_mem's 3
    Sizes,              \* the sizes asked for
    MAX_CHUNKS, MAX_LARGE   \* bounds on the model

ASSUME PoolAssumption ==
    /\ {POOL_SIZE, MAX_SIZE_OF_CHUNK, POOL_HDR, CHUNK_HDR, LARGE_HDR, SIZE_T,
        FAILS, SCAN, MAX_CHUNKS, MAX_LARGE} \subseteq Nat
    /\ Sizes \subseteq Nat \ {0}
    /\ 0 < LARGE_HDR /\ LARGE_HDR + CHUNK_HDR <= POOL_SIZE
    /\ LARGE_HDR <= MAX_SIZE_OF_CHUNK
    /\ CHUNK_HDR <= POOL_HDR /\ POOL_HDR <= POOL_SIZE

VARIABLES
    pool,      \* "none", "live", or "aborted" by an invalid free
    chunks,    \* the list from pool->chunk on
    total,     \* pool->total
    current,   \* pool->current, an index of chunks
    large,     \* the data fields of the list pool->large
    heap,      \* the large blocks malloc gave out and nobody freed
    regions    \* what pmalloc took from the chunks since they were last empty

vars == <<pool, chunks, total, current, large, heap, regions>>

NULL == 0
Blocks == 1 .. MAX_LARGE

max == IF POOL_SIZE < MAX_SIZE_OF_CHUNK THEN POOL_SIZE ELSE MAX_SIZE_OF_CHUNK

Chunk  == [last : Nat, end : Nat, fail : Nat]
Region == [chunk : Nat, from : Nat, to : Nat]

Header(i) == IF i = 1 THEN POOL_HDR ELSE CHUNK_HDR

-----------------------------------------------------------------------------

FirstCurrent_Unset == 0

(* pool->current = &pool->chunk *)
FirstCurrent == 1

mem_pool_create ==
    /\ pool = "none"
    /\ pool' = "live"
    /\ chunks' = <<[last |-> POOL_HDR, end |-> POOL_SIZE, fail |-> 0]>>
    /\ total' = POOL_SIZE
    /\ current' = FirstCurrent
    /\ large' = <<>>
    /\ regions' = {}
    /\ UNCHANGED heap

IsFirst(i, S) == i \in S /\ \A j \in S : i <= j
IsLast(i, S)  == i \in S /\ \A j \in S : j <= i

Room_HeaderFree(i) == chunks[i].end - chunks[i].last + CHUNK_HDR

(* chunk->end - p as pmalloc compares it: with the size_t `size', hence as *)
(* an unsigned number                                                      *)
Room(i) ==
    LET d == chunks[i].end - chunks[i].last
    IN  IF d < 0 THEN d + SIZE_T ELSE d

(* the chunks that can serve a request; the walk begins at `current'       *)
Fitting(size) == {i \in current .. Len(chunks) : Room(i) >= size}

Advanced_Reused(c, size) == c
Advanced(c, size) == [last |-> c.last + size, end |-> c.end, fail |-> c.fail]

Failed(c) == [last |-> c.last, end |-> c.end, fail |-> c.fail + 1]

TakeFromChunk(size) ==
    \E i \in 1 .. Len(chunks) :
        /\ IsFirst(i, Fitting(size))
        /\ chunks' = [chunks EXCEPT ![i] = Advanced(chunks[i], size)]
        /\ regions' = regions \cup
             {[chunk |-> i, from |-> chunks[i].last, to |-> chunks[i].last + size]}
        /\ UNCHANGED <<total, current>>

NewTotal(alloc_size, size) == total + alloc_size

NextCurrent_OneMore(i) == i + 2

(* pool->current = p->next *)
NextCurrent(i) == i + 1

add_mem_chunk(size) ==
    LET alloc_size == IF size > total THEN size ELSE total
        n == Len(chunks)
        new_chunk == [last |-> CHUNK_HDR + size, end |-> alloc_size, fail |-> 0]
        tired == {i \in current .. n - 1 : chunks[i].fail > FAILS}
    IN  /\ Fitting(size) = {}
        /\ n < MAX_CHUNKS
        /\ chunks' = [i \in 1 .. n + 1 |->
                        IF i = n + 1 THEN new_chunk
                        ELSE IF i < current THEN chunks[i] ELSE Failed(chunks[i])]
        /\ total' = NewTotal(alloc_size, size)
        /\ \/ tired = {} /\ UNCHANGED current
           \/ \E i \in 1 .. n : IsLast(i, tired) /\ current' = NextCurrent(i)
        /\ regions' = regions \cup
             {[chunk |-> n + 1, from |-> CHUNK_HDR, to |-> CHUNK_HDR + size]}

(* A malloc that fails leaves the chunks as they were. *)
SmallAlloc(size) == TakeFromChunk(size) \/ add_mem_chunk(size)

pmalloc(size) ==
    /\ pool = "live" /\ size <= max
    /\ SmallAlloc(size)
    /\ UNCHANGED <<pool, large, heap>>

(* the headers alloc_large_mem looks at *)
Scanned == {i \in 1 .. Len(large) : i <= SCAN + 2}

Unused == {i \in Scanned : large[i] = NULL}

HeapAfterFailure_Kept(p) == heap \cup {p}

(* without a header for it, alloc_large_mem frees the block *)
HeapAfterFailure(p) == heap

alloc_large_mem(size) ==
    /\ pool = "live" /\ size > max
    /\ \E p \in Blocks \ heap :
         \/ /\ \E i \in Scanned : /\ IsFirst(i, Unused)
                                  /\ large' = [large EXCEPT ![i] = p]
            /\ heap' = heap \cup {p}
            /\ UNCHANGED <<chunks, total, current, regions>>
         \/ /\ Unused = {}
            /\ SmallAlloc(LARGE_HDR)
            /\ large' = <<p>> \o large
            /\ heap' = heap \cup {p}
         \/ /\ Unused = {} /\ Fitting(LARGE_HDR) = {}
            /\ heap' = HeapAfterFailure(p)
            /\ UNCHANGED <<chunks, total, current, regions, large>>
    /\ UNCHANGED pool

DataAfterFree_Kept(p) == p

(* l->data once its block is freed *)
DataAfterFree(p) == NULL

(* A block that is not in the list is not freed. *)
pfree_large(p) ==
    /\ pool = "live"
    /\ \E i \in 1 .. Len(large) :
         /\ IsFirst(i, {j \in 1 .. Len(large) : large[j] = p})
         /\ large' = [large EXCEPT ![i] = DataAfterFree(p)]
    /\ heap' = heap \ {p}
    /\ UNCHANGED <<pool, chunks, total, current, regions>>

(* mem_pool_destroy and mem_pool_clear free the headers, which are memory  *)
(* of a chunk and not blocks of malloc: the behaviour is undefined. malloc *)
(* notices and ends the process, or does nothing that can be seen here.    *)
FreeHeaders(next) == IF large = <<>> THEN {next} ELSE {next, "aborted"}

mem_pool_destroy ==
    /\ pool = "live"
    /\ pool' \in FreeHeaders("none")
    /\ chunks' = <<>> /\ total' = 0 /\ current' = 0 /\ large' = <<>> /\ regions' = {}
    /\ UNCHANGED heap

(* &pool->chunk is the last field of the pool's structure *)
Cleared(i, c) == [last |-> Header(i), end |-> c.end, fail |-> 0]

mem_pool_clear ==
    /\ pool = "live"
    /\ pool' \in FreeHeaders("live")
    /\ large' = <<>>
    /\ current' = FirstCurrent
    /\ chunks' = [i \in 1 .. Len(chunks) |-> Cleared(i, chunks[i])]
    /\ regions' = {}
    /\ UNCHANGED <<total, heap>>

Init ==
    /\ pool = "none" /\ chunks = <<>> /\ total = 0 /\ current = 0
    /\ large = <<>> /\ heap = {} /\ regions = {}

Next ==
    \/ mem_pool_create
    \/ \E size \in Sizes : pmalloc(size) \/ alloc_large_mem(size)
    \/ \E p \in Blocks : pfree_large(p)
    \/ mem_pool_destroy \/ mem_pool_clear
    \/ pool = "aborted" /\ UNCHANGED vars

Spec == Init /\ [][Next]_vars

-----------------------------------------------------------------------------
(* The requests for which a chunk of the pool's own size is large enough,  *)
(* its header included.                                                    *)
RequestsFit == \A s \in Sizes : s <= max => s + CHUNK_HDR <= POOL_SIZE

(* A live pool has a first chunk, and `current' is one of its chunks.      *)
TypeOK ==
    /\ pool \in {"none", "live", "aborted"}
    /\ chunks \in Seq(Chunk)
    /\ total \in Nat
    /\ large \in Seq(Blocks \cup {NULL})
    /\ heap \subseteq Blocks
    /\ regions \subseteq Region
    /\ pool = "live" => current \in 1 .. Len(chunks)
    /\ pool = "none" => chunks = <<>>

(* All memory that pmalloc returns, to its callers and as headers of large *)
(* blocks, lies inside a chunk and behind the chunk's own header.          *)
InBounds ==
    \A r \in regions :
        /\ r.chunk \in 1 .. Len(chunks)
        /\ Header(r.chunk) <= r.from /\ r.to <= chunks[r.chunk].end

(* pmalloc never hands out memory twice between two calls that empty the   *)
(* pool, whichever chunk `current' has moved to.                           *)
Disjoint ==
    \A r, s \in regions :
        r.chunk = s.chunk /\ r # s => r.to <= s.from \/ s.to <= r.from

Reached == {large[i] : i \in 1 .. Len(large)} \ {NULL}

(* Every block in the list of large memory is allocated, under one header; *)
(* so pfree_large never frees a block twice.                               *)
LargeListSound ==
    /\ Reached \subseteq heap
    /\ \A i, j \in 1 .. Len(large) : large[i] = large[j] /\ large[i] # NULL => i = j

(* While the pool is in use no large block is lost: each one is in the     *)
(* list until pfree_large frees it, also when its header cannot be had.    *)
NothingLost ==
    [][heap' \ Reached' \subseteq heap \ Reached
       \/ mem_pool_clear \/ mem_pool_destroy]_vars

(* Chunks are passed over only when the last of them had failed to serve   *)
(* FAILS + 2 times; a chunk before it may have served to the end.          *)
SkippedHadFailed ==
    pool = "live" /\ current > 1 => chunks[current - 1].fail = FAILS + 2

(* "release large memory at first", says mem_pool_clear of its first loop: *)
(* when the list of large memory is empty, no large block is left.         *)
LargeReleased == large = <<>> => heap = {}

=============================================================================
