--------------------------- MODULE MemPoolProofs ---------------------------
(***************************************************************************)
(* What pmalloc returns, for every size of the pool, of its headers and of *)
(* the requests. The inductive invariant relates `last' of each chunk to   *)
(* the regions taken from it: InBounds and Disjoint say nothing about      *)
(* `last', which is all that pmalloc looks at.                             *)
(***************************************************************************)
EXTENDS MemPool, SequenceTheorems, TLAPS

(* no chunk is taken from beyond its end *)
ChunksInv ==
    \A i \in 1 .. Len(chunks) :
        Header(i) <= chunks[i].last /\ chunks[i].last <= chunks[i].end

(* whatever was handed out lies below `last' *)
RegionsInv ==
    \A r \in regions :
        /\ r.chunk \in 1 .. Len(chunks)
        /\ Header(r.chunk) <= r.from /\ r.from < r.to
        /\ r.to <= chunks[r.chunk].last

(* a chunk of at least the pool's own size can be had *)
TotalInv == pool = "live" => total >= POOL_SIZE

IInv == TypeOK /\ TotalInv /\ ChunksInv /\ RegionsInv /\ Disjoint

LEMMA InitIInv == Init => IInv
  BY DEF Init, IInv, TypeOK, TotalInv, ChunksInv, RegionsInv, Disjoint

LEMMA HeaderType == \A i : Header(i) \in Nat /\ (i # 1 => Header(i) = CHUNK_HDR)
  BY PoolAssumption DEF Header

(* Taking size bytes from a chunk with room for them. *)
LEMMA TakeIInv ==
    ASSUME IInv, NEW size \in Nat \ {0}, TakeFromChunk(size), UNCHANGED pool,
           pool = "live", large' \in Seq(Blocks \cup {NULL}), heap' \subseteq Blocks
    PROVE  IInv'
<1>1. PICK i \in 1 .. Len(chunks) :
        /\ i \in Fitting(size)
        /\ chunks' = [chunks EXCEPT ![i] = Advanced(chunks[i], size)]
        /\ regions' = regions \cup
             {[chunk |-> i, from |-> chunks[i].last, to |-> chunks[i].last + size]}
        /\ UNCHANGED <<total, current>>
  BY Zenon DEF TakeFromChunk, IsFirst
<1>2. PICK c : c = chunks[i]
  OBVIOUS
<1>3. c \in Chunk /\ Header(i) <= c.last /\ c.last <= c.end
  BY <1>2 DEF IInv, TypeOK, ChunksInv
<1>4. c.end - c.last >= size
  <2>1. c.last \in Nat /\ c.end \in Nat /\ c.end - c.last >= 0
    BY <1>3 DEF Chunk
  <2>2. Room(i) >= size
    BY <1>1 DEF Fitting
  <2> QED
    BY <1>2, <2>1, <2>2 DEF Room
<1>5. PICK d : d = Advanced(c, size)
  OBVIOUS
<1>6. d \in Chunk /\ d.last = c.last + size /\ d.end = c.end
  BY <1>3, <1>5 DEF Advanced, Chunk
<1>7. PICK q : q = [chunk |-> i, from |-> c.last, to |-> c.last + size]
  BY Zenon
<1>8. q \in Region /\ q.chunk = i /\ q.from = c.last /\ q.to = c.last + size
  BY <1>3, <1>7 DEF Region, Chunk
<1>9. chunks' = [chunks EXCEPT ![i] = d] /\ regions' = regions \cup {q}
  BY <1>1, <1>2, <1>5, <1>7
<1>10. /\ chunks' \in Seq(Chunk) /\ Len(chunks') = Len(chunks) /\ chunks'[i] = d
       /\ \A j \in 1 .. Len(chunks) : j # i => chunks'[j] = chunks[j]
  BY <1>6, <1>9 DEF IInv, TypeOK
<1>11. TypeOK'
  BY <1>1, <1>8, <1>9, <1>10 DEF IInv, TypeOK
<1>12. TotalInv'
  BY <1>1 DEF IInv, TotalInv
<1>13. c.last \in Nat /\ c.end \in Nat /\ Header(i) \in Nat /\ c.last + size <= c.end
  BY <1>3, <1>4, HeaderType DEF Chunk
<1>14. ChunksInv'
  <2> SUFFICES ASSUME NEW j \in 1 .. Len(chunks)
               PROVE  Header(j) <= chunks'[j].last /\ chunks'[j].last <= chunks'[j].end
    BY <1>10 DEF ChunksInv
  <2>1. CASE j = i
    BY <1>3, <1>6, <1>10, <1>13, <2>1
  <2>2. CASE j # i
    BY <1>10, <2>2 DEF IInv, ChunksInv
  <2> QED
    BY <2>1, <2>2
<1>15. \A r \in regions : r.chunk = i => r.from \in Nat /\ r.to \in Nat /\ r.to <= c.last
  BY <1>2 DEF IInv, RegionsInv, TypeOK, Region
<1>16. RegionsInv'
  <2> SUFFICES ASSUME NEW r \in regions'
               PROVE  /\ r.chunk \in 1 .. Len(chunks)
                      /\ Header(r.chunk) <= r.from /\ r.from < r.to
                      /\ r.to <= chunks'[r.chunk].last
    BY <1>10 DEF RegionsInv
  <2>1. CASE r = q
    BY <1>3, <1>6, <1>8, <1>10, <1>13, <2>1
  <2>2. CASE r \in regions
    <3>1. /\ r.chunk \in 1 .. Len(chunks) /\ Header(r.chunk) <= r.from /\ r.from < r.to
          /\ r.to <= chunks[r.chunk].last
      BY <2>2 DEF IInv, RegionsInv
    <3>2. CASE r.chunk = i
      BY <1>6, <1>10, <1>13, <1>15, <2>2, <3>1, <3>2, SMTT(30), Zenon
    <3>3. CASE r.chunk # i
      BY <1>10, <3>1, <3>3
    <3> QED
      BY <3>2, <3>3
  <2> QED
    BY <1>9, <2>1, <2>2
<1>17. Disjoint'
  <2> SUFFICES ASSUME NEW r \in regions', NEW s \in regions', r.chunk = s.chunk, r # s
               PROVE  r.to <= s.from \/ s.to <= r.from
    BY DEF Disjoint
  <2>1. CASE r \in regions /\ s \in regions
    BY <2>1 DEF IInv, Disjoint
  <2>2. CASE r = q \/ s = q
    BY <1>8, <1>9, <1>15, <2>2
  <2> QED
    BY <1>9, <2>1, <2>2
<1> QED
  BY <1>11, <1>12, <1>14, <1>16, <1>17 DEF IInv

(* A sequence given as a function. *)
LEMMA FunctionSeq ==
    ASSUME NEW S, NEW n \in Nat, NEW f \in [1 .. n -> S]
    PROVE  f \in Seq(S) /\ Len(f) = n
<1>1. f \in Seq(S)
  BY SeqDef
<1> QED
  BY <1>1, LenProperties

(* Adding a chunk for a request that the pool's own size has room for. *)
LEMMA AddIInv ==
    ASSUME IInv, NEW size \in Nat \ {0}, size + CHUNK_HDR <= POOL_SIZE,
           add_mem_chunk(size), UNCHANGED pool,
           pool = "live", large' \in Seq(Blocks \cup {NULL}), heap' \subseteq Blocks
    PROVE  IInv'
<1> DEFINE n == Len(chunks)
           alloc_size == IF size > total THEN size ELSE total
           tired == {i \in current .. n - 1 : chunks[i].fail > FAILS}
           f == [i \in 1 .. n + 1 |->
                   IF i = n + 1 THEN [last |-> CHUNK_HDR + size, end |-> alloc_size, fail |-> 0]
                   ELSE IF i < current THEN chunks[i] ELSE Failed(chunks[i])]
<1>1. /\ chunks' = f
      /\ total' = total + alloc_size
      /\ \/ tired = {} /\ UNCHANGED current
         \/ \E i \in 1 .. n : i \in tired /\ current' = i + 1
      /\ regions' = regions \cup
            {[chunk |-> n + 1, from |-> CHUNK_HDR, to |-> CHUNK_HDR + size]}
  BY DEF add_mem_chunk, NewTotal, NextCurrent, IsLast
<1>2. n \in Nat /\ n >= 1 /\ total \in Nat /\ total >= POOL_SIZE /\ current \in 1 .. n
  BY DEF IInv, TypeOK, TotalInv
<1>3. /\ CHUNK_HDR \in Nat /\ POOL_SIZE \in Nat
      /\ alloc_size \in Nat /\ CHUNK_HDR + size <= alloc_size /\ alloc_size >= 0
  BY <1>2, PoolAssumption, SMTT(30)
<1>4. PICK new : new = [last |-> CHUNK_HDR + size, end |-> alloc_size, fail |-> 0]
  BY Zenon
<1>5. new \in Chunk /\ new.last = CHUNK_HDR + size /\ new.end = alloc_size
  BY <1>3, <1>4 DEF Chunk
<1>6. \A i \in 1 .. n : chunks[i] \in Chunk
  BY DEF IInv, TypeOK
<1>7. \A i \in 1 .. n : LET d == IF i < current THEN chunks[i] ELSE Failed(chunks[i])
                        IN  d \in Chunk /\ d.last = chunks[i].last /\ d.end = chunks[i].end
  BY <1>6 DEF Failed, Chunk
<1>8. /\ f \in [1 .. n + 1 -> Chunk] /\ f[n + 1] = new
      /\ \A i \in 1 .. n : f[i].last = chunks[i].last /\ f[i].end = chunks[i].end
  <2> DEFINE g(i) == IF i < current THEN chunks[i] ELSE Failed(chunks[i])
  <2>1. \A i \in 1 .. n + 1 : f[i] = IF i = n + 1 THEN new ELSE g(i)
    BY <1>4
  <2>2. \A i \in 1 .. n : g(i) \in Chunk /\ g(i).last = chunks[i].last /\ g(i).end = chunks[i].end
    BY <1>7
  <2> HIDE DEF g
  <2>3. f = [i \in 1 .. n + 1 |-> f[i]]
    OBVIOUS
  <2> HIDE DEF f
  <2>4. \A i \in 1 .. n : i \in 1 .. n + 1 /\ i # n + 1 /\ f[i] = g(i)
    BY <1>2, <2>1
  <2>5. f[n + 1] = new
    BY <1>2, <2>1
  <2>6. \A i \in 1 .. n + 1 : f[i] \in Chunk
    <3> TAKE i \in 1 .. n + 1
    <3>1. i = n + 1 \/ i \in 1 .. n
      BY <1>2
    <3> QED
      BY <1>5, <2>2, <2>4, <2>5, <3>1
  <2> QED
    BY <2>2, <2>3, <2>4, <2>5, <2>6, Zenon
<1> HIDE DEF f, alloc_size
<1>9. chunks' \in Seq(Chunk) /\ Len(chunks') = n + 1
  <2>1. n + 1 \in Nat
    BY <1>2
  <2>2. f \in Seq(Chunk) /\ Len(f) = n + 1
    BY <1>8, <2>1, FunctionSeq
  <2> QED
    BY <1>1, <2>2
<1>10. PICK q : q = [chunk |-> n + 1, from |-> CHUNK_HDR, to |-> CHUNK_HDR + size]
  BY Zenon
<1>11. q \in Region /\ q.chunk = n + 1 /\ q.from = CHUNK_HDR /\ q.to = CHUNK_HDR + size
  BY <1>2, <1>3, <1>10 DEF Region
<1>12. regions' = regions \cup {q}
  BY <1>1, <1>10
<1>13. TypeOK'
  <2>1. current' \in 1 .. n + 1
    BY <1>1, <1>2
  <2>2. total' \in Nat
    BY <1>1, <1>2, <1>3
  <2> QED
    BY <1>9, <1>11, <1>12, <2>1, <2>2 DEF IInv, TypeOK
<1>14. TotalInv'
  BY <1>1, <1>2, <1>3 DEF TotalInv
<1>15. Header(n + 1) = CHUNK_HDR
  BY <1>2 DEF Header
<1>16. ChunksInv'
  <2> SUFFICES ASSUME NEW j \in 1 .. n + 1
               PROVE  Header(j) <= chunks'[j].last /\ chunks'[j].last <= chunks'[j].end
    BY <1>9 DEF ChunksInv
  <2>1. CASE j = n + 1
    BY <1>1, <1>3, <1>5, <1>8, <1>15, <2>1
  <2>2. CASE j \in 1 .. n
    BY <1>1, <1>8, <2>2, SMTT(30), Zenon DEF IInv, ChunksInv
  <2> QED
    BY <1>2, <2>1, <2>2
<1>17. \A r \in regions : r.chunk \in 1 .. n /\ r.chunk # n + 1
  BY <1>2 DEF IInv, RegionsInv
<1>18. RegionsInv'
  <2> SUFFICES ASSUME NEW r \in regions'
               PROVE  /\ r.chunk \in 1 .. n + 1
                      /\ Header(r.chunk) <= r.from /\ r.from < r.to
                      /\ r.to <= chunks'[r.chunk].last
    BY <1>9 DEF RegionsInv
  <2>1. CASE r = q
    BY <1>1, <1>2, <1>3, <1>5, <1>8, <1>11, <1>15, <2>1, SMTT(30), Zenon
  <2>2. CASE r \in regions
    <3>1. /\ r.chunk \in 1 .. n /\ Header(r.chunk) <= r.from /\ r.from < r.to
          /\ r.to <= chunks[r.chunk].last
      BY <2>2 DEF IInv, RegionsInv
    <3> QED
      BY <1>1, <1>2, <1>8, <3>1, SMTT(30), Zenon
  <2> QED
    BY <1>12, <2>1, <2>2
<1>19. Disjoint'
  BY <1>11, <1>12, <1>17 DEF IInv, Disjoint
<1> QED
  BY <1>13, <1>14, <1>16, <1>18, <1>19 DEF IInv

LEMMA SmallAllocIInv ==
    ASSUME IInv, NEW size \in Nat \ {0}, size + CHUNK_HDR <= POOL_SIZE,
           SmallAlloc(size), UNCHANGED pool,
           pool = "live", large' \in Seq(Blocks \cup {NULL}), heap' \subseteq Blocks
    PROVE  IInv'
  BY TakeIInv, AddIInv DEF SmallAlloc

(* Steps that leave the chunks alone. *)
LEMMA SameChunksIInv ==
    ASSUME IInv, UNCHANGED <<pool, chunks, total, current, regions>>,
           large' \in Seq(Blocks \cup {NULL}), heap' \subseteq Blocks
    PROVE  IInv'
<1>1. TypeOK' /\ TotalInv'
  BY DEF IInv, TypeOK, TotalInv
<1>2. ChunksInv' /\ RegionsInv' /\ Disjoint'
  BY DEF IInv, ChunksInv, RegionsInv, Disjoint
<1> QED
  BY <1>1, <1>2 DEF IInv

LEMMA LargeIInv ==
    ASSUME IInv, NEW size, alloc_large_mem(size) PROVE IInv'
<1>1. PICK p \in Blocks \ heap :
         \/ /\ \E i \in Scanned : large' = [large EXCEPT ![i] = p]
            /\ heap' = heap \cup {p}
            /\ UNCHANGED <<chunks, total, current, regions>>
         \/ /\ SmallAlloc(LARGE_HDR)
            /\ large' = <<p>> \o large
            /\ heap' = heap \cup {p}
         \/ /\ heap' = heap
            /\ UNCHANGED <<chunks, total, current, regions, large>>
  BY DEF alloc_large_mem, HeapAfterFailure
<1>2. /\ large \in Seq(Blocks \cup {NULL}) /\ heap \subseteq Blocks
      /\ pool = "live" /\ UNCHANGED pool
  BY DEF IInv, TypeOK, alloc_large_mem
<1>3. CASE \E i \in Scanned : /\ large' = [large EXCEPT ![i] = p] /\ heap' = heap \cup {p}
                              /\ UNCHANGED <<chunks, total, current, regions>>
  <2>1. PICK i \in Scanned : large' = [large EXCEPT ![i] = p]
    BY <1>3, Zenon
  <2>2. large' \in Seq(Blocks \cup {NULL}) /\ heap' \subseteq Blocks
    BY <1>2, <1>3, <2>1 DEF Scanned
  <2> QED
    BY <1>2, <1>3, <2>2, SameChunksIInv
<1>4. CASE SmallAlloc(LARGE_HDR) /\ large' = <<p>> \o large /\ heap' = heap \cup {p}
  <2>1. large' \in Seq(Blocks \cup {NULL}) /\ heap' \subseteq Blocks
    BY <1>2, <1>4
  <2>2. LARGE_HDR \in Nat \ {0} /\ LARGE_HDR + CHUNK_HDR <= POOL_SIZE
    BY PoolAssumption
  <2> QED
    BY <1>2, <1>4, <2>1, <2>2, SmallAllocIInv
<1>5. CASE heap' = heap /\ UNCHANGED <<chunks, total, current, regions, large>>
  BY <1>2, <1>5, SameChunksIInv
<1> QED
  BY <1>1, <1>3, <1>4, <1>5

(* IInv is inductive if the requests leave room for a chunk's header. *)
LEMMA NextIInv ==
    ASSUME RequestsFit, IInv, [Next]_vars PROVE IInv'
<1>1. CASE mem_pool_create
  <2>1. /\ chunks' = <<[last |-> POOL_HDR, end |-> POOL_SIZE, fail |-> 0]>>
        /\ pool' = "live" /\ total' = POOL_SIZE /\ current' = 1 /\ large' = <<>>
        /\ regions' = {} /\ heap' = heap
    BY <1>1 DEF mem_pool_create, FirstCurrent
  <2>2. PICK c : c = [last |-> POOL_HDR, end |-> POOL_SIZE, fail |-> 0]
    BY Zenon
  <2>3. c \in Chunk /\ c.last = POOL_HDR /\ c.end = POOL_SIZE /\ POOL_HDR <= POOL_SIZE
    BY <2>2, PoolAssumption DEF Chunk
  <2>4. chunks' = <<c>> /\ Len(chunks') = 1 /\ chunks'[1] = c
    BY <2>1, <2>2
  <2>5. TypeOK' /\ TotalInv'
    BY <2>1, <2>3, <2>4, PoolAssumption, SMTT(30), Zenon DEF IInv, TypeOK, TotalInv
  <2>6. ChunksInv' /\ RegionsInv' /\ Disjoint'
    BY <2>1, <2>3, <2>4, PoolAssumption DEF ChunksInv, RegionsInv, Disjoint, Header
  <2> QED
    BY <2>5, <2>6 DEF IInv
<1>2. ASSUME NEW size \in Sizes, pmalloc(size) PROVE IInv'
  <2>1. /\ size \in Nat \ {0} /\ size + CHUNK_HDR <= POOL_SIZE
    BY <1>2, PoolAssumption DEF RequestsFit, pmalloc
  <2>2. /\ SmallAlloc(size) /\ pool = "live" /\ UNCHANGED pool
        /\ large' \in Seq(Blocks \cup {NULL}) /\ heap' \subseteq Blocks
    BY <1>2 DEF pmalloc, IInv, TypeOK
  <2> QED
    BY <2>1, <2>2, SmallAllocIInv
<1>3. ASSUME NEW size \in Sizes, alloc_large_mem(size) PROVE IInv'
  BY <1>3, LargeIInv
<1>4. ASSUME NEW p \in Blocks, pfree_large(p) PROVE IInv'
  <2>1. PICK i \in 1 .. Len(large) : large' = [large EXCEPT ![i] = NULL]
    BY <1>4, Zenon DEF pfree_large, DataAfterFree
  <2>2. large' \in Seq(Blocks \cup {NULL})
    BY <2>1 DEF IInv, TypeOK
  <2>3. heap' \subseteq Blocks /\ UNCHANGED <<pool, chunks, total, current, regions>>
    BY <1>4 DEF pfree_large, IInv, TypeOK
  <2> QED
    BY <2>2, <2>3, SameChunksIInv
<1>5. CASE mem_pool_destroy
  <2>1. /\ pool' \in {"none", "aborted"} /\ chunks' = <<>> /\ total' = 0
        /\ large' = <<>> /\ regions' = {} /\ heap' = heap
    BY <1>5 DEF mem_pool_destroy, FreeHeaders
  <2> QED
    BY <2>1 DEF IInv, TypeOK, TotalInv, ChunksInv, RegionsInv, Disjoint
<1>6. CASE mem_pool_clear
  <2> DEFINE n == Len(chunks)
             f == [i \in 1 .. n |-> Cleared(i, chunks[i])]
  <2>1. /\ pool = "live" /\ pool' \in {"live", "aborted"} /\ chunks' = f
        /\ current' = 1 /\ large' = <<>> /\ regions' = {} /\ total' = total /\ heap' = heap
    BY <1>6 DEF mem_pool_clear, FreeHeaders, FirstCurrent
  <2>2. n \in Nat /\ n >= 1
    BY <2>1 DEF IInv, TypeOK
  <2>3. \A i \in 1 .. n : chunks[i] \in Chunk /\ Header(i) \in Nat
                          /\ Header(i) <= chunks[i].last /\ chunks[i].last <= chunks[i].end
    BY HeaderType DEF IInv, TypeOK, ChunksInv
  <2>4. \A i \in 1 .. n : /\ f[i] \in Chunk /\ f[i].last = Header(i)
                          /\ f[i].end = chunks[i].end
    BY <2>3 DEF Cleared, Chunk
  <2>5. f \in [1 .. n -> Chunk]
    BY <2>4
  <2> HIDE DEF f
  <2>6. chunks' \in Seq(Chunk) /\ Len(chunks') = n
    BY <2>1, <2>2, <2>5, FunctionSeq
  <2>7. TypeOK' /\ TotalInv'
    BY <2>1, <2>2, <2>6, SMTT(30), Zenon DEF IInv, TypeOK, TotalInv
  <2>8. ChunksInv'
    <3> SUFFICES ASSUME NEW i \in 1 .. n
                 PROVE  Header(i) <= chunks'[i].last /\ chunks'[i].last <= chunks'[i].end
      BY <2>6 DEF ChunksInv
    <3> QED
      BY <2>1, <2>3, <2>4, SMTT(30), Zenon DEF Chunk
  <2>9. RegionsInv' /\ Disjoint'
    BY <2>1 DEF RegionsInv, Disjoint
  <2> QED
    BY <2>7, <2>8, <2>9 DEF IInv
<1>7. CASE UNCHANGED vars
  BY <1>7, SameChunksIInv DEF vars, IInv, TypeOK
<1> QED
  BY <1>1, <1>2, <1>3, <1>4, <1>5, <1>6, <1>7 DEF Next

(* The inductive invariant holds after any sequence of calls of the pool's *)
(* functions, if the requests leave room for a chunk's header.             *)
THEOREM Invariance == ASSUME RequestsFit PROVE Spec => []IInv
<1>1. IInv /\ [Next]_vars => IInv'
  BY NextIInv
<1> QED
  BY <1>1, InitIInv, PTL DEF Spec

(* If every request leaves room for a chunk's header in a chunk of the     *)
(* pool's own size, then all memory pmalloc returns lies inside a chunk.   *)
(* mem_pool.c itself does not check that.                                  *)
THEOREM AllocationsInBounds == ASSUME RequestsFit PROVE Spec => []InBounds
<1>1. IInv => InBounds
  <2> SUFFICES ASSUME IInv, NEW r \in regions
               PROVE  /\ r.chunk \in 1 .. Len(chunks)
                      /\ Header(r.chunk) <= r.from /\ r.to <= chunks[r.chunk].end
    BY DEF InBounds
  <2>1. /\ r.chunk \in 1 .. Len(chunks) /\ Header(r.chunk) <= r.from
        /\ r.to <= chunks[r.chunk].last /\ r.to \in Nat
    BY DEF IInv, RegionsInv, TypeOK, Region
  <2>2. /\ chunks[r.chunk].last \in Nat /\ chunks[r.chunk].end \in Nat
        /\ chunks[r.chunk].last <= chunks[r.chunk].end
    <3>1. chunks[r.chunk] \in Chunk
      BY <2>1 DEF IInv, TypeOK
    <3> QED
      BY <2>1, <3>1 DEF IInv, ChunksInv, Chunk
  <2> QED
    BY <2>1, <2>2
<1> QED
  BY <1>1, Invariance, PTL

(* Under the same condition pmalloc never hands out a byte twice between   *)
(* two calls that empty the pool.                                          *)
THEOREM AllocationsDisjoint == ASSUME RequestsFit PROVE Spec => []Disjoint
<1>1. IInv => Disjoint
  BY DEF IInv
<1> QED
  BY <1>1, Invariance, PTL

-----------------------------------------------------------------------------
(* The lists of chunks and of large memory. Nothing here depends on the    *)
(* sizes of the requests.                                                  *)

(* The chunks from `current' on have failed at most FAILS + 1 times and    *)
(* the newest one never, so the failure that makes add_mem_chunk pass over *)
(* a chunk is its (FAILS + 2)nd.                                           *)
FailInv ==
    pool = "live" =>
        /\ \A i \in current .. Len(chunks) : chunks[i].fail <= FAILS + 1
        /\ chunks[Len(chunks)].fail = 0

(* a pool that is not there has no list of large memory *)
NoneInv == pool = "none" => large = <<>>

ListInv == TypeOK /\ NoneInv /\ FailInv /\ SkippedHadFailed /\ LargeListSound

(* what the steps that take memory from the chunks have to keep *)
ChunksOK ==
    /\ chunks \in Seq(Chunk) /\ total \in Nat /\ regions \subseteq Region
    /\ current \in 1 .. Len(chunks)
    /\ FailInv /\ SkippedHadFailed

LEMMA TakeChunksOK ==
    ASSUME ChunksOK, NEW size \in Nat, TakeFromChunk(size), UNCHANGED pool
    PROVE  ChunksOK'
<1>1. PICK i \in 1 .. Len(chunks) :
        /\ chunks' = [chunks EXCEPT ![i] = Advanced(chunks[i], size)]
        /\ regions' = regions \cup
             {[chunk |-> i, from |-> chunks[i].last, to |-> chunks[i].last + size]}
        /\ UNCHANGED <<total, current>>
  BY Zenon DEF TakeFromChunk
<1>2. chunks[i] \in Chunk
  BY DEF ChunksOK
<1>3. PICK d : d = Advanced(chunks[i], size)
  OBVIOUS
<1>4. d \in Chunk /\ d.fail = chunks[i].fail
  BY <1>2, <1>3 DEF Advanced, Chunk
<1>5. chunks' = [chunks EXCEPT ![i] = d]
  BY <1>1, <1>3
<1>6. /\ chunks' \in Seq(Chunk) /\ Len(chunks') = Len(chunks)
      /\ \A j \in 1 .. Len(chunks) : chunks'[j].fail = chunks[j].fail
  BY <1>4, <1>5 DEF ChunksOK
<1>7. regions' \subseteq Region
  <2>1. chunks[i].last \in Nat /\ i \in Nat
    BY <1>2 DEF Chunk
  <2>2. [chunk |-> i, from |-> chunks[i].last, to |-> chunks[i].last + size] \in Region
    BY <2>1 DEF Region
  <2> QED
    BY <1>1, <2>2 DEF ChunksOK
<1>8. current \in 1 .. Len(chunks) /\ Len(chunks) \in Nat
  BY DEF ChunksOK
<1>9. FailInv' /\ SkippedHadFailed'
  <2>1. \A j \in current .. Len(chunks) : j \in 1 .. Len(chunks)
    BY <1>8
  <2>2. /\ Len(chunks) \in 1 .. Len(chunks)
        /\ current > 1 => current - 1 \in 1 .. Len(chunks)
    BY <1>8, SMTT(30), Zenon
  <2>3. FailInv'
    BY <1>1, <1>6, <2>1, <2>2, Zenon DEF ChunksOK, FailInv
  <2>4. SkippedHadFailed'
    BY <1>1, <1>6, <2>2 DEF ChunksOK, SkippedHadFailed
  <2> QED
    BY <2>3, <2>4
<1> QED
  BY <1>1, <1>6, <1>7, <1>8, <1>9 DEF ChunksOK

LEMMA AddChunksOK ==
    ASSUME ChunksOK, NEW size \in Nat, add_mem_chunk(size), pool = "live", UNCHANGED pool
    PROVE  ChunksOK'
<1> DEFINE n == Len(chunks)
           alloc_size == IF size > total THEN size ELSE total
           tired == {i \in current .. n - 1 : chunks[i].fail > FAILS}
           f == [i \in 1 .. n + 1 |->
                   IF i = n + 1 THEN [last |-> CHUNK_HDR + size, end |-> alloc_size, fail |-> 0]
                   ELSE IF i < current THEN chunks[i] ELSE Failed(chunks[i])]
<1>1. /\ chunks' = f
      /\ total' = total + alloc_size
      /\ \/ tired = {} /\ UNCHANGED current
         \/ \E i \in 1 .. n : /\ i \in tired /\ \A j \in tired : j <= i
                              /\ current' = i + 1
      /\ regions' = regions \cup
            {[chunk |-> n + 1, from |-> CHUNK_HDR, to |-> CHUNK_HDR + size]}
  BY DEF add_mem_chunk, NewTotal, NextCurrent, IsLast
<1>2. /\ n \in Nat /\ total \in Nat /\ current \in 1 .. n
      /\ CHUNK_HDR \in Nat /\ FAILS \in Nat /\ alloc_size \in Nat
  BY PoolAssumption DEF ChunksOK
<1>3. \A i \in 1 .. n : chunks[i] \in Chunk
  BY DEF ChunksOK
<1>4. \A i \in 1 .. n : chunks[i].fail \in Nat
  BY <1>3 DEF Chunk
<1>5. \A i \in 1 .. n : Failed(chunks[i]) \in Chunk /\ Failed(chunks[i]).fail = chunks[i].fail + 1
  BY <1>3 DEF Failed, Chunk
<1>6. PICK new : new = [last |-> CHUNK_HDR + size, end |-> alloc_size, fail |-> 0]
  BY Zenon
<1>7. new \in Chunk /\ new.fail = 0
  BY <1>2, <1>6 DEF Chunk
<1>8. /\ f \in [1 .. n + 1 -> Chunk] /\ f[n + 1] = new
      /\ \A i \in 1 .. n : f[i] = IF i < current THEN chunks[i] ELSE Failed(chunks[i])
  <2> DEFINE g(i) == IF i < current THEN chunks[i] ELSE Failed(chunks[i])
  <2>1. \A i \in 1 .. n + 1 : f[i] = IF i = n + 1 THEN new ELSE g(i)
    BY <1>6
  <2>2. f = [i \in 1 .. n + 1 |-> f[i]]
    OBVIOUS
  <2> HIDE DEF f
  <2>3. \A i \in 1 .. n : g(i) \in Chunk
    BY <1>3, <1>5
  <2>4. f[n + 1] = new /\ \A i \in 1 .. n : f[i] = g(i)
    <3> HIDE DEF g
    <3> QED  BY <1>2, <2>1
  <2>5. \A i \in 1 .. n + 1 : f[i] \in Chunk
    <3> HIDE DEF g
    <3> TAKE i \in 1 .. n + 1
    <3>1. i = n + 1 \/ i \in 1 .. n
      BY <1>2
    <3> QED  BY <1>7, <2>3, <2>4, <3>1
  <2> QED
    BY <2>2, <2>4, <2>5, Zenon
<1> HIDE DEF f, alloc_size
<1>9. chunks' \in Seq(Chunk) /\ Len(chunks') = n + 1
  BY <1>1, <1>2, <1>8, FunctionSeq
<1>10. /\ \A i \in 1 .. n : i < current => chunks'[i].fail = chunks[i].fail
       /\ \A i \in current .. n : chunks'[i].fail = chunks[i].fail + 1
       /\ chunks'[n + 1].fail = 0
  BY <1>1, <1>2, <1>5, <1>7, <1>8
<1>11. /\ \A i \in current .. n : chunks[i].fail <= FAILS + 1
       /\ chunks[n].fail = 0
       /\ current > 1 => chunks[current - 1].fail = FAILS + 2
  BY DEF ChunksOK, FailInv, SkippedHadFailed
<1>12. current' \in 1 .. n + 1 /\ total' \in Nat /\ regions' \subseteq Region
  <2>1. current' \in 1 .. n + 1
    BY <1>1, <1>2
  <2>2. [chunk |-> n + 1, from |-> CHUNK_HDR, to |-> CHUNK_HDR + size] \in Region
    BY <1>2 DEF Region
  <2> QED
    BY <1>1, <1>2, <2>1, <2>2 DEF ChunksOK
<1>13. /\ \A i \in current' .. n + 1 : chunks'[i].fail <= FAILS + 1
       /\ current' > 1 => chunks'[current' - 1].fail = FAILS + 2
  <2>1. CASE tired = {} /\ current' = current
    <3>1. \A i \in current .. n - 1 : chunks[i].fail <= FAILS
      <4> TAKE i \in current .. n - 1
      <4>1. ~ (chunks[i].fail > FAILS)
        BY <2>1, Zenon
      <4> HIDE DEF tired
      <4>2. i \in 1 .. n
        BY <1>2
      <4>3. chunks[i].fail \in Nat
        BY <1>4, <4>2
      <4> QED  BY <1>2, <4>1, <4>3
    <3>2. \A i \in current .. n : chunks[i].fail <= FAILS
      BY <1>2, <1>11, <3>1
    <3> HIDE DEF tired
    <3>3. \A i \in current .. n + 1 : chunks'[i].fail <= FAILS + 1
      <4> TAKE i \in current .. n + 1
      <4>1. CASE i = n + 1
        BY <1>2, <1>10, <4>1
      <4>2. CASE i # n + 1
        <5>1. i \in current .. n /\ i \in 1 .. n
          BY <1>2, <4>2
        <5>2. chunks'[i].fail = chunks[i].fail + 1 /\ chunks[i].fail <= FAILS /\ chunks[i].fail \in Nat
          BY <1>4, <1>10, <3>2, <5>1
        <5> QED  BY <1>2, <5>2, SMTT(30), Zenon
      <4> QED  BY <4>1, <4>2
    <3> QED
      BY <1>2, <1>10, <1>11, <2>1, <3>3, SMTT(30), Zenon
  <2>2. ASSUME NEW k \in tired, \A j \in tired : j <= k, current' = k + 1
        PROVE  /\ \A i \in current' .. n + 1 : chunks'[i].fail <= FAILS + 1
               /\ current' > 1 => chunks'[current' - 1].fail = FAILS + 2
    <3>1. k \in current .. n - 1 /\ chunks[k].fail > FAILS
      OBVIOUS
    <3>2. \A i \in k + 1 .. n - 1 : chunks[i].fail <= FAILS
      <4> TAKE i \in k + 1 .. n - 1
      <4>1. i \in current .. n - 1 /\ ~ (i <= k)
        BY <1>2, <3>1
      <4>2. i \notin tired
        BY <2>2, <4>1
      <4> QED
        BY <1>2, <1>4, <4>1, <4>2
    <3> HIDE DEF tired
    <3>3. \A i \in k + 1 .. n : chunks[i].fail <= FAILS
      BY <1>2, <1>11, <3>1, <3>2, SMTT(30), Zenon
    <3>4. \A i \in k + 1 .. n + 1 : chunks'[i].fail <= FAILS + 1
      <4> TAKE i \in k + 1 .. n + 1
      <4>1. CASE i = n + 1
        BY <1>2, <1>10, <4>1
      <4>2. CASE i # n + 1
        <5>1. i \in current .. n /\ i \in 1 .. n /\ i \in k + 1 .. n
          BY <1>2, <3>1, <4>2
        <5>2. chunks'[i].fail = chunks[i].fail + 1 /\ chunks[i].fail <= FAILS /\ chunks[i].fail \in Nat
          BY <1>4, <1>10, <3>3, <5>1
        <5> QED  BY <1>2, <5>2, SMTT(30), Zenon
      <4> QED  BY <4>1, <4>2
    <3>5. chunks'[k].fail = FAILS + 2
      <4>1. k \in current .. n /\ k \in 1 .. n
        BY <1>2, <3>1
      <4>2. /\ chunks'[k].fail = chunks[k].fail + 1 /\ chunks[k].fail \in Nat
            /\ chunks[k].fail <= FAILS + 1
        BY <1>4, <1>10, <1>11, <4>1
      <4> QED  BY <1>2, <3>1, <4>2, SMTT(30), Zenon
    <3> QED
      BY <1>2, <2>2, <3>1, <3>4, <3>5
  <2> HIDE DEF tired, n
  <2> QED
    BY <1>1, <2>1, <2>2
<1>14. FailInv' /\ SkippedHadFailed'
  BY <1>9, <1>10, <1>13 DEF FailInv, SkippedHadFailed
<1> QED
  BY <1>9, <1>12, <1>14, SMTT(30), Zenon DEF ChunksOK

LEMMA SmallAllocChunksOK ==
    ASSUME ChunksOK, NEW size \in Nat, SmallAlloc(size), pool = "live", UNCHANGED pool
    PROVE  ChunksOK'
  BY TakeChunksOK, AddChunksOK DEF SmallAlloc

-----------------------------------------------------------------------------

Headers == Seq(Blocks \cup {NULL})

(* A header whose block was freed is used again. *)
LEMMA HeaderReused ==
    ASSUME large \in Headers, heap \subseteq Blocks, LargeListSound,
           NEW p \in Blocks \ heap, NEW i \in 1 .. Len(large), large[i] = NULL,
           large' = [large EXCEPT ![i] = p], heap' = heap \cup {p}
    PROVE  /\ large' \in Headers /\ heap' \subseteq Blocks /\ LargeListSound'
           /\ heap' \ Reached' \subseteq heap \ Reached
<1>1. /\ large' \in Headers /\ Len(large') = Len(large) /\ large'[i] = p
      /\ \A j \in 1 .. Len(large) : j # i => large'[j] = large[j]
  BY DEF Headers
<1>2. \A j \in 1 .. Len(large) : large[j] # p
  BY DEF LargeListSound, Reached, Blocks, NULL
<1>3. Reached' = Reached \cup {p}
  BY <1>1 DEF Reached, Blocks, NULL
<1>4. LargeListSound'
  BY <1>1, <1>2, <1>3 DEF LargeListSound
<1> QED
  BY <1>1, <1>3, <1>4

(* A new header is put in front of the list. *)
LEMMA HeaderAdded ==
    ASSUME large \in Headers, heap \subseteq Blocks, LargeListSound,
           NEW p \in Blocks \ heap, large' = <<p>> \o large, heap' = heap \cup {p}
    PROVE  /\ large' \in Headers /\ heap' \subseteq Blocks /\ LargeListSound'
           /\ heap' \ Reached' \subseteq heap \ Reached
<1>1. /\ large' \in Headers /\ Len(large') = Len(large) + 1 /\ large'[1] = p
      /\ \A j \in 1 .. Len(large) : large'[j + 1] = large[j]
  BY DEF Headers
<1>2. \A j \in 1 .. Len(large') : j # 1 => j - 1 \in 1 .. Len(large) /\ large'[j] = large[j - 1]
  BY <1>1 DEF Headers
<1>3. \A j \in 1 .. Len(large) : large[j] # p
  BY DEF LargeListSound, Reached, Blocks, NULL
<1>4. Reached' = Reached \cup {p}
  <2>1. p # NULL
    BY DEF Blocks, NULL
  <2>2. \A j \in 1 .. Len(large) : j + 1 \in 1 .. Len(large')
    BY <1>1 DEF Headers
  <2>3. 1 \in 1 .. Len(large')
    BY <1>1 DEF Headers
  <2>4. \A x : x \in Reached' <=> x # NULL /\ \E j \in 1 .. Len(large') : x = large'[j]
    BY DEF Reached
  <2>5. \A x : x \in Reached <=> x # NULL /\ \E j \in 1 .. Len(large) : x = large[j]
    BY DEF Reached
  <2>6. ASSUME NEW x \in Reached' PROVE x \in Reached \cup {p}
    <3>1. PICK j \in 1 .. Len(large') : x = large'[j] /\ x # NULL
      BY <2>4
    <3> QED  BY <1>1, <1>2, <2>5, <3>1
  <2>7. ASSUME NEW x \in Reached \cup {p} PROVE x \in Reached'
    <3>1. CASE x = p
      BY <1>1, <2>1, <2>3, <2>4, <3>1
    <3>2. CASE x \in Reached
      <4>1. PICK j \in 1 .. Len(large) : x = large[j] /\ x # NULL
        BY <2>5, <3>2
      <4> QED  BY <1>1, <2>2, <2>4, <4>1
    <3> QED  BY <3>1, <3>2
  <2> QED
    BY <2>6, <2>7
<1>5. LargeListSound'
  <2>1. Reached' \subseteq heap'
    BY <1>4 DEF LargeListSound
  <2> SUFFICES ASSUME NEW j \in 1 .. Len(large'), NEW k \in 1 .. Len(large'),
                      large'[j] = large'[k], large'[j] # NULL
               PROVE  j = k
    BY <2>1 DEF LargeListSound
  <2>2. CASE j = 1 \/ k = 1
    BY <1>1, <1>2, <1>3, <2>2
  <2>3. CASE j # 1 /\ k # 1
    <3>1. j - 1 = k - 1
      BY <1>2, <2>3 DEF LargeListSound
    <3> QED  BY <3>1
  <2> QED  BY <2>2, <2>3
<1> QED
  BY <1>1, <1>4, <1>5

(* A block is freed and its header kept. *)
LEMMA BlockFreed ==
    ASSUME large \in Headers, heap \subseteq Blocks, LargeListSound,
           NEW p \in Blocks, NEW i \in 1 .. Len(large), large[i] = p,
           large' = [large EXCEPT ![i] = NULL], heap' = heap \ {p}
    PROVE  /\ large' \in Headers /\ heap' \subseteq Blocks /\ LargeListSound'
           /\ heap' \ Reached' \subseteq heap \ Reached
<1>1. /\ large' \in Headers /\ Len(large') = Len(large) /\ large'[i] = NULL
      /\ \A j \in 1 .. Len(large) : j # i => large'[j] = large[j]
  BY DEF Headers
<1>2. \A j \in 1 .. Len(large) : j # i => large[j] # p
  BY DEF LargeListSound, Blocks, NULL
<1>3. Reached' = Reached \ {p}
  BY <1>1, <1>2 DEF Reached, Blocks, NULL
<1>4. LargeListSound'
  BY <1>1, <1>3 DEF LargeListSound
<1> QED
  BY <1>1, <1>3, <1>4

(* Every function of the pool keeps the lists sound, and all but the two   *)
(* that empty the pool keep every block in the list.                       *)
LEMMA NextListInv ==
    ASSUME ListInv, [Next]_vars
    PROVE  /\ ListInv'
           /\ \/ heap' \ Reached' \subseteq heap \ Reached
              \/ mem_pool_clear \/ mem_pool_destroy
<1> DEFINE Kept == heap' \ Reached' \subseteq heap \ Reached
<1>0. large \in Headers /\ heap \subseteq Blocks /\ LargeListSound
  BY DEF ListInv, TypeOK, Headers
<1>a. pool = "live" => ChunksOK
  BY DEF ListInv, TypeOK, ChunksOK
<1>b. ASSUME pool = "live", pool' = "live", ChunksOK',
             large' \in Headers, heap' \subseteq Blocks, LargeListSound'
      PROVE  ListInv'
  BY <1>b DEF ListInv, TypeOK, ChunksOK, Headers, NoneInv
<1>c. ASSUME UNCHANGED <<pool, chunks, total, current, regions>>, pool = "live" PROVE ChunksOK'
  BY <1>a, <1>c DEF ChunksOK, FailInv, SkippedHadFailed
<1>1. CASE mem_pool_create
  <2>1. /\ chunks' = <<[last |-> POOL_HDR, end |-> POOL_SIZE, fail |-> 0]>>
        /\ pool = "none" /\ pool' = "live" /\ total' = POOL_SIZE /\ current' = 1
        /\ large' = <<>> /\ regions' = {} /\ heap' = heap
    BY <1>1 DEF mem_pool_create, FirstCurrent
  <2>2. PICK c : c = [last |-> POOL_HDR, end |-> POOL_SIZE, fail |-> 0]
    BY Zenon
  <2>3. c \in Chunk /\ c.fail = 0 /\ FAILS \in Nat
    BY <2>2, PoolAssumption DEF Chunk
  <2>4. chunks' \in Seq(Chunk) /\ Len(chunks') = 1 /\ chunks'[1].fail = 0
    BY <2>1, <2>2, <2>3
  <2>5. FailInv' /\ SkippedHadFailed' /\ NoneInv'
    BY <2>1, <2>3, <2>4 DEF FailInv, SkippedHadFailed, NoneInv
  <2>6. TypeOK'
    BY <1>0, <2>1, <2>4, PoolAssumption DEF TypeOK, Headers
  <2>7. Reached' = {} /\ large = <<>>
    BY <2>1 DEF Reached, ListInv, NoneInv
  <2>8. LargeListSound' /\ Kept
    BY <2>1, <2>7 DEF LargeListSound, Reached
  <2> QED
    BY <2>5, <2>6, <2>8 DEF ListInv
<1>2. ASSUME NEW size \in Sizes, pmalloc(size) PROVE ListInv' /\ Kept
  <2>1. size \in Nat /\ SmallAlloc(size) /\ pool = "live" /\ UNCHANGED <<pool, large, heap>>
    BY <1>2, PoolAssumption DEF pmalloc
  <2>2. ChunksOK'
    BY <1>a, <2>1, SmallAllocChunksOK
  <2>3. LargeListSound' /\ Kept
    BY <1>0, <2>1 DEF LargeListSound, Reached
  <2> QED
    BY <1>0, <1>b, <2>1, <2>2, <2>3
<1>3. ASSUME NEW size \in Sizes, alloc_large_mem(size) PROVE ListInv' /\ Kept
  <2>1. PICK p \in Blocks \ heap :
         \/ /\ \E i \in Scanned : i \in Unused /\ large' = [large EXCEPT ![i] = p]
            /\ heap' = heap \cup {p}
            /\ UNCHANGED <<chunks, total, current, regions>>
         \/ /\ SmallAlloc(LARGE_HDR)
            /\ large' = <<p>> \o large
            /\ heap' = heap \cup {p}
         \/ /\ heap' = heap
            /\ UNCHANGED <<chunks, total, current, regions, large>>
    BY <1>3 DEF alloc_large_mem, HeapAfterFailure, IsFirst
  <2>2. pool = "live" /\ UNCHANGED pool
    BY <1>3 DEF alloc_large_mem
  <2>3. ASSUME NEW i \in Scanned, i \in Unused, large' = [large EXCEPT ![i] = p],
               heap' = heap \cup {p}, UNCHANGED <<chunks, total, current, regions>>
        PROVE  ListInv' /\ Kept
    <3>1. i \in 1 .. Len(large) /\ large[i] = NULL
      BY <2>3 DEF Unused, Scanned
    <3>2. large' \in Headers /\ heap' \subseteq Blocks /\ LargeListSound' /\ Kept
      BY <1>0, <2>3, <3>1, HeaderReused, Zenon
    <3> QED
      BY <1>b, <1>c, <2>2, <2>3, <3>2
  <2>4. CASE SmallAlloc(LARGE_HDR) /\ large' = <<p>> \o large /\ heap' = heap \cup {p}
    <3>1. LARGE_HDR \in Nat
      BY PoolAssumption
    <3>2. large' \in Headers /\ heap' \subseteq Blocks /\ LargeListSound' /\ Kept
      BY <1>0, <2>4, HeaderAdded
    <3>3. ChunksOK'
      BY <1>a, <2>2, <2>4, <3>1, SmallAllocChunksOK
    <3> QED
      BY <1>b, <2>2, <3>2, <3>3
  <2>5. CASE heap' = heap /\ UNCHANGED <<chunks, total, current, regions, large>>
    <3>1. LargeListSound' /\ Kept
      BY <1>0, <2>5 DEF LargeListSound, Reached
    <3> QED
      BY <1>0, <1>b, <1>c, <2>2, <2>5, <3>1
  <2> QED
    BY <2>1, <2>3, <2>4, <2>5
<1>4. ASSUME NEW p \in Blocks, pfree_large(p) PROVE ListInv' /\ Kept
  <2>1. PICK i \in 1 .. Len(large) : large[i] = p /\ large' = [large EXCEPT ![i] = NULL]
    BY <1>4, Zenon DEF pfree_large, DataAfterFree, IsFirst
  <2>2. pool = "live" /\ heap' = heap \ {p} /\ UNCHANGED <<pool, chunks, total, current, regions>>
    BY <1>4 DEF pfree_large
  <2>3. large' \in Headers /\ heap' \subseteq Blocks /\ LargeListSound' /\ Kept
    BY <1>0, <2>1, <2>2, BlockFreed, Zenon
  <2> QED
    BY <1>b, <1>c, <2>2, <2>3
<1>5. CASE mem_pool_destroy
  <2>1. /\ pool' \in {"none", "aborted"} /\ chunks' = <<>> /\ total' = 0
        /\ large' = <<>> /\ regions' = {} /\ heap' = heap
    BY <1>5 DEF mem_pool_destroy, FreeHeaders
  <2>2. TypeOK' /\ NoneInv'
    BY <1>0, <2>1 DEF TypeOK, NoneInv
  <2>3. FailInv' /\ SkippedHadFailed'
    BY <2>1 DEF FailInv, SkippedHadFailed
  <2>4. LargeListSound'
    BY <2>1 DEF LargeListSound, Reached
  <2> QED
    BY <1>5, <2>2, <2>3, <2>4 DEF ListInv
<1>6. CASE mem_pool_clear
  <2> DEFINE n == Len(chunks)
             f == [i \in 1 .. n |-> Cleared(i, chunks[i])]
  <2>1. /\ pool = "live" /\ pool' \in {"live", "aborted"} /\ chunks' = f
        /\ current' = 1 /\ large' = <<>> /\ regions' = {} /\ total' = total /\ heap' = heap
    BY <1>6 DEF mem_pool_clear, FreeHeaders, FirstCurrent
  <2>2. n \in Nat /\ n >= 1 /\ total \in Nat /\ FAILS \in Nat
    BY <1>a, <2>1, PoolAssumption, SMTT(30), Zenon DEF ChunksOK
  <2>3. \A i \in 1 .. n : chunks[i] \in Chunk /\ Header(i) \in Nat
    BY <1>a, <2>1, HeaderType DEF ChunksOK
  <2>4. \A i \in 1 .. n : f[i] \in Chunk /\ f[i].fail = 0
    BY <2>3 DEF Cleared, Chunk
  <2>5. f \in [1 .. n -> Chunk]
    BY <2>4
  <2> HIDE DEF f
  <2>6. chunks' \in Seq(Chunk) /\ Len(chunks') = n
    BY <2>1, <2>2, <2>5, FunctionSeq
  <2>7. \A i \in 1 .. n : chunks'[i].fail = 0
    BY <2>1, <2>4
  <2>8. FailInv' /\ SkippedHadFailed'
    BY <2>1, <2>2, <2>6, <2>7 DEF FailInv, SkippedHadFailed
  <2>9. TypeOK' /\ NoneInv'
    BY <1>0, <2>1, <2>2, <2>6 DEF TypeOK, NoneInv
  <2>10. LargeListSound'
    BY <2>1 DEF LargeListSound, Reached
  <2> QED
    BY <1>6, <2>8, <2>9, <2>10 DEF ListInv
<1>7. CASE UNCHANGED vars
  <2>1. UNCHANGED <<pool, chunks, total, current, large, heap, regions>>
    BY <1>7 DEF vars
  <2>2. TypeOK' /\ NoneInv' /\ FailInv'
    BY <2>1 DEF ListInv, TypeOK, NoneInv, FailInv
  <2>3. SkippedHadFailed' /\ LargeListSound' /\ Kept
    BY <2>1 DEF ListInv, SkippedHadFailed, LargeListSound, Reached
  <2> QED
    BY <2>2, <2>3 DEF ListInv
<1> QED
  BY <1>1, <1>2, <1>3, <1>4, <1>5, <1>6, <1>7 DEF Next

(* The lists stay sound through any sequence of calls, for every size of   *)
(* the pool and of the requests.                                           *)
THEOREM ListInvariance == Spec => []ListInv
<1>1. Init => ListInv
  BY DEF Init, ListInv, TypeOK, NoneInv, FailInv, SkippedHadFailed, LargeListSound, Reached
<1>2. ListInv /\ [Next]_vars => ListInv'
  BY NextListInv
<1> QED
  BY <1>1, <1>2, PTL DEF Spec

(* A live pool has a first chunk and `current' points to one of its        *)
(* chunks, whatever pmalloc, pfree and mem_pool_clear did before.          *)
THEOREM TypeCorrect == Spec => []TypeOK
<1>1. ListInv => TypeOK
  BY DEF ListInv
<1> QED
  BY <1>1, ListInvariance, PTL

(* add_mem_chunk passes over chunks only when the last of them has failed  *)
(* to serve FAILS + 2 times.                                               *)
THEOREM PassedOverHadFailed == Spec => []SkippedHadFailed
<1>1. ListInv => SkippedHadFailed
  BY DEF ListInv
<1> QED
  BY <1>1, ListInvariance, PTL

(* Every block in the list of large memory is allocated and has one        *)
(* header, so pfree_large frees no block twice.                            *)
THEOREM LargeBlocksSound == Spec => []LargeListSound
<1>1. ListInv => LargeListSound
  BY DEF ListInv
<1> QED
  BY <1>1, ListInvariance, PTL

(* No call but mem_pool_clear and mem_pool_destroy takes an allocated      *)
(* block out of the list of large memory.                                  *)
THEOREM NoBlockLost == Spec => NothingLost
<1>1. ListInv /\ [Next]_vars
        => [heap' \ Reached' \subseteq heap \ Reached
            \/ mem_pool_clear \/ mem_pool_destroy]_vars
  BY NextListInv
<1> QED
  BY <1>1, ListInvariance, PTL DEF Spec, NothingLost

====
