----------------------------- MODULE BufferPool -----------------------------
(* The buffer pool of crates/compute/src/buffer_pool.rs: blocks handed out   *)
(* as PoolVec handles, reclaimed on drop onto a free list keyed by size, and *)
(* shared by threads.  Only pop and push of the free list run under the      *)
(* mutex, so an allocation and a drop take two steps each and the steps of   *)
(* different handles interleave.                                             *)
(*                                                                           *)
(* A Vec that outgrows its block is given other storage by the global        *)
(* allocator, which may sit at any address and may even be the same block    *)
(* extended in place.                                                        *)
EXTENDS Naturals, Sequences, FiniteSets

CONSTANTS Handles,    \* the PoolVecs that may exist at once
          Blocks,     \* addresses the global allocator may return
          Align,      \* BUFFER_ALIGN, in bytes
          Sizes,      \* sizes of the element types, powers of two
          MaxCap,     \* bound: elements of a buffer
          MaxChunks,  \* bound: chunks of a block
          NoBlock

IsPow2(n)   == \E k \in 0..n : n = 2^k
NextPow2(n) == CHOOSE p \in n..2 * n : IsPow2(p) /\ \A q \in n..p - 1 : ~IsPow2(q)
Larger(m, n) == IF m > n THEN m ELSE n

(* byte_len of a request *)
ByteLen(capacity, size) == Larger(NextPow2(capacity * size), Align)

Classes == 1..MaxChunks

(* BUFFER_ALIGN and the sizes of the pooled types are powers of two, which   *)
(* the code asserts at compile time; so a block is a whole number of chunks  *)
(* and of elements.                                                          *)
ASSUME PoolAssumption ==
  /\ Align \in Nat \ {0}
  /\ Sizes \subseteq Nat \ {0}
  /\ MaxCap \in Nat /\ MaxChunks \in Nat
  /\ NoBlock \notin Blocks
  /\ \A size \in Sizes : \A capacity \in 1..MaxCap :
       LET bytes == ByteLen(capacity, size)
       IN  /\ bytes \in Nat /\ bytes >= capacity * size
           /\ bytes % Align = 0 /\ bytes % size = 0

(* Memory has finitely many addresses, and a program finitely many handles. *)
ASSUME FiniteAssumption == IsFiniteSet(Handles) /\ IsFiniteSet(Blocks)

VARIABLES free_list,  \* per block size in chunks, a stack of blocks
          heap,       \* what the global allocator knows of each block
          vec,        \* the handles, and where their calls stand
          peak        \* per block size, the most blocks ever in use at once

vars == <<free_list, heap, vec, peak>>

Free   == [bytes |-> 0, aligned |-> FALSE, layout |-> "none"]
Absent == [pc |-> "absent", block |-> NoBlock, cap |-> 0, size |-> 0, chunks |-> 0]

Allocated == {b \in Blocks : heap[b].layout # "none"}

(* A block the drop of its handle would put on the free list of class n. *)
Poolable(b, n) == heap[b].aligned /\ heap[b].bytes = n * Align

InUse(hp, v, n) ==
  Cardinality({h \in Handles :
     \/ v[h].pc \in {"popped", "dropping"} /\ v[h].chunks = n
     \/ /\ v[h].pc = "live" /\ v[h].block # NoBlock
        /\ hp[v[h].block].aligned /\ hp[v[h].block].bytes = n * Align})

Raise == peak' = [n \in Classes |-> Larger(peak[n], InUse(heap', vec', n))]

Init == /\ free_list = [n \in Classes |-> <<>>]
        /\ heap = [b \in Blocks |-> Free]
        /\ vec = [h \in Handles |-> Absent]
        /\ peak = [n \in Classes |-> 0]
------------------------------------------------------------------------------
(* Mutant: the block is read off the free list and left on it. *)
AllocVecNotPopped(h, size, capacity) ==
  LET n == ByteLen(capacity, size) \div Align
  IN  /\ vec[h].pc = "absent" /\ capacity > 0 /\ n \in Classes
      /\ vec' = [vec EXCEPT ![h] = [Absent EXCEPT !.pc = "popped", !.size = size, !.chunks = n,
           !.block = IF free_list[n] = <<>> THEN NoBlock
                     ELSE free_list[n][Len(free_list[n])]]]
      /\ UNCHANGED <<free_list, heap>>
      /\ Raise

(* Mutant: the free list is never looked at. *)
AllocVecFresh(h, size, capacity) ==
  LET n == ByteLen(capacity, size) \div Align
  IN  /\ vec[h].pc = "absent" /\ capacity > 0 /\ n \in Classes
      /\ vec' = [vec EXCEPT ![h] = [Absent EXCEPT !.pc = "popped", !.size = size, !.chunks = n]]
      /\ UNCHANGED <<free_list, heap>>
      /\ Raise

(* alloc_data, up to the release of the free list's lock.  A request for no  *)
(* element has no block.                                                     *)
AllocVec(h, size, capacity) ==
  LET n == ByteLen(capacity, size) \div Align
      list == free_list[n]
      popped(b) == [Absent EXCEPT !.pc = "popped", !.size = size, !.chunks = n, !.block = b]
  IN  /\ vec[h].pc = "absent"
      /\ \/ /\ capacity = 0
            /\ vec' = [vec EXCEPT ![h] = [Absent EXCEPT !.pc = "live", !.size = size]]
            /\ UNCHANGED free_list
         \/ /\ capacity > 0 /\ n \in Classes /\ list = <<>>
            /\ vec' = [vec EXCEPT ![h] = popped(NoBlock)]
            /\ UNCHANGED free_list
         \/ /\ capacity > 0 /\ n \in Classes /\ list # <<>>
            /\ vec' = [vec EXCEPT ![h] = popped(list[Len(list)])]
            /\ free_list' = [free_list EXCEPT ![n] = SubSeq(list, 1, Len(list) - 1)]
      /\ UNCHANGED heap
      /\ Raise

(* The rest of alloc_data: a fresh block if none was popped, and the block   *)
(* lent to a Vec<T>.                                                         *)
FinishAlloc(h) ==
  LET bytes == vec[h].chunks * Align
      live(b) == [vec[h] EXCEPT !.pc = "live", !.block = b, !.chunks = 0,
                                !.cap = bytes \div vec[h].size]
  IN  /\ vec[h].pc = "popped"
      /\ \/ /\ vec[h].block # NoBlock
            /\ vec' = [vec EXCEPT ![h] = live(vec[h].block)]
            /\ UNCHANGED heap
         \/ /\ vec[h].block = NoBlock
            /\ \E b \in Blocks \ Allocated :
                 /\ vec' = [vec EXCEPT ![h] = live(b)]
                 /\ heap' = [heap EXCEPT ![b] =
                               [bytes |-> bytes, aligned |-> TRUE, layout |-> "chunks"]]
      /\ UNCHANGED free_list
      /\ Raise

(* push, extend, extend_from_slice and resize past the capacity: the Vec     *)
(* moves to larger storage of its own, at an address that is a multiple of   *)
(* Align or is not, or is extended where it stands.  Within the capacity     *)
(* they, clear, truncate and set_len change nothing the pool can see.        *)
Grow(h, cap) ==
  LET bytes == cap * vec[h].size
      old == vec[h].block
      grown(b) == [vec[h] EXCEPT !.block = b, !.cap = cap]
  IN  /\ vec[h].pc = "live"
      /\ vec[h].cap < cap /\ bytes <= MaxChunks * Align
      /\ \/ \E b \in Blocks \ Allocated, aligned \in BOOLEAN :
              /\ vec' = [vec EXCEPT ![h] = grown(b)]
              /\ heap' = [c \in Blocks |->
                   IF c = b THEN [bytes |-> bytes, aligned |-> aligned, layout |-> "elements"]
                   ELSE IF c = old THEN Free ELSE heap[c]]
         \/ /\ old # NoBlock
            /\ vec' = [vec EXCEPT ![h] = grown(old)]
            /\ heap' = [heap EXCEPT ![old].bytes = bytes, ![old].layout = "elements"]
      /\ UNCHANGED free_list
      /\ Raise

(* Mutants of the drop of a buffer with storage: the size of a block in      *)
(* bytes is taken for its class; the address is not looked at.               *)
Returned(h, chunks) ==
  /\ vec' = [vec EXCEPT ![h] = [Absent EXCEPT !.pc = "dropping", !.block = vec[h].block,
                                               !.chunks = chunks]]
  /\ UNCHANGED <<free_list, heap>>
  /\ Raise

DropByBytes(h) ==
  /\ vec[h].pc = "live" /\ vec[h].cap > 0
  /\ (vec[h].cap * vec[h].size) % Align = 0 /\ heap[vec[h].block].aligned
  /\ Returned(h, vec[h].cap * vec[h].size)

DropUnaligned(h) ==
  /\ vec[h].pc = "live" /\ vec[h].cap > 0
  /\ (vec[h].cap * vec[h].size) % Align = 0
  /\ Returned(h, (vec[h].cap * vec[h].size) \div Align)

(* PoolVec::drop, up to reclaim: a buffer without storage has nothing to     *)
(* give back, storage that is not a whole number of aligned chunks is freed, *)
(* and anything else becomes a block again.                                  *)
Drop(h) ==
  LET b == vec[h].block
      bytes == vec[h].cap * vec[h].size
  IN  /\ vec[h].pc = "live"
      /\ IF vec[h].cap = 0
         THEN vec' = [vec EXCEPT ![h] = Absent] /\ UNCHANGED heap
         ELSE IF bytes % Align # 0 \/ ~heap[b].aligned
         THEN vec' = [vec EXCEPT ![h] = Absent] /\ heap' = [heap EXCEPT ![b] = Free]
         ELSE /\ vec' = [vec EXCEPT ![h] = [Absent EXCEPT !.pc = "dropping", !.block = b,
                                                          !.chunks = bytes \div Align]]
              /\ UNCHANGED heap
      /\ UNCHANGED free_list
      /\ Raise

(* reclaim, under the lock *)
Reclaim(h) ==
  /\ vec[h].pc = "dropping"
  /\ free_list' = [free_list EXCEPT ![vec[h].chunks] = Append(@, vec[h].block)]
  /\ vec' = [vec EXCEPT ![h] = Absent]
  /\ UNCHANGED heap
  /\ Raise

(* The pool is dropped, once no handle borrows it: every free block is freed *)
(* as a Vec<AlignedChunk>.  Another pool may follow.                         *)
DropPool ==
  /\ \A h \in Handles : vec[h].pc = "absent"
  /\ \E n \in Classes : free_list[n] # <<>>
  /\ heap' = [b \in Blocks |->
       IF \E n \in Classes : \E i \in 1..Len(free_list[n]) : free_list[n][i] = b
       THEN Free ELSE heap[b]]
  /\ free_list' = [n \in Classes |-> <<>>]
  /\ peak' = [n \in Classes |-> 0]
  /\ UNCHANGED vec

Next ==
  \/ \E h \in Handles :
       \/ \E size \in Sizes, capacity \in 0..MaxCap : AllocVec(h, size, capacity)
       \/ FinishAlloc(h)
       \/ \E cap \in 1..MaxCap : Grow(h, cap)
       \/ Drop(h)
       \/ Reclaim(h)
  \/ DropPool

Spec == Init /\ [][Next]_vars
------------------------------------------------------------------------------
Vecs == [pc : {"absent", "popped", "live", "dropping"}, block : Blocks \cup {NoBlock},
         cap : Nat, size : Sizes \cup {0}, chunks : Classes \cup {0}]
Cells == [bytes : Nat, aligned : BOOLEAN, layout : {"none", "chunks", "elements"}]

TypeOK == /\ free_list \in [Classes -> Seq(Blocks)]
          /\ heap \in [Blocks -> Cells]
          /\ vec \in [Handles -> Vecs]

(* No block is lent twice, lent while it waits on the free list, shelved     *)
(* twice, used after it was freed, or leaked: an allocated block has exactly *)
(* one owner and any other has none (buffer_pool.rs:99-116, 211-242).        *)
OneOwner ==
  /\ \A h, g \in Handles : vec[h].block = vec[g].block /\ vec[h].block # NoBlock => h = g
  /\ \A n, m \in Classes : \A i \in DOMAIN free_list[n], j \in DOMAIN free_list[m] :
       free_list[n][i] = free_list[m][j] => n = m /\ i = j
  /\ \A h \in Handles, n \in Classes : \A i \in DOMAIN free_list[n] :
       vec[h].block # free_list[n][i]
  /\ \A b \in Blocks : b \in Allocated <=>
       \/ \E h \in Handles : vec[h].block = b
       \/ \E n \in Classes : \E i \in DOMAIN free_list[n] : free_list[n][i] = b

(* What the unsafe from_raw_parts rely on: a buffer's capacity is the size   *)
(* of its storage, and a block waits under its own size, aligned, so any     *)
(* element type of that byte size may be given it (111-116, 236-240).        *)
BlocksFit ==
  /\ \A h \in Handles : vec[h].pc = "live" /\ vec[h].block # NoBlock =>
       vec[h].cap * vec[h].size = heap[vec[h].block].bytes
  /\ \A h \in Handles : vec[h].pc \in {"popped", "dropping"} /\ vec[h].block # NoBlock =>
       Poolable(vec[h].block, vec[h].chunks)
  /\ \A n \in Classes : \A i \in DOMAIN free_list[n] : Poolable(free_list[n][i], n)

(* The pool recycles: the blocks it has allocated of one size never          *)
(* outnumber the buffers of that size that were in use at once at some       *)
(* point, whatever the threads' steps, so allocating and dropping in turn    *)
(* does not make it grow (99-106, 119-126).                                  *)
NoMoreThanPeak ==
  \A n \in Classes :
    Cardinality({b \in Blocks : heap[b].layout = "chunks" /\ heap[b].bytes = n * Align})
    + Cardinality({h \in Handles : vec[h].pc = "popped" /\ vec[h].chunks = n
                                   /\ vec[h].block = NoBlock}) <= peak[n]

(* "Only the blocks we hand out are BUFFER_ALIGN-aligned and a whole number  *)
(* of chunks" (buffer_pool.rs:220): what waits on the free list was          *)
(* allocated by alloc_data, as chunks.                                       *)
OnlyOurBlocks ==
  \A n \in Classes : \A i \in 1..Len(free_list[n]) : heap[free_list[n][i]].layout = "chunks"
=============================================================================
