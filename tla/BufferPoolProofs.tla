--------------------------- MODULE BufferPoolProofs ---------------------------
(* Proofs about the buffer pool: ownership of blocks and their sizes, for    *)
(* any number of handles, blocks and element sizes.                          *)
EXTENDS BufferPool, FiniteSetTheorems, TLAPS

(* What a handle's call leaves true between its steps. *)
CallOK(v) ==
  /\ v.pc = "absent" => v.block = NoBlock
  /\ v.pc = "popped" => /\ v.chunks \in Classes /\ v.size \in Sizes
                        /\ (v.chunks * Align) % v.size = 0
  /\ v.pc = "live" => /\ v.size \in Sizes
                      /\ v.block # NoBlock <=> v.cap > 0
                      /\ v.cap * v.size <= MaxChunks * Align
  /\ v.pc = "dropping" => v.block # NoBlock /\ v.chunks \in Classes

CallsOK == \A h \in Handles : CallOK(vec[h])

(* The invariant that is inductive: ownership alone is not, since a drop     *)
(* must find its block by the capacity and shelve it under its own size.     *)
Inv == TypeOK /\ OneOwner /\ BlocksFit /\ CallsOK
------------------------------------------------------------------------------
LEMMA DivExact ==
  ASSUME NEW n \in Nat, NEW b \in Nat, b > 0, n % b = 0
  PROVE  n \div b \in Nat /\ (n \div b) * b = n
<1>1. n \div b \in Nat
  BY SMTT(20)
<1>2. n = b * (n \div b) + (n % b)
  BY SMTT(20)
<1> QED BY <1>1, <1>2, SMTT(20)

LEMMA MulMonotonic ==
  ASSUME NEW a \in Nat, NEW b \in Nat, NEW c \in Nat
  PROVE  /\ a * c \in Nat
         /\ a <= b => a * c <= b * c
         /\ c > 0 /\ a * c <= b * c => a <= b
         /\ a * c > 0 => a > 0
         /\ c > 0 /\ a > 0 => a * c > 0
<1>1. a * c \in Nat /\ b * c \in Nat
  OBVIOUS
<1>2. a <= b => a * c <= b * c
  BY SMTT(20)
<1>3. ASSUME c > 0, a > b PROVE a * c > b * c
  BY <1>3, SMTT(20)
<1>4. a * c > 0 => a > 0
  BY SMTT(20)
<1>5. c > 0 /\ a > 0 => a * c > 0
  BY SMTT(20)
<1> QED BY <1>1, <1>2, <1>3, <1>4, <1>5

(* A request is for a whole number of chunks and of elements (alloc_data). *)
LEMMA RequestWhole ==
  ASSUME NEW size \in Sizes, NEW capacity \in 1..MaxCap
  PROVE  LET n == ByteLen(capacity, size) \div Align
         IN  (n * Align) % size = 0
<1> DEFINE bytes == ByteLen(capacity, size)
<1>1. bytes \in Nat /\ bytes % Align = 0 /\ bytes % size = 0
  BY PoolAssumption
<1>2. Align \in Nat /\ Align > 0
  BY PoolAssumption
<1> HIDE DEF bytes
<1>3. (bytes \div Align) * Align = bytes
  BY <1>1, <1>2, DivExact
<1> QED BY <1>1, <1>3 DEF bytes

(* A block of n chunks is lent as that many bytes of elements, and as one    *)
(* element at least.                                                         *)
LEMMA LentWhole ==
  ASSUME NEW n \in Classes, NEW size \in Sizes, (n * Align) % size = 0
  PROVE  LET cap == (n * Align) \div size
         IN  /\ cap \in Nat /\ cap > 0
             /\ cap * size = n * Align
             /\ n * Align \in Nat /\ n * Align <= MaxChunks * Align
<1>1. /\ n \in Nat /\ n > 0 /\ n <= MaxChunks /\ MaxChunks \in Nat
      /\ Align \in Nat /\ Align > 0 /\ size \in Nat /\ size > 0
  BY PoolAssumption DEF Classes
<1> DEFINE bytes == n * Align
<1>2. bytes \in Nat /\ bytes > 0 /\ bytes <= MaxChunks * Align
  BY <1>1, MulMonotonic
<1> HIDE DEF bytes
<1>3. bytes % size = 0
  BY DEF bytes
<1>4. bytes \div size \in Nat /\ (bytes \div size) * size = bytes
  BY <1>1, <1>2, <1>3, DivExact
<1> DEFINE cap == bytes \div size
<1> HIDE DEF cap
<1>5. cap > 0
  BY <1>1, <1>2, <1>4, MulMonotonic DEF cap
<1> QED BY <1>2, <1>4, <1>5 DEF bytes, cap

(* Storage of a whole number of chunks has a class, and its own (drop). *)
LEMMA ReturnedWhole ==
  ASSUME NEW bytes \in Nat, bytes > 0, bytes % Align = 0, bytes <= MaxChunks * Align
  PROVE  bytes \div Align \in Classes /\ (bytes \div Align) * Align = bytes
<1>1. Align \in Nat /\ Align > 0 /\ MaxChunks \in Nat
  BY PoolAssumption
<1> DEFINE n == bytes \div Align
<1>2. n \in Nat /\ n * Align = bytes
  BY <1>1, DivExact
<1> HIDE DEF n
<1>3. n > 0 /\ n <= MaxChunks
  BY <1>1, <1>2, MulMonotonic
<1> QED BY <1>2, <1>3 DEF Classes, n
------------------------------------------------------------------------------
LEMMA InitInv == Init => Inv
<1> SUFFICES ASSUME Init PROVE Inv
  OBVIOUS
<1> USE DEF Init
<1>1. TypeOK
  BY DEF TypeOK, Vecs, Cells, Free, Absent
<1>2. OneOwner
  BY PoolAssumption DEF OneOwner, Free, Absent, Allocated
<1>3. BlocksFit
  BY DEF BlocksFit, Absent
<1>4. CallsOK
  BY DEF CallsOK, CallOK, Absent
<1> QED BY <1>1, <1>2, <1>3, <1>4 DEF Inv

(* What BlocksFit says of one handle, in a given heap. *)
Fit(v, hp) ==
  /\ v.pc = "live" /\ v.block # NoBlock => v.cap * v.size = hp[v.block].bytes
  /\ v.pc \in {"popped", "dropping"} /\ v.block # NoBlock =>
       hp[v.block].aligned /\ hp[v.block].bytes = v.chunks * Align

LEMMA FitIsBlocksFit ==
  BlocksFit <=> /\ \A h \in Handles : Fit(vec[h], heap)
                /\ \A n \in Classes : \A i \in DOMAIN free_list[n] :
                     heap[free_list[n][i]].aligned /\ heap[free_list[n][i]].bytes = n * Align
BY DEF BlocksFit, Fit, Poolable

(* A step that leaves the free list alone and changes one handle: it keeps   *)
(* its block or takes one that nobody owns, and touches no other storage.    *)
LEMMA HandleStep ==
  ASSUME Inv, NEW h \in Handles, NEW r \in Vecs, CallOK(r), Fit(r, heap'),
         vec' = [vec EXCEPT ![h] = r], UNCHANGED free_list, heap' \in [Blocks -> Cells],
         r.block = vec[h].block \/ r.block \notin Allocated,
         \A b \in Blocks : b # vec[h].block /\ b # r.block => heap'[b] = heap[b],
         \A b \in Blocks : b \in Allocated' <=>
           \/ b = r.block
           \/ b \in Allocated /\ b # vec[h].block
  PROVE  Inv'
<1>1. /\ free_list \in [Classes -> Seq(Blocks)] /\ vec \in [Handles -> Vecs]
      /\ heap \in [Blocks -> Cells] /\ free_list' = free_list
  BY DEF Inv, TypeOK
<1>2. vec'[h] = r /\ \A g \in Handles \ {h} : vec'[g] = vec[g]
  BY <1>1
<1>3. TypeOK'
  BY <1>1 DEF TypeOK
<1>4. \A g \in Handles : vec[g].block \in Blocks \cup {NoBlock}
  BY <1>1 DEF Vecs
<1>5. /\ \A g \in Handles : vec[g].block # NoBlock => vec[g].block \in Allocated
      /\ \A m \in Classes : \A i \in DOMAIN free_list[m] :
           free_list[m][i] \in Blocks /\ free_list[m][i] \in Allocated
  BY <1>1, <1>4 DEF Inv, OneOwner
<1>6. \A g \in Handles \ {h} : vec[g].block # NoBlock =>
        vec[g].block # vec[h].block /\ vec[g].block # r.block
  BY <1>5 DEF Inv, OneOwner
<1>7. \A m \in Classes : \A i \in DOMAIN free_list[m] :
        free_list[m][i] # vec[h].block /\ free_list[m][i] # r.block
  BY <1>5 DEF Inv, OneOwner
<1>8. OneOwner'
  <2>1. \A g, k \in Handles : vec'[g].block = vec'[k].block /\ vec'[g].block # NoBlock => g = k
    BY <1>2, <1>6 DEF Inv, OneOwner
  <2>2. \A m, k \in Classes : \A i \in DOMAIN free_list'[m], j \in DOMAIN free_list'[k] :
          free_list'[m][i] = free_list'[k][j] => m = k /\ i = j
    BY <1>1 DEF Inv, OneOwner
  <2>3. \A g \in Handles, m \in Classes : \A i \in DOMAIN free_list'[m] :
          vec'[g].block # free_list'[m][i]
    BY <1>1, <1>2, <1>7 DEF Inv, OneOwner
  <2>4. ASSUME NEW c \in Blocks
        PROVE  c \in Allocated' <=>
                 \/ \E g \in Handles : vec'[g].block = c
                 \/ \E m \in Classes : \E i \in DOMAIN free_list'[m] : free_list'[m][i] = c
    <3>1. c \in Allocated <=>
            \/ \E g \in Handles : vec[g].block = c
            \/ \E m \in Classes : \E i \in DOMAIN free_list[m] : free_list[m][i] = c
      BY DEF Inv, OneOwner
    <3>2. c # NoBlock
      BY PoolAssumption
    <3>3. CASE c = r.block
      BY <3>3, <1>2
    <3>4. CASE c # r.block /\ c = vec[h].block
      BY <3>2, <3>4, <1>1, <1>2, <1>6, <1>7
    <3>5. CASE c # r.block /\ c # vec[h].block
      <4>1. (\E g \in Handles : vec'[g].block = c) <=> (\E g \in Handles : vec[g].block = c)
        BY <3>5, <1>2
      <4> QED BY <3>1, <3>5, <4>1, <1>1
    <3> QED BY <3>3, <3>4, <3>5
  <2> QED BY <2>1, <2>2, <2>3, <2>4 DEF OneOwner
<1>9. BlocksFit'
  <2>1. ASSUME NEW g \in Handles PROVE Fit(vec'[g], heap')
    <3>1. CASE g = h
      BY <3>1, <1>2
    <3>2. CASE g # h
      <4>1. Fit(vec[g], heap)
        BY FitIsBlocksFit DEF Inv
      <4>2. vec[g].block # NoBlock => heap'[vec[g].block] = heap[vec[g].block]
        BY <3>2, <1>4, <1>6
      <4>3. vec'[g] = vec[g]
        BY <3>2, <1>2
      <4> QED BY <4>1, <4>2, <4>3 DEF Fit
    <3> QED BY <3>1, <3>2
  <2>2. \A n \in Classes : \A i \in DOMAIN free_list'[n] :
          heap'[free_list'[n][i]] = heap[free_list[n][i]]
    BY <1>1, <1>5, <1>7
  <2> QED BY <2>1, <2>2, <1>1 DEF Inv, BlocksFit, Fit, Poolable
<1>10. CallsOK'
  BY <1>2 DEF Inv, CallsOK
<1> QED BY <1>3, <1>8, <1>9, <1>10 DEF Inv

LEMMA NoBytes ==
  ASSUME NEW size \in Sizes PROVE 0 * size <= MaxChunks * Align
<1>1. size \in Nat /\ MaxChunks \in Nat /\ Align \in Nat
  BY PoolAssumption
<1>2. 0 * size = 0 /\ MaxChunks * Align \in Nat
  BY <1>1
<1> QED BY <1>2

(* A request for no element, or one that finds no free block: nothing        *)
(* changes hands.                                                            *)
LEMMA AllocWithoutBlock ==
  ASSUME Inv, NEW h \in Handles, NEW r \in Vecs, vec[h].pc = "absent",
         r.block = NoBlock, CallOK(r), vec' = [vec EXCEPT ![h] = r],
         UNCHANGED <<free_list, heap>>
  PROVE  Inv'
<1>1. vec[h].block = NoBlock /\ heap \in [Blocks -> Cells]
  BY DEF Inv, TypeOK, CallsOK, CallOK
<1>2. \A b \in Blocks : b \in Allocated' <=>
           \/ b = r.block
           \/ b \in Allocated /\ b # vec[h].block
  BY <1>1, PoolAssumption DEF Allocated
<1>3. Fit(r, heap')
  BY DEF Fit
<1> QED BY <1>1, <1>2, <1>3, HandleStep

(* A request that pops a block: it moves from the free list to the handle. *)
LEMMA AllocHit ==
  ASSUME Inv, NEW h \in Handles, NEW size \in Sizes, NEW n \in Classes,
         (n * Align) % size = 0, vec[h].pc = "absent", free_list[n] # <<>>,
         vec' = [vec EXCEPT ![h] =
                   [Absent EXCEPT !.pc = "popped", !.size = size, !.chunks = n,
                                  !.block = free_list[n][Len(free_list[n])]]],
         free_list' = [free_list EXCEPT ![n] =
                         SubSeq(free_list[n], 1, Len(free_list[n]) - 1)],
         UNCHANGED heap
  PROVE  Inv'
<1> DEFINE last == Len(free_list[n])
           b == free_list[n][last]
           r == [Absent EXCEPT !.pc = "popped", !.size = size, !.chunks = n, !.block = b]
<1>1. /\ free_list \in [Classes -> Seq(Blocks)] /\ vec \in [Handles -> Vecs]
      /\ vec[h].block = NoBlock
  BY DEF Inv, TypeOK, CallsOK, CallOK
<1>2. last \in Nat /\ last > 0 /\ last \in DOMAIN free_list[n] /\ b \in Blocks
  BY <1>1
<1>3. /\ r \in Vecs /\ r.pc = "popped" /\ r.block = b /\ r.size = size /\ r.chunks = n
  BY <1>2 DEF Vecs, Absent
<1>4. vec' = [vec EXCEPT ![h] = r]
  OBVIOUS
<1>5. /\ free_list'[n] = SubSeq(free_list[n], 1, last - 1)
      /\ \A m \in Classes \ {n} : free_list'[m] = free_list[m]
  BY <1>1
<1>6. /\ free_list'[n] \in Seq(Blocks)
      /\ DOMAIN free_list'[n] = 1..last - 1
      /\ \A i \in 1..last - 1 : free_list'[n][i] = free_list[n][i]
  BY <1>1, <1>2, <1>5
<1>7. DOMAIN free_list[n] = 1..last
  BY <1>1
<1> HIDE DEF r, b, last
<1>8. vec'[h] = r /\ \A g \in Handles \ {h} : vec'[g] = vec[g]
  BY <1>1, <1>4
<1>9. b # NoBlock
  BY <1>2, PoolAssumption
<1>10. \A m \in Classes : \A i \in DOMAIN free_list'[m] :
         i \in DOMAIN free_list[m] /\ free_list'[m][i] = free_list[m][i]
  BY <1>2, <1>5, <1>6, <1>7
<1>11. TypeOK'
  <2>1. free_list' \in [Classes -> Seq(Blocks)]
    BY <1>1, <1>5, <1>6
  <2> QED BY <2>1, <1>1, <1>3, <1>4 DEF Inv, TypeOK
<1>12. b = free_list[n][last]
  BY DEF b
<1>13. OneOwner'
  <2>1. \A m \in Classes : \A i \in DOMAIN free_list'[m] : free_list'[m][i] # b
    BY <1>2, <1>6, <1>10, <1>12 DEF Inv, OneOwner
  <2>2. \A g, k \in Handles : vec'[g].block = vec'[k].block /\ vec'[g].block # NoBlock => g = k
    BY <1>2, <1>3, <1>8, <1>12 DEF Inv, OneOwner
  <2>3. \A m, k \in Classes : \A i \in DOMAIN free_list'[m], j \in DOMAIN free_list'[k] :
          free_list'[m][i] = free_list'[k][j] => m = k /\ i = j
    BY <1>10 DEF Inv, OneOwner
  <2>4. \A g \in Handles, m \in Classes : \A i \in DOMAIN free_list'[m] :
          vec'[g].block # free_list'[m][i]
    <3>1. \A m \in Classes : \A i \in DOMAIN free_list'[m] : vec'[h].block # free_list'[m][i]
      BY <1>3, <1>8, <2>1
    <3>2. ASSUME NEW g \in Handles, g # h, NEW m \in Classes, NEW i \in DOMAIN free_list'[m]
          PROVE  vec'[g].block # free_list'[m][i]
      <4>1. vec'[g] = vec[g] /\ i \in DOMAIN free_list[m] /\ free_list'[m][i] = free_list[m][i]
        BY <3>2, <1>8, <1>10
      <4>2. vec[g].block # free_list[m][i]
        BY <4>1 DEF Inv, OneOwner
      <4> QED BY <4>1, <4>2
    <3> QED BY <3>1, <3>2
  <2>5. ASSUME NEW c \in Blocks
        PROVE  c \in Allocated <=>
                 \/ \E g \in Handles : vec'[g].block = c
                 \/ \E m \in Classes : \E i \in DOMAIN free_list'[m] : free_list'[m][i] = c
    <3>1. c \in Allocated <=>
            \/ \E g \in Handles : vec[g].block = c
            \/ \E m \in Classes : \E i \in DOMAIN free_list[m] : free_list[m][i] = c
      BY DEF Inv, OneOwner
    <3>2. CASE c = b
      BY <3>1, <3>2, <1>2, <1>3, <1>8, <1>12
    <3>3. CASE c # b
      <4>1. (\E g \in Handles : vec'[g].block = c) <=> (\E g \in Handles : vec[g].block = c)
        BY <3>3, <1>1, <1>3, <1>8, PoolAssumption
      <4>2. (\E m \in Classes : \E i \in DOMAIN free_list'[m] : free_list'[m][i] = c)
            <=> (\E m \in Classes : \E i \in DOMAIN free_list[m] : free_list[m][i] = c)
        <5>1. ASSUME NEW m \in Classes, NEW i \in DOMAIN free_list[m], free_list[m][i] = c
              PROVE  i \in DOMAIN free_list'[m] /\ free_list'[m][i] = c
          BY <3>3, <5>1, <1>2, <1>5, <1>6, <1>7, <1>12
        <5> QED BY <5>1, <1>10
      <4> QED BY <3>1, <4>1, <4>2
    <3> QED BY <3>2, <3>3
  <2>6. Allocated' = Allocated
    BY DEF Allocated
  <2> QED BY <2>2, <2>3, <2>4, <2>5, <2>6 DEF OneOwner
<1>14. BlocksFit'
  <2>1. Poolable(b, n)
    BY <1>2, <1>12 DEF Inv, BlocksFit, TypeOK
  <2>2. \A c, m : Poolable(c, m)' <=> Poolable(c, m)
    BY DEF Poolable
  <2> QED BY <1>3, <1>8, <1>10, <2>1, <2>2, <1>11, <1>1 DEF Inv, BlocksFit, TypeOK
<1>15. CallsOK'
  <2>1. CallOK(r)
    BY <1>3, <1>9 DEF CallOK
  <2> QED BY <1>8, <2>1 DEF Inv, CallsOK
<1> QED BY <1>11, <1>13, <1>14, <1>15 DEF Inv

LEMMA AllocVecInv ==
  ASSUME Inv, NEW h \in Handles, NEW size \in Sizes, NEW capacity \in 0..MaxCap,
         AllocVec(h, size, capacity)
  PROVE  Inv'
<1> DEFINE n == ByteLen(capacity, size) \div Align
           r(b) == [Absent EXCEPT !.pc = "popped", !.size = size, !.chunks = n, !.block = b]
           none == [Absent EXCEPT !.pc = "live", !.size = size]
<1>1. vec[h].pc = "absent" /\ UNCHANGED heap
  BY DEF AllocVec
<1>2. \/ vec' = [vec EXCEPT ![h] = none] /\ UNCHANGED free_list
      \/ /\ capacity > 0 /\ n \in Classes
         /\ vec' = [vec EXCEPT ![h] = r(NoBlock)] /\ UNCHANGED free_list
      \/ /\ capacity > 0 /\ n \in Classes /\ free_list[n] # <<>>
         /\ vec' = [vec EXCEPT ![h] = r(free_list[n][Len(free_list[n])])]
         /\ free_list' = [free_list EXCEPT ![n] =
                            SubSeq(free_list[n], 1, Len(free_list[n]) - 1)]
  BY DEF AllocVec
<1>3. capacity > 0 => (n * Align) % size = 0
  <2>1. capacity \in Nat /\ (capacity > 0 => capacity \in 1..MaxCap)
    BY PoolAssumption
  <2> QED BY <2>1, RequestWhole
<1>4. CASE vec' = [vec EXCEPT ![h] = none] /\ UNCHANGED free_list
  <2>1. none \in Vecs /\ none.block = NoBlock /\ none.pc = "live" /\ none.size = size
        /\ none.cap = 0
    BY DEF Vecs, Absent
  <2>2. CallOK(none)
    BY <2>1, NoBytes DEF CallOK
  <2> HIDE DEF none
  <2> QED BY <1>1, <1>4, <2>1, <2>2, AllocWithoutBlock
<1>5. CASE /\ capacity > 0 /\ n \in Classes
           /\ vec' = [vec EXCEPT ![h] = r(NoBlock)] /\ UNCHANGED free_list
  <2> DEFINE miss == r(NoBlock)
  <2> HIDE DEF n
  <2>1. /\ miss \in Vecs /\ miss.block = NoBlock /\ miss.pc = "popped" /\ miss.size = size
        /\ miss.chunks = n
    BY <1>5 DEF Vecs, Absent
  <2>2. CallOK(miss)
    BY <1>3, <1>5, <2>1 DEF CallOK
  <2>3. vec' = [vec EXCEPT ![h] = miss]
    BY <1>5
  <2> HIDE DEF miss
  <2> QED BY <1>1, <1>5, <2>1, <2>2, <2>3, AllocWithoutBlock
<1>6. CASE /\ capacity > 0 /\ n \in Classes /\ free_list[n] # <<>>
           /\ vec' = [vec EXCEPT ![h] = r(free_list[n][Len(free_list[n])])]
           /\ free_list' = [free_list EXCEPT ![n] =
                              SubSeq(free_list[n], 1, Len(free_list[n]) - 1)]
  <2> HIDE DEF n
  <2> QED BY <1>1, <1>3, <1>6, AllocHit
<1> QED BY <1>2, <1>4, <1>5, <1>6

(* The block popped, or a fresh one, is lent as a whole number of elements. *)
LEMMA FinishAllocInv ==
  ASSUME Inv, NEW h \in Handles, FinishAlloc(h)
  PROVE  Inv'
<1> DEFINE bytes == vec[h].chunks * Align
           r(b) == [vec[h] EXCEPT !.pc = "live", !.block = b, !.chunks = 0,
                                  !.cap = bytes \div vec[h].size]
<1>1. /\ vec[h] \in Vecs /\ vec[h].pc = "popped" /\ free_list' = free_list
      /\ heap \in [Blocks -> Cells] /\ vec[h].block \in Blocks \cup {NoBlock}
  BY DEF FinishAlloc, Inv, TypeOK, Vecs
<1>2. /\ vec[h].chunks \in Classes /\ vec[h].size \in Sizes
      /\ bytes % vec[h].size = 0
  BY <1>1 DEF Inv, CallsOK, CallOK
<1>3. /\ bytes \div vec[h].size \in Nat /\ bytes \div vec[h].size > 0
      /\ (bytes \div vec[h].size) * vec[h].size = bytes
      /\ bytes \in Nat /\ bytes <= MaxChunks * Align
  BY <1>2, LentWhole
<1>4. ASSUME NEW b \in Blocks
      PROVE  /\ r(b) \in Vecs /\ r(b).block = b /\ CallOK(r(b))
             /\ r(b).pc = "live" /\ r(b).cap * r(b).size = bytes
  <2> DEFINE cap == bytes \div vec[h].size
  <2> HIDE DEF bytes, cap
  <2>1. /\ [vec[h] EXCEPT !.pc = "live", !.block = b, !.chunks = 0, !.cap = cap] \in Vecs
        /\ cap \in Nat
    BY <1>1, <1>3 DEF Vecs, cap
  <2> DEFINE v == [vec[h] EXCEPT !.pc = "live", !.block = b, !.chunks = 0, !.cap = cap]
  <2>2. v.block = b /\ v.pc = "live" /\ v.cap = cap /\ v.size = vec[h].size
    BY <1>1 DEF Vecs
  <2>3. v.cap * v.size = bytes
    BY <2>2, <1>3 DEF cap
  <2> HIDE DEF v
  <2>4. CallOK(v)
    BY <1>2, <1>3, <2>2, <2>3, PoolAssumption DEF CallOK, cap
  <2> QED BY <2>1, <2>2, <2>3, <2>4 DEF v, cap
<1>5. CASE vec[h].block # NoBlock /\ vec' = [vec EXCEPT ![h] = r(vec[h].block)]
           /\ UNCHANGED heap
  <2> DEFINE b == vec[h].block
  <2>1. b \in Blocks /\ b \in Allocated
    BY <1>1, <1>5 DEF Inv, OneOwner
  <2>2. heap[b].bytes = bytes
    BY <1>1, <1>5, FitIsBlocksFit DEF Inv, Fit
  <2> DEFINE v == r(b)
  <2>3. v \in Vecs /\ v.block = b /\ CallOK(v) /\ v.pc = "live" /\ v.cap * v.size = bytes
    BY <2>1, <1>4
  <2>4. vec' = [vec EXCEPT ![h] = v]
    BY <1>5
  <2> HIDE DEF v, bytes
  <2>5. Fit(v, heap')
    BY <1>5, <2>2, <2>3 DEF Fit
  <2>6. \A c \in Blocks : c \in Allocated' <=>
           \/ c = v.block
           \/ c \in Allocated /\ c # vec[h].block
    BY <1>5, <2>1, <2>3 DEF Allocated
  <2> QED BY <1>1, <1>5, <2>3, <2>4, <2>5, <2>6, HandleStep
<1>6. CASE vec[h].block = NoBlock
  <2>1. PICK b \in Blocks \ Allocated :
          /\ vec' = [vec EXCEPT ![h] = r(b)]
          /\ heap' = [heap EXCEPT ![b] =
                        [bytes |-> bytes, aligned |-> TRUE, layout |-> "chunks"]]
    BY <1>6 DEF FinishAlloc
  <2> DEFINE v == r(b)
  <2>2. v \in Vecs /\ v.block = b /\ CallOK(v) /\ v.pc = "live" /\ v.cap * v.size = bytes
    BY <2>1, <1>4
  <2>3. vec' = [vec EXCEPT ![h] = v]
    BY <2>1
  <2> HIDE DEF v, bytes
  <2>4. heap' \in [Blocks -> Cells]
    BY <1>1, <1>3, <2>1 DEF Cells
  <2>5. heap'[b].bytes = bytes /\ heap'[b].layout = "chunks"
        /\ \A c \in Blocks \ {b} : heap'[c] = heap[c]
    BY <1>1, <2>1
  <2>6. Fit(v, heap')
    BY <2>2, <2>5 DEF Fit
  <2>7. \A c \in Blocks : c \in Allocated' <=>
           \/ c = v.block
           \/ c \in Allocated /\ c # vec[h].block
    BY <1>6, <2>1, <2>2, <2>5, PoolAssumption DEF Allocated
  <2> QED BY <1>1, <2>1, <2>2, <2>3, <2>4, <2>5, <2>6, <2>7, HandleStep
<1> QED BY <1>5, <1>6 DEF FinishAlloc

LEMMA LiveOK ==
  ASSUME Inv, NEW h \in Handles, vec[h].pc = "live"
  PROVE  /\ vec[h].size \in Sizes /\ vec[h].size \in Nat /\ vec[h].size > 0
         /\ vec[h].cap \in Nat /\ (vec[h].block # NoBlock <=> vec[h].cap > 0)
         /\ vec[h].cap * vec[h].size <= MaxChunks * Align
<1>1. vec[h] \in Vecs /\ CallOK(vec[h])
  BY DEF Inv, TypeOK, CallsOK
<1>2. vec[h].cap \in Nat
  BY <1>1 DEF Vecs
<1>3. /\ vec[h].size \in Sizes /\ (vec[h].block # NoBlock <=> vec[h].cap > 0)
      /\ vec[h].cap * vec[h].size <= MaxChunks * Align
  BY <1>1 DEF CallOK
<1>4. \A size \in Sizes : size \in Nat /\ size > 0
  BY PoolAssumption
<1> QED BY <1>2, <1>3, <1>4

(* Growth gives the handle other storage, or more at the same address.       *)
LEMMA GrowInv ==
  ASSUME Inv, NEW h \in Handles, NEW cap \in 1..MaxCap, Grow(h, cap)
  PROVE  Inv'
<1> DEFINE bytes == cap * vec[h].size
           old == vec[h].block
           r(b) == [vec[h] EXCEPT !.block = b, !.cap = cap]
<1>1. /\ vec[h] \in Vecs /\ vec[h].pc = "live" /\ free_list' = free_list
      /\ heap \in [Blocks -> Cells] /\ old \in Blocks \cup {NoBlock}
      /\ bytes <= MaxChunks * Align
  BY DEF Grow, Inv, TypeOK, Vecs
<1>2. vec[h].size \in Sizes /\ vec[h].size \in Nat /\ cap \in Nat /\ cap > 0 /\ bytes \in Nat
  BY <1>1, LiveOK, PoolAssumption
<1>3. ASSUME NEW b \in Blocks
      PROVE  /\ r(b) \in Vecs /\ r(b).block = b /\ CallOK(r(b))
             /\ r(b).pc = "live" /\ r(b).cap * r(b).size = bytes
  <2> DEFINE v == r(b)
  <2>1. v \in Vecs /\ v.block = b /\ v.pc = "live" /\ v.cap = cap /\ v.size = vec[h].size
    BY <1>1, <1>2 DEF Vecs
  <2> HIDE DEF v
  <2>2. CallOK(v)
    BY <1>1, <1>2, <2>1, PoolAssumption DEF CallOK
  <2> QED BY <2>1, <2>2 DEF v
<1>4. ASSUME NEW b \in Blocks \ Allocated, NEW aligned \in BOOLEAN,
             vec' = [vec EXCEPT ![h] = r(b)],
             heap' = [c \in Blocks |->
               IF c = b THEN [bytes |-> bytes, aligned |-> aligned, layout |-> "elements"]
               ELSE IF c = old THEN Free ELSE heap[c]]
      PROVE  Inv'
  <2> DEFINE v == r(b)
  <2>1. v \in Vecs /\ v.block = b /\ CallOK(v) /\ v.pc = "live" /\ v.cap * v.size = bytes
    BY <1>3
  <2>2. vec' = [vec EXCEPT ![h] = v]
    BY <1>4
  <2> HIDE DEF v, bytes
  <2>3. /\ heap' \in [Blocks -> Cells] /\ heap'[b].bytes = bytes /\ heap'[b].layout # "none"
        /\ \A c \in Blocks : c # b /\ c # old => heap'[c] = heap[c]
        /\ old \in Blocks /\ old # b => heap'[old].layout = "none"
    BY <1>1, <1>2, <1>4 DEF Cells, Free
  <2>4. Fit(v, heap')
    BY <2>1, <2>3 DEF Fit
  <2>5. \A c \in Blocks : c \in Allocated' <=>
           \/ c = v.block
           \/ c \in Allocated /\ c # vec[h].block
    BY <2>1, <2>3 DEF Allocated
  <2> QED BY <1>1, <2>1, <2>2, <2>3, <2>4, <2>5, HandleStep
<1>5. ASSUME old # NoBlock, vec' = [vec EXCEPT ![h] = r(old)],
             heap' = [heap EXCEPT ![old].bytes = bytes, ![old].layout = "elements"]
      PROVE  Inv'
  <2>1. old \in Blocks /\ old \in Allocated
    BY <1>1, <1>5 DEF Inv, OneOwner
  <2> DEFINE v == r(old)
  <2>2. v \in Vecs /\ v.block = old /\ CallOK(v) /\ v.pc = "live" /\ v.cap * v.size = bytes
    BY <1>3, <2>1
  <2>3. vec' = [vec EXCEPT ![h] = v]
    BY <1>5
  <2> HIDE DEF v, bytes
  <2>4. /\ heap' \in [Blocks -> Cells] /\ heap'[old].bytes = bytes /\ heap'[old].layout # "none"
        /\ \A c \in Blocks : c # old => heap'[c] = heap[c]
    BY <1>1, <1>2, <1>5, <2>1 DEF Cells
  <2>5. Fit(v, heap')
    BY <2>2, <2>4 DEF Fit
  <2>6. \A c \in Blocks : c \in Allocated' <=>
           \/ c = v.block
           \/ c \in Allocated /\ c # vec[h].block
    BY <2>1, <2>2, <2>4 DEF Allocated
  <2> QED BY <1>1, <2>2, <2>3, <2>4, <2>5, <2>6, HandleStep
<1> QED BY <1>4, <1>5 DEF Grow

(* A dropped handle lets its storage go, or keeps it until it is shelved.    *)
LEMMA DropInv ==
  ASSUME Inv, NEW h \in Handles, Drop(h)
  PROVE  Inv'
<1> DEFINE b == vec[h].block
           bytes == vec[h].cap * vec[h].size
           r == [Absent EXCEPT !.pc = "dropping", !.block = b, !.chunks = bytes \div Align]
<1>1. /\ vec[h] \in Vecs /\ vec[h].pc = "live" /\ free_list' = free_list
      /\ heap \in [Blocks -> Cells] /\ b \in Blocks \cup {NoBlock}
  BY DEF Drop, Inv, TypeOK, Vecs
<1>2. /\ vec[h].size \in Sizes /\ vec[h].size \in Nat /\ vec[h].size > 0
      /\ vec[h].cap \in Nat /\ (b # NoBlock <=> vec[h].cap > 0) /\ bytes <= MaxChunks * Align
  BY <1>1, LiveOK
<1>3. Absent \in Vecs /\ Absent.block = NoBlock /\ CallOK(Absent) /\ Fit(Absent, heap')
  BY DEF Vecs, Absent, CallOK, Fit
<1>4. CASE vec[h].cap = 0
  <2>1. vec' = [vec EXCEPT ![h] = Absent] /\ UNCHANGED heap /\ b = NoBlock
    BY <1>2, <1>4 DEF Drop
  <2>2. \A c \in Blocks : c \in Allocated' <=>
           \/ c = Absent.block
           \/ c \in Allocated /\ c # vec[h].block
    BY <1>3, <2>1, PoolAssumption DEF Allocated
  <2> QED BY <1>1, <1>3, <2>1, <2>2, HandleStep
<1>5. CASE vec[h].cap # 0
  <2>1. b # NoBlock /\ b \in Blocks /\ b \in Allocated
    BY <1>1, <1>2, <1>5 DEF Inv, OneOwner
  <2>2. CASE bytes % Align # 0 \/ ~heap[b].aligned
    <3>1. vec' = [vec EXCEPT ![h] = Absent] /\ heap' = [heap EXCEPT ![b] = Free]
      BY <1>5, <2>2 DEF Drop
    <3>2. /\ heap' \in [Blocks -> Cells] /\ heap'[b].layout = "none"
          /\ \A c \in Blocks : c # b => heap'[c] = heap[c]
      BY <1>1, <2>1, <3>1 DEF Cells, Free
    <3>3. \A c \in Blocks : c \in Allocated' <=>
             \/ c = Absent.block
             \/ c \in Allocated /\ c # vec[h].block
      BY <1>3, <3>2, PoolAssumption DEF Allocated
    <3>4. NoBlock \notin Allocated
      BY PoolAssumption DEF Allocated
    <3> QED BY <1>1, <1>3, <3>1, <3>2, <3>3, <3>4, HandleStep
  <2>3. CASE bytes % Align = 0 /\ heap[b].aligned
    <3>1. vec' = [vec EXCEPT ![h] = r] /\ UNCHANGED heap
      BY <1>5, <2>3 DEF Drop
    <3>2. bytes \in Nat /\ bytes > 0
      BY <1>2, <1>5, MulMonotonic
    <3>3. heap[b].bytes = bytes
      BY <1>1, <2>1, FitIsBlocksFit DEF Inv, Fit
    <3> DEFINE v == r
    <3> HIDE DEF bytes
    <3>4. bytes \div Align \in Classes /\ (bytes \div Align) * Align = bytes
      BY <1>2, <2>3, <3>2, ReturnedWhole DEF bytes
    <3>5. /\ v \in Vecs /\ v.block = b /\ v.pc = "dropping" /\ v.chunks = bytes \div Align
      BY <2>1, <3>4 DEF Vecs, Absent
    <3>6. vec' = [vec EXCEPT ![h] = v]
      BY <3>1
    <3> HIDE DEF v
    <3>7. CallOK(v) /\ Fit(v, heap')
      BY <2>1, <2>3, <3>1, <3>3, <3>4, <3>5 DEF CallOK, Fit
    <3>8. \A c \in Blocks : c \in Allocated' <=>
             \/ c = v.block
             \/ c \in Allocated /\ c # vec[h].block
      BY <2>1, <3>1, <3>5 DEF Allocated
    <3> QED BY <1>1, <3>1, <3>5, <3>6, <3>7, <3>8, HandleStep
  <2> QED BY <2>2, <2>3
<1> QED BY <1>4, <1>5

(* The block of a dropped handle goes on top of the free list of its class. *)
LEMMA ReclaimInv ==
  ASSUME Inv, NEW h \in Handles, Reclaim(h)
  PROVE  Inv'
<1> DEFINE b == vec[h].block
           n == vec[h].chunks
           top == Len(free_list[n]) + 1
<1>1. /\ vec[h].pc = "dropping" /\ heap' = heap
      /\ free_list' = [free_list EXCEPT ![n] = Append(free_list[n], b)]
      /\ vec' = [vec EXCEPT ![h] = Absent]
      /\ free_list \in [Classes -> Seq(Blocks)] /\ vec \in [Handles -> Vecs]
      /\ vec[h].block \in Blocks \cup {NoBlock}
  BY DEF Reclaim, Inv, TypeOK, Vecs
<1>2. b # NoBlock /\ b \in Blocks /\ n \in Classes
  BY <1>1 DEF Inv, CallsOK, CallOK
<1>3. Absent \in Vecs /\ Absent.block = NoBlock /\ CallOK(Absent) /\ Fit(Absent, heap')
  BY DEF Vecs, Absent, CallOK, Fit
<1> HIDE DEF b, n
<1>4. vec'[h] = Absent /\ \A g \in Handles \ {h} : vec'[g] = vec[g]
  BY <1>1
<1>5. /\ \A m \in Classes \ {n} : free_list'[m] = free_list[m]
      /\ free_list'[n] = Append(free_list[n], b)
      /\ free_list[n] \in Seq(Blocks)
  BY <1>1, <1>2 DEF b, n
<1>6. /\ DOMAIN free_list[n] = 1..top - 1 /\ top \in Nat /\ top > 0
      /\ DOMAIN free_list'[n] = 1..top
      /\ free_list'[n][top] = b
      /\ \A i \in 1..top - 1 : free_list'[n][i] = free_list[n][i]
      /\ free_list'[n] \in Seq(Blocks)
  BY <1>2, <1>5
<1> HIDE DEF top
<1>7. \A m \in Classes : \A i \in DOMAIN free_list'[m] :
        \/ i \in DOMAIN free_list[m] /\ free_list'[m][i] = free_list[m][i]
        \/ m = n /\ i = top /\ free_list'[m][i] = b
  BY <1>5, <1>6
<1>8. \A m \in Classes : \A i \in DOMAIN free_list[m] :
        i \in DOMAIN free_list'[m] /\ free_list'[m][i] = free_list[m][i]
  BY <1>5, <1>6
<1>9. \A m \in Classes : \A i \in DOMAIN free_list[m] : free_list[m][i] # b
  BY DEF Inv, OneOwner, b
<1>10. \A g \in Handles \ {h} : vec[g].block # b
  BY <1>2 DEF Inv, OneOwner, b
<1>11. TypeOK'
  <2>1. free_list' \in [Classes -> Seq(Blocks)]
    BY <1>1, <1>5, <1>6
  <2> QED BY <2>1, <1>1, <1>3 DEF Inv, TypeOK
<1>12. OneOwner'
  <2>1. \A g, k \in Handles : vec'[g].block = vec'[k].block /\ vec'[g].block # NoBlock => g = k
    BY <1>3, <1>4 DEF Inv, OneOwner
  <2>2. ASSUME NEW m \in Classes, NEW k \in Classes,
               NEW i \in DOMAIN free_list'[m], NEW j \in DOMAIN free_list'[k],
               free_list'[m][i] = free_list'[k][j]
        PROVE  m = k /\ i = j
    <3>1. CASE m = n /\ i = top
      BY <3>1, <2>2, <1>6, <1>7, <1>9
    <3>2. CASE k = n /\ j = top
      BY <3>2, <2>2, <1>6, <1>7, <1>9
    <3>3. CASE ~(m = n /\ i = top) /\ ~(k = n /\ j = top)
      BY <3>3, <2>2, <1>7 DEF Inv, OneOwner
    <3> QED BY <3>1, <3>2, <3>3
  <2>3. ASSUME NEW g \in Handles, NEW m \in Classes, NEW i \in DOMAIN free_list'[m]
        PROVE  vec'[g].block # free_list'[m][i]
    <3>1. free_list'[m][i] # NoBlock
      BY <1>2, <1>7, <1>11, PoolAssumption DEF TypeOK
    <3>2. CASE g = h
      BY <3>1, <3>2, <1>3, <1>4
    <3>3. CASE g # h
      <4>1. \A j \in DOMAIN free_list[m] : vec[g].block # free_list[m][j]
        BY DEF Inv, OneOwner
      <4>2. vec'[g] = vec[g] /\ vec[g].block # b
        BY <3>3, <1>4, <1>10
      <4> QED BY <4>1, <4>2, <1>7
    <3> QED BY <3>2, <3>3
  <2>4. ASSUME NEW c \in Blocks
        PROVE  c \in Allocated <=>
                 \/ \E g \in Handles : vec'[g].block = c
                 \/ \E m \in Classes : \E i \in DOMAIN free_list'[m] : free_list'[m][i] = c
    <3>1. c \in Allocated <=>
            \/ \E g \in Handles : vec[g].block = c
            \/ \E m \in Classes : \E i \in DOMAIN free_list[m] : free_list[m][i] = c
      BY DEF Inv, OneOwner
    <3>2. CASE c = b
      <4>1. vec[h].block = c
        BY <3>2 DEF b
      <4>2. \E m \in Classes : \E i \in DOMAIN free_list'[m] : free_list'[m][i] = c
        BY <3>2, <1>2, <1>6
      <4> QED BY <3>1, <4>1, <4>2
    <3>3. CASE c # b
      <4>1. (\E g \in Handles : vec'[g].block = c) <=> (\E g \in Handles : vec[g].block = c)
        <5>1. c # NoBlock /\ vec[h].block # c /\ vec'[h].block # c
          BY <3>3, <1>3, <1>4, PoolAssumption DEF b
        <5> QED BY <5>1, <1>4
      <4>2. (\E m \in Classes : \E i \in DOMAIN free_list'[m] : free_list'[m][i] = c)
            <=> (\E m \in Classes : \E i \in DOMAIN free_list[m] : free_list[m][i] = c)
        BY <3>3, <1>7, <1>8
      <4> QED BY <3>1, <4>1, <4>2
    <3> QED BY <3>2, <3>3
  <2>5. Allocated' = Allocated
    BY <1>1 DEF Allocated
  <2> QED BY <2>1, <2>2, <2>3, <2>4, <2>5 DEF OneOwner
<1>13. BlocksFit'
  <2>1. heap[b].aligned /\ heap[b].bytes = n * Align
    BY <1>1, <1>2, FitIsBlocksFit DEF Inv, Fit, b, n
  <2>2. ASSUME NEW g \in Handles PROVE Fit(vec'[g], heap')
    <3>1. CASE g = h
      BY <3>1, <1>3, <1>4
    <3>2. CASE g # h
      BY <3>2, <1>1, <1>4, FitIsBlocksFit DEF Inv
    <3> QED BY <3>1, <3>2
  <2>3. ASSUME NEW m \in Classes, NEW i \in DOMAIN free_list'[m]
        PROVE  heap'[free_list'[m][i]].aligned /\ heap'[free_list'[m][i]].bytes = m * Align
    BY <1>1, <1>7, <2>1, FitIsBlocksFit DEF Inv
  <2> QED BY <2>2, <2>3 DEF BlocksFit, Fit, Poolable
<1>14. CallsOK'
  BY <1>3, <1>4 DEF Inv, CallsOK
<1> QED BY <1>11, <1>12, <1>13, <1>14 DEF Inv

(* A dropped pool frees every block it holds, and no handle has one. *)
LEMMA DropPoolInv ==
  ASSUME Inv, DropPool
  PROVE  Inv'
<1>1. /\ \A h \in Handles : vec[h].pc = "absent"
      /\ heap' = [b \in Blocks |->
           IF \E n \in Classes : \E i \in 1..Len(free_list[n]) : free_list[n][i] = b
           THEN Free ELSE heap[b]]
      /\ free_list' = [n \in Classes |-> <<>>]
      /\ vec' = vec
      /\ free_list \in [Classes -> Seq(Blocks)]
      /\ heap \in [Blocks -> Cells]
  BY DEF DropPool, Inv, TypeOK
<1>2. \A h \in Handles : vec[h].block = NoBlock
  BY <1>1 DEF Inv, CallsOK, CallOK
<1>3. \A n \in Classes : DOMAIN free_list'[n] = {} /\ free_list'[n] \in Seq(Blocks)
  BY <1>1
<1>4. \A n \in Classes : DOMAIN free_list[n] = 1..Len(free_list[n])
  BY <1>1
<1>5. TypeOK'
  BY <1>1, <1>3 DEF Inv, TypeOK, Cells, Free
<1>6. ASSUME NEW b \in Blocks PROVE b \notin Allocated'
  <2>1. CASE b \in Allocated
    <3>1. \E n \in Classes : \E i \in DOMAIN free_list[n] : free_list[n][i] = b
      BY <2>1, <1>2, PoolAssumption DEF Inv, OneOwner
    <3>2. heap'[b] = Free
      BY <3>1, <1>1, <1>4
    <3> QED BY <3>2 DEF Allocated, Free
  <2>2. CASE b \notin Allocated
    BY <2>2, <1>1 DEF Allocated, Free
  <2> QED BY <2>1, <2>2
<1>7. OneOwner'
  BY <1>1, <1>2, <1>3, <1>6, PoolAssumption DEF OneOwner
<1>8. BlocksFit'
  BY <1>1, <1>2, <1>3 DEF BlocksFit
<1>9. CallsOK'
  BY <1>1 DEF Inv, CallsOK
<1> QED BY <1>5, <1>7, <1>8, <1>9 DEF Inv

LEMMA StepInv == Inv /\ [Next]_vars => Inv'
<1> SUFFICES ASSUME Inv, [Next]_vars PROVE Inv'
  OBVIOUS
<1>1. CASE \E h \in Handles : \E size \in Sizes, capacity \in 0..MaxCap :
             AllocVec(h, size, capacity)
  BY <1>1, AllocVecInv
<1>2. CASE \E h \in Handles : FinishAlloc(h)
  BY <1>2, FinishAllocInv
<1>3. CASE \E h \in Handles : \E cap \in 1..MaxCap : Grow(h, cap)
  BY <1>3, GrowInv
<1>4. CASE \E h \in Handles : Drop(h)
  BY <1>4, DropInv
<1>5. CASE \E h \in Handles : Reclaim(h)
  BY <1>5, ReclaimInv
<1>6. CASE DropPool
  BY <1>6, DropPoolInv
<1>7. CASE UNCHANGED vars
  BY <1>7 DEF vars, Inv, TypeOK, OneOwner, BlocksFit, CallsOK, Allocated, Poolable
<1> QED BY <1>1, <1>2, <1>3, <1>4, <1>5, <1>6, <1>7 DEF Next
------------------------------------------------------------------------------
(* Every state of the pool and of the heap keeps its shape                   *)
(* (buffer_pool.rs:28-43, 140-143).                                          *)
THEOREM TypeInvariant == Spec => []TypeOK
<1>1. Inv => TypeOK
  BY DEF Inv
<1> QED BY InitInv, StepInv, <1>1, PTL DEF Spec

(* Whatever the order of the threads' steps, an allocated block belongs to   *)
(* one handle or waits once on one free list (buffer_pool.rs:99-126).        *)
THEOREM Ownership == Spec => []OneOwner
<1>1. Inv => OneOwner
  BY DEF Inv
<1> QED BY InitInv, StepInv, <1>1, PTL DEF Spec

(* The sizes the unsafe from_raw_parts are given are the sizes of the        *)
(* storage (buffer_pool.rs:108-116, 228-241).                                *)
THEOREM StorageFits == Spec => []BlocksFit
<1>1. Inv => BlocksFit
  BY DEF Inv
<1> QED BY InitInv, StepInv, <1>1, PTL DEF Spec
------------------------------------------------------------------------------
(* The sets NoMoreThanPeak counts: the blocks of a size that the pool has    *)
(* allocated, the requests for one that the free list did not serve, and the *)
(* handles that keep a block of that size busy.                              *)
Carved(hp, n)  == {b \in Blocks : hp[b].layout = "chunks" /\ hp[b].bytes = n * Align}
Awaited(v, n)  == {h \in Handles : v[h].pc = "popped" /\ v[h].chunks = n /\ v[h].block = NoBlock}
Busy(hp, v, n) ==
  {h \in Handles :
     \/ v[h].pc \in {"popped", "dropping"} /\ v[h].chunks = n
     \/ /\ v[h].pc = "live" /\ v[h].block # NoBlock
        /\ hp[v[h].block].aligned /\ hp[v[h].block].bytes = n * Align}

Demand(hp, v, n) == Cardinality(Carved(hp, n)) + Cardinality(Awaited(v, n))

ChunksAligned == \A b \in Blocks : heap[b].layout = "chunks" => heap[b].aligned

(* Counting needs the ownership and the sizes: a block that no handle keeps  *)
(* busy is on the free list of its own size, so that a request finds it.     *)
PeakInv == Inv /\ peak \in [Classes -> Nat] /\ ChunksAligned /\ NoMoreThanPeak

LEMMA PeakIsDemand ==
  /\ NoMoreThanPeak <=> \A n \in Classes : Demand(heap, vec, n) <= peak[n]
  /\ \A hp, v, n : InUse(hp, v, n) = Cardinality(Busy(hp, v, n))
BY DEF NoMoreThanPeak, Demand, Carved, Awaited, InUse, Busy

LEMMA Countable ==
  ASSUME NEW hp, NEW v, NEW n
  PROVE  /\ IsFiniteSet(Carved(hp, n)) /\ Cardinality(Carved(hp, n)) \in Nat
         /\ IsFiniteSet(Awaited(v, n)) /\ Cardinality(Awaited(v, n)) \in Nat
         /\ IsFiniteSet(Busy(hp, v, n)) /\ Cardinality(Busy(hp, v, n)) \in Nat
<1>1. /\ Carved(hp, n) \in SUBSET Blocks /\ Awaited(v, n) \in SUBSET Handles
      /\ Busy(hp, v, n) \in SUBSET Handles
  BY DEF Carved, Awaited, Busy
<1> QED BY <1>1, FiniteAssumption, FS_Subset, FS_CardinalityType

LEMMA SameClass ==
  ASSUME NEW m \in Classes, NEW n \in Classes, m * Align = n * Align
  PROVE  m = n
<1>1. m \in Nat /\ n \in Nat /\ Align \in Nat /\ Align > 0 /\ m * Align \in Nat
  BY PoolAssumption DEF Classes
<1>2. m <= n /\ n <= m
  BY <1>1, MulMonotonic
<1> QED BY <1>1, <1>2

(* With the free list of a size empty, every block of it is busy. *)
LEMMA NoneIdle ==
  ASSUME Inv, ChunksAligned, NEW n \in Classes, free_list[n] = <<>>
  PROVE  Demand(heap, vec, n) <= Cardinality(Busy(heap, vec, n))
<1> DEFINE C == Carved(heap, n)
           W == Awaited(vec, n)
           B == Busy(heap, vec, n)
           R == B \ W
<1>1. ASSUME NEW b \in C PROVE \E h \in R : vec[h].block = b
  <2>1. /\ b \in Blocks /\ b \in Allocated /\ heap[b].bytes = n * Align
        /\ heap[b].aligned /\ b # NoBlock
    BY PoolAssumption DEF Carved, ChunksAligned, Allocated
  <2>2. ~ \E m \in Classes : \E i \in DOMAIN free_list[m] : free_list[m][i] = b
    <3>1. SUFFICES ASSUME NEW m \in Classes, NEW i \in DOMAIN free_list[m],
                          free_list[m][i] = b
                   PROVE  FALSE
      OBVIOUS
    <3>2. heap[b].bytes = m * Align
      BY <3>1, FitIsBlocksFit DEF Inv
    <3>3. m = n
      BY <2>1, <3>2, SameClass
    <3> QED BY <3>1, <3>3
  <2>3. PICK h \in Handles : vec[h].block = b
    BY <2>1, <2>2 DEF Inv, OneOwner
  <2>4. h \notin W
    BY <2>1, <2>3 DEF Awaited
  <2>5. vec[h] \in Vecs /\ CallOK(vec[h]) /\ Fit(vec[h], heap)
    BY FitIsBlocksFit DEF Inv, TypeOK, CallsOK
  <2>6. vec[h].pc # "absent" /\ vec[h].pc \in {"absent", "popped", "live", "dropping"}
    BY <2>1, <2>3, <2>5 DEF CallOK, Vecs
  <2>7. CASE vec[h].pc = "live"
    BY <2>1, <2>3, <2>4, <2>7 DEF Busy
  <2>8. CASE vec[h].pc \in {"popped", "dropping"}
    <3>1. vec[h].chunks \in Classes /\ heap[b].bytes = vec[h].chunks * Align
      BY <2>1, <2>3, <2>5, <2>8 DEF CallOK, Fit
    <3>2. vec[h].chunks = n
      BY <2>1, <3>1, SameClass
    <3> QED BY <2>3, <2>4, <2>8, <3>2 DEF Busy
  <2> QED BY <2>6, <2>7, <2>8
<1>2. W \subseteq B
  BY DEF Awaited, Busy
<1>3. /\ IsFiniteSet(C) /\ IsFiniteSet(B) /\ Cardinality(B) \in Nat
      /\ Cardinality(C) \in Nat /\ Cardinality(W) \in Nat
  BY Countable
<1>4. Demand(heap, vec, n) = Cardinality(C) + Cardinality(W)
  BY DEF Demand
<1> HIDE DEF C, W, B
<1>5. IsFiniteSet(R) /\ Cardinality(R) = Cardinality(B) - Cardinality(W)
  <2>1. B \cap W = W
    BY <1>2
  <2> QED BY <1>3, <2>1, FS_Difference
<1> HIDE DEF R
<1>6. Cardinality(C) <= Cardinality(R)
  <2> DEFINE f == [b \in C |-> CHOOSE h \in R : vec[h].block = b]
  <2>1. \A b \in C : f[b] \in R /\ vec[f[b]].block = b
    BY <1>1
  <2>2. f \in [C -> R]
    BY <2>1
  <2> HIDE DEF f
  <2>3. f \in Injection(C, R)
    BY <2>1, <2>2 DEF Injection, IsInjective
  <2> QED BY <1>5, <2>3, FS_Injection
<1>7. Demand(heap, vec, n) <= Cardinality(B)
  BY <1>3, <1>4, <1>5, <1>6
<1> QED BY <1>7 DEF B

(* The peak only rises while the pool lives, to what is in use at least. *)
LEMMA RaiseOK ==
  ASSUME peak \in [Classes -> Nat], Raise
  PROVE  /\ peak' \in [Classes -> Nat]
         /\ \A n \in Classes : /\ peak[n] <= peak'[n]
                               /\ Cardinality(Busy(heap', vec', n)) <= peak'[n]
<1>1. peak' = [n \in Classes |-> Larger(peak[n], InUse(heap', vec', n))]
  BY DEF Raise
<1>2. ASSUME NEW n \in Classes
      PROVE  /\ peak'[n] \in Nat /\ peak[n] <= peak'[n]
             /\ Cardinality(Busy(heap', vec', n)) <= peak'[n]
  <2> DEFINE u == Cardinality(Busy(heap', vec', n))
  <2>1. u \in Nat /\ InUse(heap', vec', n) = u
    BY Countable, PeakIsDemand
  <2> HIDE DEF u
  <2>2. peak'[n] = Larger(peak[n], u) /\ peak[n] \in Nat
    BY <1>1, <2>1
  <2>3. peak'[n] \in Nat /\ peak[n] <= peak'[n] /\ u <= peak'[n]
    BY <2>1, <2>2 DEF Larger
  <2> QED BY <2>3 DEF u
<1> QED BY <1>1, <1>2

(* A step that allocates no block and leaves no request unserved. *)
LEMMA NoNewDemand ==
  ASSUME PeakInv, Raise, NEW n \in Classes,
         Carved(heap', n) \subseteq Carved(heap, n),
         Awaited(vec', n) \subseteq Awaited(vec, n)
  PROVE  Demand(heap', vec', n) <= peak'[n]
<1> DEFINE c == Cardinality(Carved(heap, n))
           d == Cardinality(Carved(heap', n))
           a == Cardinality(Awaited(vec, n))
           e == Cardinality(Awaited(vec', n))
<1>1. c \in Nat /\ d \in Nat /\ a \in Nat /\ e \in Nat
  BY Countable
<1>2. d <= c /\ e <= a
  BY Countable, FS_Subset
<1>3. c + a <= peak[n] /\ peak[n] <= peak'[n] /\ peak[n] \in Nat /\ peak'[n] \in Nat
  BY RaiseOK, PeakIsDemand DEF PeakInv, Demand
<1>4. Demand(heap', vec', n) = d + e
  BY DEF Demand
<1> HIDE DEF c, d, a, e
<1> QED BY <1>1, <1>2, <1>3, <1>4

LEMMA InitPeak == Init => PeakInv
<1> SUFFICES ASSUME Init PROVE PeakInv
  OBVIOUS
<1>1. peak \in [Classes -> Nat] /\ \A n \in Classes : peak[n] = 0
  BY DEF Init
<1>2. ChunksAligned
  BY DEF Init, ChunksAligned, Free
<1>3. \A n \in Classes : Carved(heap, n) = {} /\ Awaited(vec, n) = {}
  BY DEF Init, Carved, Awaited, Free, Absent
<1>4. \A n \in Classes : Demand(heap, vec, n) = 0
  BY <1>3, FS_EmptySet DEF Demand
<1>5. NoMoreThanPeak
  BY <1>1, <1>4, PeakIsDemand
<1> QED BY <1>1, <1>2, <1>5, InitInv DEF PeakInv

LEMMA AllocVecPeak ==
  ASSUME PeakInv, NEW h \in Handles, NEW size \in Sizes, NEW capacity \in 0..MaxCap,
         AllocVec(h, size, capacity), NEW n \in Classes
  PROVE  Demand(heap', vec', n) <= peak'[n]
<1> DEFINE k == ByteLen(capacity, size) \div Align
           list == free_list[k]
           r(b) == [Absent EXCEPT !.pc = "popped", !.size = size, !.chunks = k, !.block = b]
<1>1. /\ vec[h].pc = "absent" /\ heap' = heap /\ Raise
      /\ vec \in [Handles -> Vecs] /\ free_list \in [Classes -> Seq(Blocks)]
  BY DEF AllocVec, PeakInv, Inv, TypeOK
<1>2. Carved(heap', n) = Carved(heap, n)
  BY <1>1
<1>3. CASE capacity = 0
  <2>1. vec' = [vec EXCEPT ![h] = [Absent EXCEPT !.pc = "live", !.size = size]]
    BY <1>3 DEF AllocVec
  <2>2. vec'[h].pc = "live" /\ \A g \in Handles \ {h} : vec'[g] = vec[g]
    BY <1>1, <2>1 DEF Absent
  <2>3. Awaited(vec', n) \subseteq Awaited(vec, n)
    BY <2>2 DEF Awaited
  <2> QED BY <1>1, <1>2, <2>3, NoNewDemand
<1>4. CASE capacity > 0 /\ k \in Classes /\ list # <<>>
  <2>1. vec' = [vec EXCEPT ![h] = r(list[Len(list)])]
    BY <1>4 DEF AllocVec
  <2>2. list[Len(list)] # NoBlock
    <3>1. list \in Seq(Blocks)
      BY <1>1, <1>4
    <3> HIDE DEF list
    <3>2. list[Len(list)] \in Blocks
      BY <1>4, <3>1
    <3> QED BY <3>2, PoolAssumption
  <2> DEFINE b == list[Len(list)]
             v == r(b)
  <2>3. v.block = b
    BY DEF Absent
  <2> HIDE DEF v, b
  <2>4. vec'[h] = v /\ \A g \in Handles \ {h} : vec'[g] = vec[g]
    BY <1>1, <2>1 DEF v, b
  <2>5. b # NoBlock
    BY <2>2 DEF b
  <2>6. Awaited(vec', n) \subseteq Awaited(vec, n)
    BY <2>3, <2>4, <2>5 DEF Awaited
  <2> QED BY <1>1, <1>2, <2>6, NoNewDemand
<1>5. CASE capacity > 0 /\ k \in Classes /\ list = <<>>
  <2> DEFINE v == r(NoBlock)
  <2>1. vec' = [vec EXCEPT ![h] = v]
    BY <1>5 DEF AllocVec
  <2>2. v.block = NoBlock /\ v.pc = "popped" /\ v.chunks = k
    BY DEF Absent
  <2> HIDE DEF v, k
  <2>3. vec'[h] = v /\ \A g \in Handles \ {h} : vec'[g] = vec[g]
    BY <1>1, <2>1
  <2>4. CASE n # k
    <3>1. Awaited(vec', n) \subseteq Awaited(vec, n)
      BY <2>2, <2>3, <2>4 DEF Awaited
    <3> QED BY <1>1, <1>2, <3>1, NoNewDemand
  <2>5. CASE n = k
    <3> DEFINE W == Awaited(vec, n)
               V == Awaited(vec', n)
               B == Busy(heap, vec, n)
               A == Busy(heap', vec', n)
    <3>1. V = W \cup {h} /\ h \notin W
      BY <1>1, <2>2, <2>3, <2>5 DEF Awaited
    <3>2. A = B \cup {h} /\ h \notin B
      BY <1>1, <2>2, <2>3, <2>5 DEF Busy
    <3>3. /\ IsFiniteSet(W) /\ Cardinality(W) \in Nat /\ IsFiniteSet(B)
          /\ Cardinality(B) \in Nat /\ Cardinality(Carved(heap, n)) \in Nat
      BY Countable
    <3>4. Demand(heap, vec, n) <= Cardinality(B)
      BY <1>5, <2>5, NoneIdle DEF PeakInv
    <3>5. Cardinality(A) <= peak'[n] /\ peak'[n] \in Nat
      BY <1>1, RaiseOK DEF PeakInv
    <3>6. /\ Demand(heap, vec, n) = Cardinality(Carved(heap, n)) + Cardinality(W)
          /\ Demand(heap', vec', n) = Cardinality(Carved(heap, n)) + Cardinality(V)
      BY <1>2 DEF Demand
    <3> HIDE DEF W, V, A, B
    <3>7. Cardinality(V) = Cardinality(W) + 1 /\ Cardinality(A) = Cardinality(B) + 1
      BY <3>1, <3>2, <3>3, FS_AddElement
    <3> QED BY <3>3, <3>4, <3>5, <3>6, <3>7
  <2> QED BY <2>4, <2>5
<1>6. capacity = 0 \/ (capacity > 0 /\ k \in Classes /\ list # <<>>)
        \/ (capacity > 0 /\ k \in Classes /\ list = <<>>)
  BY DEF AllocVec
<1> QED BY <1>3, <1>4, <1>5, <1>6

LEMMA FinishAllocPeak ==
  ASSUME PeakInv, NEW h \in Handles, FinishAlloc(h), NEW n \in Classes
  PROVE  Demand(heap', vec', n) <= peak'[n]
<1> DEFINE k == vec[h].chunks
           bytes == k * Align
           r(b) == [vec[h] EXCEPT !.pc = "live", !.block = b, !.chunks = 0,
                                  !.cap = bytes \div vec[h].size]
<1>1. /\ vec[h].pc = "popped" /\ Raise /\ vec \in [Handles -> Vecs]
      /\ heap \in [Blocks -> Cells] /\ k \in Classes
  BY DEF FinishAlloc, PeakInv, Inv, TypeOK, CallsOK, CallOK
<1>2. \A b : r(b).pc = "live"
  BY <1>1 DEF Vecs
<1>3. CASE vec[h].block # NoBlock
  <2>1. vec' = [vec EXCEPT ![h] = r(vec[h].block)] /\ heap' = heap
    BY <1>3 DEF FinishAlloc
  <2>2. vec'[h].pc = "live" /\ \A g \in Handles \ {h} : vec'[g] = vec[g]
    BY <1>1, <1>2, <2>1
  <2>3. Awaited(vec', n) \subseteq Awaited(vec, n) /\ Carved(heap', n) \subseteq Carved(heap, n)
    BY <2>1, <2>2 DEF Awaited
  <2> QED BY <1>1, <2>3, NoNewDemand
<1>4. CASE vec[h].block = NoBlock
  <2>1. PICK b \in Blocks \ Allocated :
          /\ vec' = [vec EXCEPT ![h] = r(b)]
          /\ heap' = [heap EXCEPT ![b] =
                        [bytes |-> bytes, aligned |-> TRUE, layout |-> "chunks"]]
    BY <1>4 DEF FinishAlloc
  <2>2. vec'[h].pc = "live" /\ \A g \in Handles \ {h} : vec'[g] = vec[g]
    BY <1>1, <1>2, <2>1
  <2>3. /\ heap'[b].bytes = bytes /\ heap'[b].layout = "chunks" /\ heap'[b].aligned
        /\ \A c \in Blocks \ {b} : heap'[c] = heap[c]
        /\ heap[b].layout = "none"
    BY <1>1, <2>1 DEF Allocated
  <2>5. CASE n # k
    <3>1. n * Align # k * Align
      BY <1>1, <2>5, SameClass
    <3>2. Carved(heap', n) \subseteq Carved(heap, n)
      BY <2>3, <3>1 DEF Carved
    <3>3. Awaited(vec', n) \subseteq Awaited(vec, n)
      BY <2>2 DEF Awaited
    <3> QED BY <1>1, <3>2, <3>3, NoNewDemand
  <2>6. CASE n = k
    <3> DEFINE W == Awaited(vec, n)
               V == Awaited(vec', n)
               C == Carved(heap, n)
               D == Carved(heap', n)
    <3>1. V = W \ {h} /\ h \in W
      BY <1>1, <1>4, <2>2, <2>6 DEF Awaited
    <3>2. D = C \cup {b} /\ b \notin C
      BY <2>3, <2>6 DEF Carved
    <3>3. /\ IsFiniteSet(W) /\ Cardinality(W) \in Nat
          /\ IsFiniteSet(C) /\ Cardinality(C) \in Nat
      BY Countable
    <3>4. /\ Demand(heap, vec, n) = Cardinality(C) + Cardinality(W)
          /\ Demand(heap', vec', n) = Cardinality(D) + Cardinality(V)
      BY DEF Demand
    <3>5. Demand(heap, vec, n) <= peak[n] /\ peak[n] <= peak'[n]
          /\ peak[n] \in Nat /\ peak'[n] \in Nat
      BY <1>1, RaiseOK, PeakIsDemand DEF PeakInv
    <3> HIDE DEF W, V, C, D
    <3>6. Cardinality(V) = Cardinality(W) - 1 /\ Cardinality(D) = Cardinality(C) + 1
      BY <3>1, <3>2, <3>3, FS_AddElement, FS_RemoveElement
    <3> QED BY <3>3, <3>4, <3>5, <3>6
  <2> QED BY <2>5, <2>6
<1> QED BY <1>3, <1>4

(* Growth and a drop allocate no chunks, and request none. *)
LEMMA GrowAllocatesNone ==
  ASSUME vec \in [Handles -> Vecs], heap \in [Blocks -> Cells],
         NEW h \in Handles, NEW cap, Grow(h, cap)
  PROVE  /\ \A b \in Blocks : heap'[b] = heap[b] \/ heap'[b].layout # "chunks"
         /\ Raise /\ vec'[h].pc # "popped" /\ \A g \in Handles \ {h} : vec'[g] = vec[g]
<1> DEFINE bytes == cap * vec[h].size
           old == vec[h].block
           r(b) == [vec[h] EXCEPT !.block = b, !.cap = cap]
<1>1. vec[h].pc = "live" /\ Raise
  BY DEF Grow
<1>2. ASSUME NEW b \in Blocks \ Allocated, NEW aligned \in BOOLEAN,
             vec' = [vec EXCEPT ![h] = r(b)],
             heap' = [c \in Blocks |->
               IF c = b THEN [bytes |-> bytes, aligned |-> aligned, layout |-> "elements"]
               ELSE IF c = old THEN Free ELSE heap[c]]
      PROVE  /\ \A c \in Blocks : heap'[c] = heap[c] \/ heap'[c].layout # "chunks"
             /\ \E c : vec' = [vec EXCEPT ![h] = r(c)]
  BY <1>2 DEF Free
<1>3. ASSUME vec' = [vec EXCEPT ![h] = r(old)],
             heap' = [heap EXCEPT ![old].bytes = bytes, ![old].layout = "elements"]
      PROVE  /\ \A c \in Blocks : heap'[c] = heap[c] \/ heap'[c].layout # "chunks"
             /\ \E c : vec' = [vec EXCEPT ![h] = r(c)]
  BY <1>3 DEF Cells
<1>4. /\ \A c \in Blocks : heap'[c] = heap[c] \/ heap'[c].layout # "chunks"
      /\ \E c : vec' = [vec EXCEPT ![h] = r(c)]
  BY <1>2, <1>3 DEF Grow
<1>5. \A c : r(c).pc = "live"
  BY <1>1 DEF Vecs
<1> QED BY <1>1, <1>4, <1>5

LEMMA DropAllocatesNone ==
  ASSUME vec \in [Handles -> Vecs], heap \in [Blocks -> Cells], NEW h \in Handles, Drop(h)
  PROVE  /\ \A b \in Blocks : heap'[b] = heap[b] \/ heap'[b].layout # "chunks"
         /\ Raise /\ vec'[h].pc # "popped" /\ \A g \in Handles \ {h} : vec'[g] = vec[g]
<1> DEFINE r(b, n) == [Absent EXCEPT !.pc = "dropping", !.block = b, !.chunks = n]
<1>1. \/ vec' = [vec EXCEPT ![h] = Absent]
      \/ \E b, n : vec' = [vec EXCEPT ![h] = r(b, n)]
  BY DEF Drop
<1>2. Absent.pc = "absent" /\ \A b, n : r(b, n).pc = "dropping"
  BY DEF Absent
<1>3. heap' = heap \/ \E b : heap' = [heap EXCEPT ![b] = Free]
  BY DEF Drop
<1>4. Free.layout = "none"
  BY DEF Free
<1>5. Raise
  BY DEF Drop
<1> HIDE DEF r
<1>6. vec'[h].pc # "popped" /\ \A g \in Handles \ {h} : vec'[g] = vec[g]
  BY <1>1, <1>2
<1> QED BY <1>3, <1>4, <1>5, <1>6

(* What a block of chunks is allocated as: aligned, and only by FinishAlloc. *)
LEMMA ChunksStayAligned ==
  ASSUME PeakInv, Next
  PROVE  ChunksAligned'
<1> SUFFICES ASSUME NEW b \in Blocks PROVE heap'[b].layout = "chunks" => heap'[b].aligned
  BY DEF ChunksAligned
<1>1. heap \in [Blocks -> Cells] /\ (heap[b].layout = "chunks" => heap[b].aligned)
  BY DEF PeakInv, Inv, TypeOK, ChunksAligned
<1>2. ASSUME NEW h \in Handles, NEW size \in Sizes, NEW capacity \in 0..MaxCap,
             AllocVec(h, size, capacity)
      PROVE  heap' = heap
  BY <1>2 DEF AllocVec
<1>3. ASSUME NEW h \in Handles, FinishAlloc(h)
      PROVE  heap'[b] = heap[b] \/ heap'[b].aligned
  <2> DEFINE r(n) == [bytes |-> n, aligned |-> TRUE, layout |-> "chunks"]
  <2>1. heap' = heap \/ \E c, n : heap' = [heap EXCEPT ![c] = r(n)]
    BY <1>3 DEF FinishAlloc
  <2>2. \A n : r(n).aligned
    OBVIOUS
  <2> HIDE DEF r
  <2>3. heap'[b] = heap[b] \/ \E n : heap'[b] = r(n)
    BY <1>1, <2>1
  <2> QED BY <2>2, <2>3
<1>4. ASSUME NEW h \in Handles, NEW cap \in 1..MaxCap, Grow(h, cap)
      PROVE  heap'[b] = heap[b] \/ heap'[b].layout # "chunks"
  BY <1>4, GrowAllocatesNone DEF PeakInv, Inv, TypeOK
<1>5. ASSUME NEW h \in Handles, Drop(h)
      PROVE  heap'[b] = heap[b] \/ heap'[b].layout # "chunks"
  BY <1>5, DropAllocatesNone DEF PeakInv, Inv, TypeOK
<1>6. ASSUME NEW h \in Handles, Reclaim(h) PROVE heap' = heap
  BY <1>6 DEF Reclaim
<1>7. ASSUME DropPool PROVE heap'[b] = heap[b] \/ heap'[b].layout # "chunks"
  BY <1>1, <1>7 DEF DropPool, Free
<1> QED BY <1>1, <1>2, <1>3, <1>4, <1>5, <1>6, <1>7 DEF Next

(* Growth, a drop and the return of a block allocate no block of the pool's. *)
LEMMA OtherPeak ==
  ASSUME PeakInv, NEW h \in Handles,
         (\E cap \in 1..MaxCap : Grow(h, cap)) \/ Drop(h) \/ Reclaim(h), NEW n \in Classes
  PROVE  Demand(heap', vec', n) <= peak'[n]
<1>1. vec \in [Handles -> Vecs] /\ heap \in [Blocks -> Cells]
  BY DEF PeakInv, Inv, TypeOK
<1>2. /\ \A b \in Blocks : heap'[b] = heap[b] \/ heap'[b].layout # "chunks"
      /\ Raise /\ vec'[h].pc # "popped" /\ \A g \in Handles \ {h} : vec'[g] = vec[g]
  <2>1. CASE Reclaim(h)
    BY <1>1, <2>1 DEF Reclaim, Absent
  <2> QED BY <1>1, <2>1, GrowAllocatesNone, DropAllocatesNone
<1>3. Carved(heap', n) \subseteq Carved(heap, n) /\ Awaited(vec', n) \subseteq Awaited(vec, n)
  BY <1>2 DEF Carved, Awaited
<1> QED BY <1>2, <1>3, NoNewDemand

(* A dropped pool leaves nothing behind: every block was on a free list. *)
LEMMA DropPoolPeak ==
  ASSUME PeakInv, DropPool, NEW n \in Classes
  PROVE  Demand(heap', vec', n) <= peak'[n]
<1>1. /\ \A h \in Handles : vec[h].pc = "absent"
      /\ heap' = [b \in Blocks |->
           IF \E m \in Classes : \E i \in 1..Len(free_list[m]) : free_list[m][i] = b
           THEN Free ELSE heap[b]]
      /\ vec' = vec /\ peak' = [m \in Classes |-> 0]
      /\ free_list \in [Classes -> Seq(Blocks)]
  BY DEF DropPool, PeakInv, Inv, TypeOK
<1>2. \A m \in Classes : DOMAIN free_list[m] = 1..Len(free_list[m])
  BY <1>1
<1>3. ASSUME NEW b \in Blocks PROVE heap'[b].layout # "chunks"
  <2>1. CASE \E m \in Classes : \E i \in 1..Len(free_list[m]) : free_list[m][i] = b
    BY <1>1, <2>1 DEF Free
  <2>2. CASE ~ \E m \in Classes : \E i \in 1..Len(free_list[m]) : free_list[m][i] = b
    <3>1. \A g \in Handles : vec[g].block # b
      BY <1>1, PoolAssumption DEF PeakInv, Inv, CallsOK, CallOK
    <3>2. b \notin Allocated
      BY <1>2, <2>2, <3>1 DEF PeakInv, Inv, OneOwner
    <3> QED BY <1>1, <2>2, <3>2 DEF Allocated
  <2> QED BY <2>1, <2>2
<1>4. Carved(heap', n) = {} /\ Awaited(vec', n) = {}
  BY <1>1, <1>3 DEF Carved, Awaited
<1>5. Demand(heap', vec', n) = 0
  BY <1>4, FS_EmptySet DEF Demand
<1>6. peak'[n] = 0
  BY <1>1
<1> QED BY <1>5, <1>6

(* The pool recycles whatever the order of the threads' steps: it allocates  *)
(* a block of a size only when every one of that size it has is in use, so   *)
(* it never has more than were in use at once (buffer_pool.rs:99-106).       *)
THEOREM PoolRecycles == Spec => []NoMoreThanPeak
<1>1. PeakInv /\ [Next]_vars => PeakInv'
  <2> SUFFICES ASSUME PeakInv, [Next]_vars PROVE PeakInv'
    OBVIOUS
  <2>1. Inv'
    BY StepInv DEF PeakInv
  <2>2. CASE Next
    <3>1. peak' \in [Classes -> Nat]
      <4>1. CASE DropPool
        BY <4>1 DEF DropPool
      <4>2. CASE Raise
        BY <4>2, RaiseOK DEF PeakInv
      <4>3. DropPool \/ Raise
        BY <2>2 DEF Next, AllocVec, FinishAlloc, Grow, Drop, Reclaim
      <4> QED BY <4>1, <4>2, <4>3
    <3>2. ASSUME NEW n \in Classes PROVE Demand(heap', vec', n) <= peak'[n]
      BY <2>2, AllocVecPeak, FinishAllocPeak, OtherPeak, DropPoolPeak DEF Next
    <3>3. NoMoreThanPeak'
      BY <3>2 DEF NoMoreThanPeak, Demand, Carved, Awaited
    <3> QED BY <2>1, <2>2, <3>1, <3>3, ChunksStayAligned DEF PeakInv
  <2>3. CASE UNCHANGED vars
    BY <2>1, <2>3 DEF vars, PeakInv, ChunksAligned, NoMoreThanPeak
  <2> QED BY <2>2, <2>3
<1>2. PeakInv => NoMoreThanPeak
  BY DEF PeakInv
<1> QED BY InitPeak, <1>1, <1>2, PTL DEF Spec
==============================================================================
