----------------------------- MODULE RoundLayout -----------------------------
(* How a round's oracles are laid out in the one oracle committed for them   *)
(* (crates/iop/src/channel/merge.rs, crates/iop-prover/src/channel/merge.rs). *)
(* Oracle k has pow2[len[k]] scalars; scalar i of it is <<k, i>>, and so is *)
(* entry i of the transparent polynomial it is opened against.               *)
EXTENDS Naturals, FiniteSets, Sequences, SequencesExt, FiniteSetsExt

CONSTANT LogWidth  \* P::LOG_WIDTH: scalars of a packed word, as a power of two

Zero == <<>>

pow2[n \in Nat] == IF n = 0 THEN 1 ELSE 2 * pow2[n - 1]  \* 1 << n

log2_ceil(n) == CHOOSE e \in 0..n : n <= pow2[e] /\ (e = 0 \/ pow2[e - 1] < n)

(* Largest first, and a stable sort keeps the order of arrival. *)
Precedes(len, j, k) == len[j] > len[k] \/ (len[j] = len[k] /\ j < k)
Order(len) == [i \in DOMAIN len |->
  CHOOSE k \in DOMAIN len : Cardinality({j \in DOMAIN len : Precedes(len, j, k)}) = i - 1]

Total(len, members) == MapThenSumSet(LAMBDA k : pow2[len[k]], members)
merged_log_msg_len(len) == log2_ceil(Total(len, DOMAIN len))

(* Mutant: they lie in the order of arrival. *)
BlockIndicesByArrival(len) ==
  [k \in DOMAIN len |-> Total(len, 1..k - 1) \div pow2[len[k]]]

(* Oracles lie end to end in that order, each at a multiple of its size. *)
BlockIndices(len) ==
  LET order == Order(len)
      before(k) == {order[i] : i \in 1..CHOOSE i \in DOMAIN order : order[i] = k} \ {k}
  IN  [k \in DOMAIN len |-> Total(len, before(k)) \div pow2[len[k]]]

Zeros(log_len) == [p \in 0..pow2[log_len] - 1 |-> Zero]

(* place_block: oracle k's pow2[n] values written at a block of their size *)
PlaceBlock(dst, k, n, block_index) ==
  [p \in DOMAIN dst |-> IF p \div pow2[n] = block_index THEN <<k, p % pow2[n]>> ELSE dst[p]]

(* Mutant: narrow oracles are appended too, a word each. *)
CombinedByWords(len, of) ==
  LET order == Order(len)
      word(k) == IF len[k] > LogWidth THEN pow2[len[k]] ELSE pow2[LogWidth]
      run == FlattenSeq([j \in 1..Len(order) |->
               [i \in 1..word(order[j]) |->
                 IF i <= pow2[len[order[j]]] THEN <<of[order[j]], i - 1>> ELSE Zero]])
  IN  [p \in DOMAIN Zeros(merged_log_msg_len(len)) |->
        IF p < Len(run) THEN run[p + 1] ELSE Zero]

(* The combined buffer.  Oracles that fill whole words are a prefix of the   *)
(* order and are appended word by word; the rest is zeroed, and the narrow   *)
(* ones, named by "of" like the others, are placed in it.                    *)
Combined(len, of) ==
  LET order == Order(len)
      block == BlockIndices(len)
      n_whole == Max({m \in 0..Len(order) : \A i \in 1..m : len[order[i]] >= LogWidth})
      run == FlattenSeq([j \in 1..n_whole |->
               [i \in 1..pow2[len[order[j]]] |-> <<of[order[j]], i - 1>>]])
      words == [p \in DOMAIN Zeros(merged_log_msg_len(len)) |->
                 IF p < Len(run) THEN run[p + 1] ELSE Zero]
  IN  FoldLeft(LAMBDA dst, k : PlaceBlock(dst, of[k], len[k], block[k]),
               words, SubSeq(order, n_whole + 1, Len(order)))

(* Mutant: the low and the high coordinates are taken for each other. *)
BlockWeightsHighFirst(k, n, block_index, combined_log_len) ==
  [p \in 0..pow2[combined_log_len] - 1 |->
    IF p % pow2[combined_log_len - n] = block_index
    THEN <<k, p \div pow2[combined_log_len - n]>> ELSE Zero]

(* The verifier's transparent polynomial at the vertices of the cube: the    *)
(* coordinates above n must spell the block index, as far as there are any.  *)
BlockWeights(k, n, block_index, combined_log_len) ==
  [p \in 0..pow2[combined_log_len] - 1 |->
    IF p \div pow2[n] = block_index % pow2[combined_log_len - n] THEN <<k, p % pow2[n]>> ELSE Zero]
=============================================================================
