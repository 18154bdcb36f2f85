---------------------------- MODULE ReedSolomon ----------------------------
(* The interleaved Reed-Solomon code over the additive NTT's domain, and the *)
(* folds of its codewords: those the prover makes of a whole codeword and    *)
(* those the verifier makes of the cosets it opens.                          *)
EXTENDS SmallField

(* gao_mateer_basis: from an element of trace one down to one. *)
Basis == LET b[k \in 1..4] == IF k = 4 THEN TRACE_ONE_ELEMENT ELSE b[k + 1] ** b[k + 1] ++ b[k + 1]
         IN  <<b[1], b[2], b[3], b[4]>>

(* The sum of the elements that the bits of a word select. *)
subset_sum(elems, word) ==
  SumTo(Len(elems), [j \in 0..Len(elems) - 1 |-> IF Bit(word, j) = 1 THEN elems[j + 1] ELSE 0])
twiddle(layer, block) == subset_sum(SubSeq(Basis, 2, layer + 1), block)

Butterfly(d, n, layer) ==
  LET half == 2^(n - layer - 1)
  IN  [x \in DOMAIN d |->
         LET lo == IF (x \div half) % 2 = 0 THEN x ELSE x - half
             u  == d[lo] ++ d[lo + half] ** twiddle(layer, x \div (2 * half))
         IN  IF lo = x THEN u ELSE d[x] ++ u]

forward_transform(d, skip_early, skip_late) ==
  LET n == log_len(d)
      t[l \in skip_early..n - skip_late] == IF l = skip_early THEN d ELSE Butterfly(t[l - 1], n, l - 1)
  IN  t[n - skip_late]

BitReverse(x, n) == LET r[j \in 0..n] == IF j = 0 THEN 0 ELSE 2 * r[j - 1] + Bit(x, j - 1) IN r[n]

encode_batch(message, log_inv_rate, log_batch_size) ==
  LET n == log_len(message)
  IN  forward_transform([x \in 0..2^(n + log_inv_rate) - 1 |-> message[BitReverse(x % 2^n, n)]],
                        log_inv_rate, log_batch_size)

(* The inverse butterfly of a pair, and the line through it at a challenge. *)
FoldPair(pair0, pair1, t, r) ==
  LET v == pair1 ++ pair0 IN extrapolate_line(pair0 ++ v ** t, v, r)

(* fold_chunk and, over all chunks, fold_codeword. *)
fold_chunk(n, chunk_index, values, challenges) ==
  LET size == Len(challenges)
      v[k \in 0..size] ==
        IF k = 0 THEN values
        ELSE [o \in 0..2^(size - k) - 1 |->
                FoldPair(v[k - 1][2 * o], v[k - 1][2 * o + 1],
                         twiddle(n - k, chunk_index * 2^(size - k) + o), challenges[k])]
  IN  v[size][0]
fold_codeword(codeword, challenges) ==
  LET n == log_len(codeword)
      k == Len(challenges)
  IN  [i \in 0..2^(n - k) - 1 |-> fold_chunk(n, i, Chunk(codeword, k, i), challenges)]

(* The verifier's fold_coset: the twiddle of a block is that of the coset,   *)
(* read off the word that names it, plus that of the offset within it.       *)
fold_coset(n, chunk_index, challenges, values) ==
  LET size == Len(challenges)
      v[k \in 0..size] ==
        IF k = 0 THEN values
        ELSE LET shift   == size - k
                 layer   == SubSeq(Basis, 2, n - k + 1)
                 coset   == subset_sum(SubSeq(layer, shift + 1, n - k), chunk_index)
             IN  [o \in 0..2^shift - 1 |->
                    FoldPair(v[k - 1][2 * o], v[k - 1][2 * o + 1],
                             coset ++ subset_sum(SubSeq(layer, 1, shift), o), challenges[k])]
  IN  v[size][0]

(* Folding a coset of interleaved codewords, from the last challenge down. *)
evaluate_inplace(values, challenges) ==
  LET n == Len(challenges)
      v[k \in 0..n] == IF k = 0 THEN values ELSE fold_highest_var(v[k - 1], challenges[n + 1 - k])
  IN  v[n][0]
============================================================================
