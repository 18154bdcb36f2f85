----------------------------- MODULE MerkleTree -----------------------------
(* The binary Merkle tree over cosets of a word, and its openings as they    *)
(* lie on the tape: a tape is a sequence of scalars and digests.  Hashing is *)
(* free: a digest is the term it was made from.                              *)
EXTENDS SmallField

Scalar(s) == [kind |-> "scalar", of |-> s]
Digest(d) == [kind |-> "digest", of |-> d]
AsSeq(b)  == [i \in 1..Cardinality(DOMAIN b) |-> b[i - 1]]
Scalars(s) == [i \in 1..Len(s) |-> Scalar(s[i])]
Digests(s) == [i \in 1..Len(s) |-> Digest(s[i])]

compute_leaf_digest(values) == <<"leaf", values>>
compress(left, right)       == <<"node", left, right>>

fold_to_root(digests) ==
  LET d == log_len(digests)
      layer[k \in 0..d] ==
        IF k = 0 THEN digests
        ELSE [i \in 0..2^(d - k) - 1 |-> compress(layer[k - 1][2 * i], layer[k - 1][2 * i + 1])]
  IN  layer[d][0]

(* The prover's tree: one array, the leaves first, the root last.            *)
node_offset(log_n, leaves_start, log_width) ==
  2^log_n - 2^(log_n - log_width + 1) + leaves_start \div 2^log_width
from_leaves(leaves) ==
  LET n == log_len(leaves)
      Span(start, width) == [i \in 0..2^width - 1 |-> leaves[start + i]]
      Above == UNION {{<<w, i * 2^w>> : i \in 0..2^(n - w) - 1} : w \in 1..n}
  IN  [k \in 0..2^(n + 1) - 2 |->
         IF k < 2^n THEN leaves[k]
         ELSE LET s == CHOOSE s \in Above : 2^n + node_offset(n, s[2], s[1]) = k
              IN  fold_to_root(Span(s[2], s[1]))]
commit(word, log_leaf_size) ==
  from_leaves([i \in 0..2^(log_len(word) - log_leaf_size) - 1 |->
                 compute_leaf_digest(Chunk(word, log_leaf_size, i))])

tree_root(nodes) == nodes[Cardinality(DOMAIN nodes) - 1]
layer(nodes, layer_depth) ==
  LET range_start == Cardinality(DOMAIN nodes) + 1 - 2^(layer_depth + 1)
  IN  [i \in 1..2^layer_depth |-> nodes[range_start + i - 1]]
Sibling(i) == IF i % 2 = 0 THEN i + 1 ELSE i - 1
branch(nodes, depth, index, layer_depth) ==
  [j \in 1..depth - layer_depth |->
     nodes[(2^(j - 1) - 1) * 2^(depth + 2 - j) + Sibling(index \div 2^(j - 1))]]

log2_ceil(n) == CHOOSE k \in 0..n : 2^k >= n /\ \A j \in 0..k - 1 : 2^j < n
optimal_verify_layer(n_queries, tree_depth) ==
  IF log2_ceil(n_queries) < tree_depth THEN log2_ceil(n_queries) ELSE tree_depth
(* In digests. *)
merkle_proof_size(depth, n_queries) ==
  LET layer_depth == optimal_verify_layer(n_queries, depth)
  IN  (depth - layer_depth) * n_queries + 2^layer_depth

(* What the prover writes: the layer, then a leaf and its branch per index;  *)
(* or the whole word.                                                        *)
send_openings(nodes, word, log_leaf_size, indices) ==
  LET depth       == log_len(word) - log_leaf_size
      layer_depth == optimal_verify_layer(Len(indices), depth)
      Opened(q)   == Scalars(AsSeq(Chunk(word, log_leaf_size, indices[q])))
                       \o Digests(branch(nodes, depth, indices[q], layer_depth))
      all[q \in 0..Len(indices)] ==
        IF q = 0 THEN Digests(layer(nodes, layer_depth)) ELSE all[q - 1] \o Opened(q)
  IN  all[Len(indices)]
send_committed_vector(word) == Scalars(AsSeq(word))

(* What the verifier reads.  A read of the wrong kind, or past the end, is   *)
(* an error, as is a digest that does not match.                             *)
Reads(tape, pos, n, kind) ==
  pos + n - 1 <= Len(tape) /\ \A i \in pos..pos + n - 1 : tape[i].kind = kind
ReadAt(tape, pos, n) == [i \in 0..n - 1 |-> tape[pos + i].of]

(* The digest at the layer, climbing from a leaf by the siblings.            *)
Climb(digest, siblings, index) ==
  LET up[k \in 0..Cardinality(DOMAIN siblings)] ==
        IF k = 0 THEN digest
        ELSE IF (index \div 2^(k - 1)) % 2 = 0 THEN compress(up[k - 1], siblings[k - 1])
        ELSE compress(siblings[k - 1], up[k - 1])
  IN  up[Cardinality(DOMAIN siblings)]
verify_layer(root, digests) == fold_to_root(digests) = root
verify_opening(index, values, digests, siblings) ==
  Climb(compute_leaf_digest(values), siblings, index)
    = digests[index \div 2^Cardinality(DOMAIN siblings)]

(* A commitment is its root, the depth of its tree and the log of its leaf.  *)
recv_openings(tape, pos, commitment, indices) ==
  LET leaf_size   == 2^commitment.log_leaf_size
      layer_depth == optimal_verify_layer(Len(indices), commitment.depth)
      height      == commitment.depth - layer_depth
      start(q)    == pos + 2^layer_depth + (q - 1) * (leaf_size + height)
      shaped      == /\ Reads(tape, pos, 2^layer_depth, "digest")
                     /\ \A q \in 1..Len(indices) :
                          /\ Reads(tape, start(q), leaf_size, "scalar")
                          /\ Reads(tape, start(q) + leaf_size, height, "digest")
      digests     == ReadAt(tape, pos, 2^layer_depth)
      leaf(q)     == ReadAt(tape, start(q), leaf_size)
  IN  [ok  |-> /\ shaped
               /\ verify_layer(commitment.root, digests)
               /\ \A q \in 1..Len(indices) :
                    verify_opening(indices[q], leaf(q), digests,
                                   ReadAt(tape, start(q) + leaf_size, height)),
       values |-> IF shaped THEN [q \in 1..Len(indices) |-> leaf(q)] ELSE <<>>,
       pos    |-> start(Len(indices) + 1)]

verify_vector(root, data, log_leaf_size) ==
  fold_to_root([i \in 0..2^(log_len(data) - log_leaf_size) - 1 |->
                  compute_leaf_digest(Chunk(data, log_leaf_size, i))]) = root
recv_committed_vector(tape, pos, commitment) ==
  LET len    == 2^(commitment.log_leaf_size + commitment.depth)
      shaped == Reads(tape, pos, len, "scalar")
      data   == ReadAt(tape, pos, len)
  IN  [ok   |-> shaped /\ verify_vector(commitment.root, data, commitment.log_leaf_size),
       data |-> IF shaped THEN data ELSE <<>>,
       pos  |-> pos + len]
=============================================================================
