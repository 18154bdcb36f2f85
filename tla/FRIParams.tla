----------------------------- MODULE FRIParams ------------------------------
(* The shape of an opening: how far each committed oracle is folded before   *)
(* all are added up, and by how much each later fold reduces the word.  It   *)
(* is chosen to minimize the bytes of the proof.  An oracle is described by  *)
(* the variables of its message and whether a mask is interleaved with it.   *)
EXTENDS MerkleTree

CONSTANTS ValueBytes, DigestBytes   \* the serialized sizes of an element and of a digest

MaxOf(S, least) == CHOOSE m \in S \union {least} : \A s \in S \union {least} : s <= m
Excess(a, b)    == IF a > b THEN a - b ELSE 0
Total(f)        == LET t[i \in 0..Len(f)] == IF i = 0 THEN 0 ELSE t[i - 1] + f[i] IN t[Len(f)]

(* The costs of the choices, in order: the scan keeps the later of equals    *)
(* and stops at the first that costs more.                                   *)
min_concave(cost) ==
  CHOOSE k \in 1..Len(cost) : /\ \A j \in 2..k : cost[j] <= cost[j - 1]
                              /\ k < Len(cost) => cost[k + 1] > cost[k]

compute_layer_size_unfolded(n_queries, log_code_len, arity) ==
  ValueBytes * 2^arity * n_queries + merkle_proof_size(log_code_len, n_queries) * DigestBytes
compute_layer_reduction_size(n_queries, log_code_len, arity) ==
  ValueBytes * 2^arity * n_queries + merkle_proof_size(log_code_len - arity, n_queries) * DigestBytes

(* For every dimension up to the given one, the least size and the arity of  *)
(* the first fold that attains it, zero for none.                            *)
compute_optimal_arities(log_msg_len, rate, n_queries) ==
  LET entry[n \in 0..log_msg_len] ==
        LET terminal == ValueBytes * 2^(n + rate)
            cost     == [a \in 1..n |-> compute_layer_reduction_size(n_queries, n + rate, a)
                                          + entry[n - a].proof_size]
            arity    == IF n = 0 THEN 0 ELSE min_concave(cost)
        IN  IF n > 0 /\ cost[arity] < terminal
              THEN [proof_size |-> cost[arity], arity |-> arity]
              ELSE [proof_size |-> terminal, arity |-> 0]
  IN  [n \in 0..log_msg_len |-> entry[n]]
fold_arities_from(entries, dim) ==
  LET arities[n \in DOMAIN entries] ==
        IF entries[n].arity = 0 THEN <<>>
        ELSE <<entries[n].arity>> \o arities[n - entries[n].arity]
  IN  arities[dim]

committed_len(spec) == IF spec.is_zk THEN spec.log_msg_len + 1 ELSE spec.log_msg_len
min_reduced_log_dim(specs) ==
  MaxOf({committed_len(specs[i]) - 1 : i \in {i \in DOMAIN specs : specs[i].is_zk}}, 0)
max_reduced_log_dim(specs) ==
  MaxOf({committed_len(specs[i]) : i \in {i \in DOMAIN specs : ~specs[i].is_zk}},
        min_reduced_log_dim(specs))

batch_of(spec, dim) == IF spec.is_zk THEN 1 ELSE Excess(committed_len(spec), dim)
reduction_size(specs, rate, n_queries, dim) ==
  Total([i \in DOMAIN specs |-> compute_layer_reduction_size(n_queries, committed_len(specs[i]) + rate,
                                                             batch_of(specs[i], dim))])
choose_batch_size_and_arities(specs, rate, n_queries) ==
  LET top     == max_reduced_log_dim(specs)
      entries == compute_optimal_arities(top, rate, n_queries)
      cost    == [k \in 1..top - min_reduced_log_dim(specs) + 1 |->
                    reduction_size(specs, rate, n_queries, top + 1 - k) + entries[top + 1 - k].proof_size]
      k       == min_concave(cost)
  IN  [proof_size |-> cost[k], dim |-> top + 1 - k, arities |-> fold_arities_from(entries, top + 1 - k)]

CodewordSpecOf(spec, dim) ==
  LET batch == batch_of(spec, dim)
  IN  [log_lift  |-> dim - (committed_len(spec) - batch),
       log_early |-> IF spec.is_zk THEN batch ELSE 0,
       log_later |-> IF spec.is_zk THEN 0 ELSE batch]

new_batch(dim, rate, oracles, arities, n_queries) ==
  LET early == MaxOf({oracles[i].log_early : i \in DOMAIN oracles}, 0)
      later == MaxOf({oracles[i].log_later : i \in DOMAIN oracles}, 0)
  IN  [log_dim |-> dim, log_inv_rate |-> rate, input_oracles |-> oracles,
       max_early |-> early, max_later |-> later, log_n_oracles |-> log2_ceil(Len(oracles)),
       fold_arities |-> arities, log_terminal_dim |-> dim - Total(arities),
       n_test_queries |-> n_queries]
optimal_for_batch(specs, rate, n_queries) ==
  LET c == choose_batch_size_and_arities(specs, rate, n_queries)
  IN  [params   |-> new_batch(c.dim, rate, [i \in DOMAIN specs |-> CodewordSpecOf(specs[i], c.dim)],
                              c.arities, n_queries),
       estimate |-> c.proof_size]

log_batch_size(spec)   == spec.log_early + spec.log_later
batch_rounds(params)   == params.max_early + params.log_n_oracles + params.max_later
n_fold_rounds(params)  == params.log_dim + batch_rounds(params)
index_bits(params)     == params.log_dim + params.log_inv_rate
oracle_log_dim(params, i) == params.log_dim - params.input_oracles[i].log_lift
n_oracles(params)      == 1 + Len(params.fold_arities)

(* What one message costs: an opening per oracle and per fold, and the last  *)
(* word in full.                                                             *)
open_size(n_queries, log_n_cosets, arity) ==
  merkle_proof_size(log_n_cosets, n_queries) * DigestBytes + n_queries * 2^arity * ValueBytes
proof_size(params) ==
  LET q == params.n_test_queries
  IN  (Len(params.input_oracles) + n_oracles(params)) * DigestBytes
        + ValueBytes * 2^(params.log_terminal_dim + params.log_inv_rate)
        + Total([i \in DOMAIN params.input_oracles |->
                   open_size(q, oracle_log_dim(params, i) + params.log_inv_rate,
                             log_batch_size(params.input_oracles[i]))])
        + Total([k \in DOMAIN params.fold_arities |->
                   open_size(q, index_bits(params) - Total(SubSeq(params.fold_arities, 1, k)),
                             params.fold_arities[k])])
=============================================================================
