--------------------------- MODULE BaseFoldProver ---------------------------
(* The prover's channel: oracles are committed and related to vectors; then  *)
(* all the relations are opened together.  Claims on inner products are      *)
(* masked, batched and reduced by a sumcheck to evaluations at a point, and  *)
(* those to one evaluation of a combined multilinear, proved while the       *)
(* combination of the codewords is folded; last the folds are opened where   *)
(* the challenger asks.                                                      *)
EXTENDS ReedSolomon, FRIParams

CONSTANTS Families,   \* what is opened, and which deviations are looked at
          Seeds       \* the challenger's answers, and the witnesses

VARIABLES setup,      \* the family, the seed and the shape of the opening
          cheat,      \* what the prover did that its code does not
          tape, indices, prover

Specs     == setup.family.specs
Params    == setup.params
Relations == setup.family.relations
Oracles   == DOMAIN Specs
Vars(i)   == Specs[i].log_msg_len
max_n     == MaxOf({Vars(i) : i \in Oracles}, 0)
Rate      == Params.log_inv_rate
Arities   == Params.fold_arities
Batch(i)  == log_batch_size(Params.input_oracles[i])
Lift(i)   == Params.input_oracles[i].log_lift
ZkUpTo(i) == Cardinality({k \in 1..i : Specs[k].is_zk})
n_zk      == ZkUpTo(Len(Specs))

Reversed(s)  == [k \in 1..Len(s) |-> s[Len(s) + 1 - k]]
SumOver(s)   == SumTo(Len(s), [k \in 0..Len(s) - 1 |-> s[k + 1]])
Altered(w, x) == [w EXCEPT ![x] = @ ++ 1]

(* The witnesses, their masks and the vectors they are related to.           *)
Message(i)  == [x \in 0..2^Vars(i) - 1 |-> (3 * x * x + 5 * x + 7 * i + setup.seed) % 16]
Mask(i)     == [x \in 0..2^Vars(i) - 1 |-> (11 * x + 3 * i + 2 + setup.seed) % 16]
Transparent(i, j) == [x \in 0..2^Vars(i) - 1 |-> (x * x + 9 * x + i + 6 * j + setup.seed) % 16]
TrueClaim(i, j)   == inner_product(Message(i), Transparent(i, j))

(* The challenger's k-th answer, when so many elements have been observed.   *)
Challenge(k, observed)  == (5 * setup.seed + 7 * k + 3 * observed + k * k) % 16
Sampled(actor, k, more) == Challenge(actor.draws + k, actor.observed + more)
sample_bits == {[q \in DOMAIN w |-> w[q] % 2^index_bits(Params)] : w \in setup.family.places}

CheatsBy(kind) == cheat.kind = "none" /\ kind \in setup.family.cheats
Cheat(kind, at) == [kind |-> kind, at |-> at]

(* Of what is committed, `word' is what the tree holds and is opened,        *)
(* `codeword' what is folded: they differ where the prover cheats.           *)
Sent(codeword) ==
  {[word |-> codeword, cheat |-> cheat]} \union
  {[word |-> Altered(codeword, x), cheat |-> Cheat("word", x)] :
     x \in IF CheatsBy("word") THEN DOMAIN codeword ELSE {}}
send_merkle_commitment(codeword, word, log_leaf_size) ==
  [codeword |-> codeword, word |-> word, log_leaf_size |-> log_leaf_size,
   nodes |-> commit(word, log_leaf_size)]

-----------------------------------------------------------------------------
Joined(a, b) == [x \in 0..2 * Cardinality(DOMAIN a) - 1 |->
                   IF x \in DOMAIN a THEN a[x] ELSE b[x - Cardinality(DOMAIN a)]]
Encoded(i)   == encode_batch(IF Specs[i].is_zk THEN Joined(Message(i), Mask(i)) ELSE Message(i),
                             Rate, Batch(i))

send_oracle ==
  LET i == Len(prover.oracles) + 1
  IN  /\ prover.stage = "commit" /\ i \in Oracles
      /\ \E codeword \in {Encoded(i)} : \E sent \in Sent(codeword) :
           \E committed \in {send_merkle_commitment(codeword, sent.word, Batch(i))} :
             /\ cheat' = sent.cheat
             /\ tape' = Append(tape, Digest(tree_root(committed.nodes)))
             /\ prover' = [prover EXCEPT !.oracles = Append(@, committed), !.queue = Append(@, <<>>),
                                         !.finalized = Append(@, FALSE), !.observed = @ + 1]
      /\ UNCHANGED <<setup, indices>>

prove_oracle_relation ==
  /\ prover.stage = "commit"
  /\ \E i \in DOMAIN prover.queue :
       LET j     == Len(prover.queue[i]) + 1
           t     == Transparent(i, j)
           Queue(claim) == prover' = [prover EXCEPT !.queue[i] =
                                        Append(@, [transparent |-> t, claim |-> claim])]
       IN  /\ j <= Relations[i]
           /\ \/ Queue(TrueClaim(i, j)) /\ UNCHANGED cheat
              \/ /\ CheatsBy("claim")
                 /\ Queue(TrueClaim(i, j) ++ 1) /\ cheat' = Cheat("claim", <<i, j>>)
  /\ UNCHANGED <<setup, tape, indices>>

finalize_oracle ==
  /\ prover.stage = "commit"
  /\ \E i \in DOMAIN prover.finalized :
       /\ ~prover.finalized[i]
       /\ prover' = [prover EXCEPT !.finalized[i] = TRUE]
  /\ UNCHANGED <<setup, cheat, tape, indices>>

(* Every oracle is committed, claimed of as agreed, and handed back.         *)
Committed == /\ prover.stage = "commit" /\ Len(prover.oracles) = Len(Specs)
             /\ \A i \in Oracles : Len(prover.queue[i]) = Relations[i]
Finalized == \A i \in Oracles : prover.finalized[i]

(* Nothing was claimed, so nothing is opened. *)
finish_empty ==
  /\ Committed /\ \A i \in Oracles : Relations[i] = 0
  /\ prover' = [prover EXCEPT !.stage = "done"]
  /\ UNCHANGED <<setup, cheat, tape, indices>>

-----------------------------------------------------------------------------
batch_relations_per_oracle(queue, lambda) ==
  [i \in DOMAIN queue |->
     [transparent |-> [x \in 0..2^Vars(i) - 1 |->
                         SumOver([j \in DOMAIN queue[i] |->
                                    Power(lambda, j - 1) ** queue[i][j].transparent[x]])],
      claim |-> SumOver([j \in DOMAIN queue[i] |-> Power(lambda, j - 1) ** queue[i][j].claim])]]
ZkOracles == SelectSeq([i \in Oracles |-> i], LAMBDA i : Specs[i].is_zk)
(* A masked value: what hides it weighs with the challenge, if there is one. *)
Blind(i, x, y, gamma) == IF Specs[i].is_zk THEN extrapolate_line(x, y, gamma[1]) ELSE x

MaskStep ==
  /\ Committed /\ Finalized /\ \A i \in Oracles : Relations[i] > 0
  /\ \E relations \in {batch_relations_per_oracle(prover.queue, Sampled(prover, 0, 0))} :
       LET gamma      == IF n_zk > 0 THEN <<Sampled(prover, 1, n_zk)>> ELSE <<>>
           Sigma(i)   == inner_product(Mask(i), relations[i].transparent)
           Blinded(i) == [x \in 0..2^Vars(i) - 1 |-> Blind(i, Message(i)[x], Mask(i)[x], gamma)]
           Store(i, message) ==
             [blinded |-> message, message |-> message, transparent |-> relations[i].transparent,
              claim |-> Blind(i, relations[i].claim, Sigma(i), gamma), eq_prefix |-> 1]
       IN  /\ tape' = tape \o Scalars([k \in DOMAIN ZkOracles |-> Sigma(ZkOracles[k])])
           /\ prover' = [prover EXCEPT
                !.stage = "sumcheck", !.queue = <<>>, !.gamma = gamma,
                !.batch_coeff = Sampled(prover, 1 + Len(gamma), n_zk),
                !.observed = @ + n_zk, !.draws = @ + 2 + Len(gamma),
                !.store = [i \in Oracles |-> Store(i, Blinded(i))]]
  /\ UNCHANGED <<setup, cheat, indices>>

(* One oracle's round of the sumcheck: over the padding variables, which are *)
(* bound first, and over its own.                                            *)
Padding(i, round) == round < max_n - Vars(i)
interpolate(s) ==
  LET a    == s.message
      b    == s.transparent
      y1   == inner_product(High(a), High(b))
      yinf == inner_product([x \in DOMAIN Low(a) |-> a[x] ++ High(a)[x]],
                            [x \in DOMAIN Low(b) |-> b[x] ++ High(b)[x]])
      y0   == s.claim ++ y1
  IN  <<y0, y1 ++ y0 ++ yinf, yinf>>
round_coeffs(i, s, round, own) ==
  IF Padding(i, round) THEN <<s.claim ** s.eq_prefix, s.claim ** s.eq_prefix, 0>>
  ELSE [d \in 1..3 |-> own[d] ** s.eq_prefix]
fold_store(i, s, round, own, r) ==
  IF Padding(i, round) THEN [s EXCEPT !.eq_prefix = @ ** (1 ++ r)]
  ELSE [s EXCEPT !.message = fold_highest_var(@, r), !.transparent = fold_highest_var(@, r),
                 !.claim = evaluate_univariate(own, r)]

SumcheckRound ==
  LET round == Len(prover.challenges)
      r     == Sampled(prover, 0, 2)
  IN  /\ prover.stage = "sumcheck" /\ round < max_n
      /\ \E own \in {[i \in Oracles |-> IF Padding(i, round) THEN <<>> ELSE interpolate(prover.store[i])]} :
           LET batched(d) == SumOver([i \in Oracles |->
                               Power(prover.batch_coeff, i - 1)
                                 ** round_coeffs(i, prover.store[i], round, own[i])[d]])
           IN  /\ tape' = tape \o Scalars(<<batched(1), batched(2)>>)
               /\ prover' = [prover EXCEPT
                    !.challenges = Append(@, r), !.observed = @ + 2, !.draws = @ + 1,
                    !.store = [i \in Oracles |-> fold_store(i, prover.store[i], round, own[i], r)]]
      /\ UNCHANGED <<setup, cheat, indices>>

-----------------------------------------------------------------------------
(* Every oracle in the low part of each of its blocks, weighed.              *)
place_repeated(store, outer) ==
  [x \in 0..2^max_n - 1 |->
     SumOver([i \in Oracles |->
       LET at == x % 2^(Vars(i) + Lift(i))
       IN  IF at < 2^Vars(i) THEN eq_ind(i - 1, outer) ** store[i].blinded[at] ELSE 0])]
combined_claim(point, outer, alphas) ==
  SumOver([i \in Oracles |-> eq_ind(i - 1, outer) ** alphas[i]
                               ** eq_ind_zero(SubSeq(point, Vars(i) + 1, Vars(i) + Lift(i)))])

CombineStep ==
  LET alphas == [i \in Oracles |-> prover.store[i].message[0]]
      point  == Reversed(prover.challenges)
      outer  == [k \in 1..Params.log_n_oracles |-> Sampled(prover, k - 1, Len(Specs))]
      known  == prover.gamma \o outer
  IN  /\ prover.stage = "sumcheck" /\ Len(prover.challenges) = max_n
      /\ tape' = tape \o Scalars(alphas)
      /\ prover' = [prover EXCEPT
           !.stage = IF max_n + Len(known) = n_fold_rounds(Params) THEN "fold" ELSE "panicked",
           !.store = <<>>, !.challenges = <<>>, !.point = point,
           !.witness = place_repeated(prover.store, outer),
           !.claim = combined_claim(point, outer, alphas),
           !.observed = @ + Len(Specs), !.draws = @ + Len(outer),
           !.unprocessed = known, !.curr_round = Len(known),
           !.next_commit_round = batch_rounds(Params)]
      /\ UNCHANGED <<setup, cheat, indices>>

(* The part of the first challenges that folds an oracle's own interleaving, *)
(* and the oracle's weight in the combination.                               *)
Suffix(s, n)  == SubSeq(s, Len(s) - n + 1, Len(s))
WindowFirst(i, ch) == Suffix(SubSeq(ch, 1, Params.max_early), Params.input_oracles[i].log_early)
                        \o SubSeq(SubSeq(ch, Params.max_early + Params.log_n_oracles + 1, batch_rounds(Params)),
                                  1, Params.input_oracles[i].log_later)
Window(i, ch) == Suffix(SubSeq(ch, 1, Params.max_early), Params.input_oracles[i].log_early)
                   \o Suffix(SubSeq(ch, 1, batch_rounds(Params)), Params.input_oracles[i].log_later)
Outer(ch)     == SubSeq(ch, Params.max_early + 1, Params.max_early + Params.log_n_oracles)
fold_batch(words, challenges) ==
  LET Folded(i, k) == inner_product(Chunk(words[i], Batch(i), k),
                                    eq_ind_partial_eval(Window(i, challenges)))
  IN  [x \in 0..2^index_bits(Params) - 1 |->
         SumOver([i \in Oracles |-> eq_ind(i - 1, Outer(challenges)) ** Folded(i, x \div 2^Lift(i))])]

(* A fold that is due: it is committed in cosets of the next one.            *)
Folded(p) ==
  IF p.rounds = <<>> THEN fold_batch([i \in Oracles |-> p.oracles[i].codeword], p.unprocessed)
  ELSE fold_codeword(p.rounds[Len(p.rounds)].codeword, p.unprocessed)
next_arity(p) == IF Len(p.rounds) < Len(Arities) THEN Arities[Len(p.rounds) + 1]
                 ELSE Params.log_terminal_dim
CommitRound(p, committed) ==
  [p EXCEPT !.rounds = Append(@, committed), !.unprocessed = <<>>, !.observed = @ + 1,
            !.next_commit_round = IF Len(p.rounds) < Len(Arities) THEN p.curr_round + next_arity(p)
                                  ELSE n_fold_rounds(Params) + 1]
(* The outcomes: the prover, what it sent, and the cheat. *)
execute_fold_round(p) ==
  IF p.next_commit_round # p.curr_round THEN {[prover |-> p, roots |-> <<>>, cheat |-> cheat]}
  ELSE LET codeword  == Folded(p)
           Done(sent, committed) == [prover |-> CommitRound(p, committed), cheat |-> sent.cheat,
                                     roots  |-> <<Digest(tree_root(committed.nodes))>>]
       IN  {Done(sent, send_merkle_commitment(codeword, sent.word, next_arity(p))) :
              sent \in Sent(codeword)}

FoldRound ==
  LET left  == max_n - 1 - Len(prover.challenges)
      alpha == prover.point[left + 1]
      y1    == inner_product(High(prover.witness), eq_ind_partial_eval(SubSeq(prover.point, 1, left)))
      y0    == (prover.claim ++ y1 ** alpha) ** invert_or_zero(1 ++ alpha)
  IN  /\ prover.stage = "fold" /\ left >= 0
      /\ \E next \in execute_fold_round([prover EXCEPT !.observed = @ + 1]) :
           LET r == Sampled(next.prover, 0, 0)
           IN  /\ tape' = tape \o Scalars(<<y1 ++ y0>>) \o next.roots
               /\ cheat' = next.cheat
               /\ prover' = [next.prover EXCEPT
                    !.witness = fold_highest_var(@, r), !.claim = y0 ++ (y1 ++ y0) ** r,
                    !.challenges = Append(@, r), !.draws = @ + 1,
                    !.unprocessed = Append(@, r), !.curr_round = @ + 1]
      /\ UNCHANGED <<setup, indices>>

LastFold ==
  /\ prover.stage = "fold" /\ Len(prover.challenges) = max_n
  /\ \E next \in execute_fold_round(prover) :
       /\ tape' = tape \o next.roots
       /\ cheat' = next.cheat
       /\ prover' = [next.prover EXCEPT !.stage = "query"]
  /\ UNCHANGED <<setup, indices>>

-----------------------------------------------------------------------------
Shifted(ix, by) == [q \in DOMAIN ix |-> ix[q] \div 2^by]
AritiesUpTo(k)  == Total(SubSeq(Arities, 1, k))
Opening(c, ix)  == send_openings(c.nodes, c.word, c.log_leaf_size, ix)
prove_queries(ix) ==
  LET n == Len(Specs)
      opened[k \in 0..n + Len(Arities)] ==
        IF k = 0 THEN <<>>
        ELSE opened[k - 1] \o
             (IF k <= n THEN Opening(prover.oracles[k], Shifted(ix, Lift(k)))
              ELSE Opening(prover.rounds[k - n], Shifted(ix, AritiesUpTo(k - n))))
  IN  opened[n + Len(Arities)] \o send_committed_vector(prover.rounds[Len(prover.rounds)].word)

(* Advice is not observed, so one that is altered changes no challenge.      *)
AlteredUnit(unit) == IF unit.kind = "scalar" THEN Scalar(unit.of ++ 1) ELSE Digest(<<"other", unit.of>>)
finish_proof ==
  /\ prover.stage = "query"
  /\ \E ix \in sample_bits : \E advice \in {prove_queries(ix)} :
       /\ indices' = ix
       /\ \/ tape' = tape \o advice /\ UNCHANGED cheat
          \/ /\ CheatsBy("advice")
             /\ \E k \in DOMAIN advice :
                  /\ tape' = tape \o [advice EXCEPT ![k] = AlteredUnit(@)]
                  /\ cheat' = Cheat("advice", k)
  /\ prover' = [prover EXCEPT !.stage = "done"]
  /\ UNCHANGED setup

ProverInit ==
  [stage |-> "commit", observed |-> 0, draws |-> 0, oracles |-> <<>>, queue |-> <<>>, finalized |-> <<>>,
   gamma |-> <<>>, batch_coeff |-> 0, store |-> <<>>, challenges |-> <<>>, point |-> <<>>,
   witness |-> <<>>, claim |-> 0, unprocessed |-> <<>>, curr_round |-> 0, next_commit_round |-> 0,
   rounds |-> <<>>]
ProverNext ==
  \/ send_oracle \/ prove_oracle_relation \/ finalize_oracle \/ finish_empty
  \/ MaskStep \/ SumcheckRound \/ CombineStep \/ FoldRound \/ LastFold \/ finish_proof
=============================================================================
