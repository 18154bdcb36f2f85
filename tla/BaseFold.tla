------------------------------ MODULE BaseFold ------------------------------
(* The verifier's channel, reading the tape that the prover's has written,   *)
(* and what the two amount to.  The verifier starts when the tape is whole.  *)
EXTENDS BaseFoldProver

VARIABLE verifier
vars == <<setup, cheat, tape, indices, prover, verifier>>

Reading(stage) == prover.stage = "done" /\ verifier.stage = stage
Next_(n)       == ReadAt(tape, verifier.pos, n)
(* Each step reads its messages; it goes on if they are there and if what is *)
(* asserted of them holds.                                                   *)
Proceed(ok, next) ==
  /\ verifier' = IF ok THEN next ELSE [verifier EXCEPT !.stage = "rejected"]
  /\ UNCHANGED <<setup, cheat, tape, indices, prover>>
IsNext(n, kind) == Reads(tape, verifier.pos, n, kind)
Took(v, n)      == [v EXCEPT !.pos = @ + n, !.observed = @ + n]

recv_merkle_commitment(v, depth, log_leaf_size) ==
  [root |-> tape[v.pos].of, depth |-> depth, log_leaf_size |-> log_leaf_size]

recv_oracle ==
  LET i     == Len(verifier.oracles) + 1
      depth == oracle_log_dim(Params, i) + Rate
  IN  /\ Reading("commit") /\ i \in Oracles
      /\ Proceed(IsNext(1, "digest") /\ Batch(i) + depth - Rate = committed_len(Specs[i]),
                 [Took(verifier, 1) EXCEPT
                    !.oracles = Append(@, recv_merkle_commitment(verifier, depth, Batch(i))),
                    !.queue = Append(@, <<>>)])

(* The claim is the one the statement makes, whether or not it is true.      *)
verify_oracle_relation ==
  /\ Reading("commit")
  /\ \E i \in DOMAIN verifier.queue :
       LET j     == Len(verifier.queue[i]) + 1
           claim == TrueClaim(i, j) ++ (IF cheat = Cheat("claim", <<i, j>>) THEN 1 ELSE 0)
       IN  /\ j <= Relations[i]
           /\ Proceed(TRUE, [verifier EXCEPT !.queue[i] = Append(@, claim)])

Received == /\ Reading("commit") /\ Len(verifier.oracles) = Len(Specs)
            /\ \A i \in Oracles : Len(verifier.queue[i]) = Relations[i]
verify_nothing == /\ Received /\ \A i \in Oracles : Relations[i] = 0
                  /\ Proceed(TRUE, [verifier EXCEPT !.stage = "accepted"])

(* The batched claims, masked, and batched again into the sum of a sumcheck. *)
ReadMasks ==
  LET lambda  == Sampled(verifier, 0, 0)
      sigmas  == Next_(n_zk)
      gamma   == IF n_zk > 0 THEN <<Sampled(verifier, 1, n_zk)>> ELSE <<>>
      coeff   == Sampled(verifier, 1 + Len(gamma), n_zk)
      Sum(i)  == Blind(i, evaluate_univariate(verifier.queue[i], lambda),
                       IF Specs[i].is_zk THEN sigmas[ZkUpTo(i) - 1] ELSE 0, gamma)
  IN  /\ Received /\ \A i \in Oracles : Relations[i] > 0
      /\ Proceed(IsNext(n_zk, "scalar"),
                 [Took(verifier, n_zk) EXCEPT
                    !.stage = "sumcheck", !.queue = <<>>, !.lambda = lambda, !.gamma = gamma,
                    !.batch_coeff = coeff, !.draws = @ + 2 + Len(gamma),
                    !.sum = evaluate_univariate([i \in Oracles |-> Sum(i)], coeff)])

VerifySumcheckRound ==
  LET c == Next_(2)
      r == Sampled(verifier, 0, 2)
  IN  /\ Reading("sumcheck") /\ Len(verifier.challenges) < max_n
      /\ Proceed(IsNext(2, "scalar"),
                 [Took(verifier, 2) EXCEPT
                    !.draws = @ + 1, !.challenges = Append(@, r),
                    !.sum = evaluate_univariate(<<c[0], c[1], verifier.sum ++ c[0] ++ (c[0] ++ c[1])>>, r)])

(* The evaluations the sumcheck ends with, against the vectors, evaluated;   *)
(* then their combination.                                                   *)
ReadEvaluations ==
  LET n      == Len(Specs)
      point  == Reversed(verifier.challenges)
      alphas == [i \in Oracles |-> Next_(n)[i - 1]]
      Vector(i) == evaluate_univariate(
                     [j \in 1..Relations[i] |-> evaluate(Transparent(i, j), SubSeq(point, 1, Vars(i)))],
                     verifier.lambda)
      expected  == evaluate_univariate(
                     [i \in Oracles |-> alphas[i] ** Vector(i)
                                          ** eq_ind_zero(SubSeq(point, Vars(i) + 1, max_n))],
                     verifier.batch_coeff)
      outer     == [k \in 1..Params.log_n_oracles |-> Sampled(verifier, k - 1, n)]
  IN  /\ Reading("sumcheck") /\ Len(verifier.challenges) = max_n
      /\ Proceed(IsNext(n, "scalar") /\ verifier.sum = expected,
                 [Took(verifier, n) EXCEPT
                    !.stage = "batch", !.point = point, !.challenges = <<>>, !.unprocessed = verifier.gamma \o outer,
                    !.draws = @ + Len(outer), !.sum = combined_claim(point, outer, alphas)])

-----------------------------------------------------------------------------
(* The rounds in which a commitment is due: the folds, then the last word.   *)
commit_schedule ==
  [k \in 1..n_oracles(Params) |->
     [round         |-> batch_rounds(Params) + AritiesUpTo(k - 1),
      log_leaf_size |-> IF k <= Len(Arities) THEN Arities[k] ELSE Params.log_terminal_dim,
      depth         |-> IF k <= Len(Arities) THEN index_bits(Params) - AritiesUpTo(k) ELSE Rate]]
Due(v) == /\ Len(v.rounds) < n_oracles(Params)
          /\ commit_schedule[Len(v.rounds) + 1].round = v.curr_round
process_round(v) ==
  IF ~Due(v) THEN [v EXCEPT !.curr_round = @ + 1]
  ELSE LET s == commit_schedule[Len(v.rounds) + 1]
       IN  [Took(v, 1) EXCEPT
              !.rounds = Append(@, recv_merkle_commitment(v, s.depth, s.log_leaf_size)),
              !.curr_round = @ + 1]
ReadsRound(v) == Due(v) => Reads(tape, v.pos, 1, "digest")

(* The challenges already known take their rounds first. *)
KnownRound ==
  /\ Reading("batch") /\ verifier.unprocessed # <<>>
  /\ Proceed(ReadsRound(verifier),
             [process_round(verifier) EXCEPT !.challenges = Append(@, Head(verifier.unprocessed)),
                                             !.unprocessed = Tail(@)])

Standard == Len(verifier.challenges) - Len(verifier.gamma) - Params.log_n_oracles
VerifyFoldRound ==
  LET c1    == Next_(1)[0]
      read  == Took(verifier, 1)
      done  == process_round(read)
      alpha == verifier.point[max_n - Standard]
      r     == Sampled(done, 0, 0)
  IN  /\ Reading("batch") /\ verifier.unprocessed = <<>> /\ Standard < max_n
      /\ Proceed(IsNext(1, "scalar") /\ ReadsRound(read),
                 [done EXCEPT !.draws = @ + 1, !.challenges = Append(@, r),
                              !.sum = evaluate_univariate(<<verifier.sum ++ alpha ** c1, c1>>, r)])

(* The queries are sampled when every round is in: the challenger gives the  *)
(* verifier the prover's answer if they asked alike.                         *)
SampleQueries ==
  /\ Reading("batch") /\ verifier.unprocessed = <<>> /\ Standard = max_n
  /\ \E done \in {process_round(verifier)} :
     \E asked \in IF done.draws = prover.draws /\ done.observed = prover.observed THEN {indices}
                  ELSE sample_bits :
       Proceed(ReadsRound(verifier) /\ Len(done.rounds) = n_oracles(Params),
               [done EXCEPT !.stage = "open", !.indices = asked, !.claims = [q \in DOMAIN asked |-> 0]])

(* The first word, out of the oracles it combines.                           *)
open_queries ==
  LET i       == verifier.opened + 1
      opening == recv_openings(tape, verifier.pos, verifier.oracles[i], Shifted(verifier.indices, Lift(i)))
  IN  /\ Reading("open") /\ i \in Oracles
      /\ \E o \in {opening} :
           Proceed(o.ok, [verifier EXCEPT
                            !.opened = i, !.pos = o.pos,
                            !.claims = [q \in DOMAIN @ |-> @[q] ++
                               evaluate_inplace(o.values[q], Window(i, verifier.challenges))
                                 ** eq_ind(i - 1, Outer(verifier.challenges))]])

FoldChallenges(challenges, k) ==
  SubSeq(challenges, batch_rounds(Params) + AritiesUpTo(k - 1) + 1, batch_rounds(Params) + AritiesUpTo(k))
select(values, index) == values[index % Cardinality(DOMAIN values)]

(* A later word: the opened coset holds the claim, and is folded.            *)
reduce_queries ==
  LET k     == verifier.opened - Len(Specs) + 1
      asked == Shifted(verifier.indices, AritiesUpTo(k - 1))
      coset == Shifted(verifier.indices, AritiesUpTo(k))
      c     == verifier.rounds[k]
  IN  /\ Reading("open") /\ k \in 1..Len(Arities)
      /\ \E o \in {recv_openings(tape, verifier.pos, c, coset)} :
           Proceed(o.ok /\ \A q \in DOMAIN asked : select(o.values[q], asked[q]) = verifier.claims[q],
                   [verifier EXCEPT
                      !.opened = @ + 1, !.pos = o.pos,
                      !.claims = [q \in DOMAIN @ |->
                                    fold_coset(c.depth + Arities[k], coset[q],
                                               FoldChallenges(verifier.challenges, k), o.values[q])]])

FinalChallenges(challenges) == Suffix(challenges, Params.log_terminal_dim)
TerminalValue(data, k) ==
  fold_coset(Params.log_terminal_dim + Rate, k, FinalChallenges(verifier.challenges),
             Chunk(data, Params.log_terminal_dim, k))
TerminalAgreesButLast(data) == \A k \in 1..2^Rate - 2 : TerminalValue(data, k) = TerminalValue(data, 0)
TerminalAgrees(data) == \A k \in 1..2^Rate - 1 : TerminalValue(data, k) = TerminalValue(data, 0)
verify_terminal_queries ==
  LET asked == Shifted(verifier.indices, AritiesUpTo(Len(Arities)))
      last  == verifier.rounds[n_oracles(Params)]
  IN  /\ Reading("open") /\ verifier.opened = Len(Specs) + Len(Arities)
      /\ \E o \in {recv_committed_vector(tape, verifier.pos, last)} :
           Proceed(/\ o.ok
                   /\ \A q \in DOMAIN asked : select(o.data, asked[q]) = verifier.claims[q]
                   /\ TerminalAgrees(o.data)
                   /\ verifier.sum = TerminalValue(o.data, 0),
                   [verifier EXCEPT !.stage = "accepted", !.pos = o.pos])

VerifierInit ==
  [stage |-> "commit", pos |-> 1, observed |-> 0, draws |-> 0, oracles |-> <<>>, queue |-> <<>>,
   lambda |-> 0, gamma |-> <<>>, batch_coeff |-> 0, sum |-> 0, challenges |-> <<>>, point |-> <<>>,
   unprocessed |-> <<>>, curr_round |-> 0, rounds |-> <<>>, indices |-> <<>>, opened |-> 0,
   claims |-> <<>>]
VerifierNext ==
  \/ recv_oracle \/ verify_oracle_relation \/ verify_nothing \/ ReadMasks \/ VerifySumcheckRound
  \/ ReadEvaluations \/ KnownRound \/ VerifyFoldRound \/ SampleQueries
  \/ open_queries \/ reduce_queries \/ verify_terminal_queries

-----------------------------------------------------------------------------
Shape(family) ==
  LET best == optimal_for_batch(family.specs, family.rate, family.queries)
      p    == best.params
  IN  IF family.optimal THEN best
      ELSE [best EXCEPT !.params = new_batch(p.log_dim, p.log_inv_rate, p.input_oracles,
                                             family.fold_arities, p.n_test_queries)]

Init == /\ setup \in {[family |-> f, seed |-> s, params |-> Shape(f).params,
                       estimate |-> Shape(f).estimate] : f \in Families, s \in Seeds}
        /\ cheat = Cheat("none", 0)
        /\ tape = <<>> /\ indices = <<>>
        /\ prover = ProverInit /\ verifier = VerifierInit
Next == (ProverNext /\ UNCHANGED verifier) \/ VerifierNext
Spec == Init /\ [][Next]_vars

-----------------------------------------------------------------------------
(* The prover's half of an MLE-check round divides by one less a coordinate  *)
(* of the point, which is a challenge: none may be one.                      *)
Divides == \A k \in DOMAIN verifier.point : verifier.point[k] # 1
Judged  == verifier.stage \in {"accepted", "rejected"}

(* A proof by the code is accepted, and read to its end: for oracles masked  *)
(* or not, lifted or not, and folded in any arities, prover and verifier     *)
(* draw alike, agree when a commitment is due, and open the same cosets.     *)
HonestOpens ==
  /\ prover.stage # "panicked"
  /\ Judged /\ cheat.kind = "none" /\ Divides =>
       verifier.stage = "accepted" /\ verifier.pos = Len(tape) + 1

(* What the queries see of the words that are committed, told from the words *)
(* in full: each fold of a word, at the place asked, is the next word; the   *)
(* fold of the last is one value everywhere, the claim's.                    *)
Words     == [k \in DOMAIN prover.rounds |-> prover.rounds[k].word]
FoldOf(k) ==
  IF k = 1 THEN fold_batch([i \in Oracles |-> prover.oracles[i].word], verifier.challenges)
  ELSE IF k <= Len(Words) THEN fold_codeword(Words[k - 1], FoldChallenges(verifier.challenges, k - 1))
  ELSE fold_codeword(Words[k - 1], FinalChallenges(verifier.challenges))
SeenSound ==
  /\ \A k \in DOMAIN Words, q \in DOMAIN indices :
       LET at == indices[q] \div 2^AritiesUpTo(k - 1) IN FoldOf(k)[at] = Words[k][at]
  /\ \A at \in 0..2^Rate - 1 : FoldOf(Len(Words) + 1)[at] = prover.witness[0]

(* What a false claim is multiplied by on its way to the end of the sumcheck.*)
ClaimWeight(i, j) ==
  Power(verifier.batch_coeff, i - 1) ** Power(verifier.lambda, j - 1)
    ** (IF Specs[i].is_zk THEN 1 ++ verifier.gamma[1] ELSE 1)

(* What is not so is accepted only where chance lets it: a word that differs *)
(* from the one folded, exactly when no query and no fold of the last word   *)
(* sees the difference; a false claim, exactly when a challenge it is        *)
(* multiplied by is zero; advice that differs from what was committed never. *)
CaughtWhereQueried ==
  Judged /\ Divides =>
    /\ cheat.kind = "word"   => (verifier.stage = "accepted" <=> SeenSound)
    /\ cheat.kind = "claim"  => (verifier.stage = "accepted" <=> ClaimWeight(cheat.at[1], cheat.at[2]) = 0)
    /\ cheat.kind = "advice" => verifier.stage = "rejected"

Bytes(unit) == IF unit.kind = "scalar" THEN ValueBytes ELSE DigestBytes
Commitments(params) == (Len(params.input_oracles) + n_oracles(params)) * DigestBytes
Opened == \A i \in Oracles : Relations[i] > 0

(* Every way to fold a dimension down.                                       *)
Foldings(dim) == {a \in UNION {[1..n -> 1..dim] : n \in 0..dim} : Total(a) <= dim}
Choices == UNION {{new_batch(d, Rate, [i \in Oracles |-> CodewordSpecOf(Specs[i], d)], a,
                             Params.n_test_queries) : a \in Foldings(d)} :
                    d \in min_reduced_log_dim(Specs)..max_reduced_log_dim(Specs)}

(* The tape is as long as the parameters say it will be, so its prover need  *)
(* not run to tell; and the estimate the shape was chosen by is that length, *)
(* less the commitments, and the least that any choice would give.           *)
SizeAsEstimated ==
  /\ prover.stage = "done" /\ verifier.pos = 1 /\ Opened =>
       Total([k \in DOMAIN tape |-> Bytes(tape[k])])
         = proof_size(Params) + ValueBytes * (n_zk + 3 * max_n + Len(Specs))
  /\ tape = <<>> /\ setup.family.optimal =>
       /\ setup.estimate = proof_size(Params) - Commitments(Params)
       /\ \A params \in Choices : setup.estimate <= proof_size(params) - Commitments(params)
=============================================================================
