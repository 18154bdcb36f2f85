----------------------------- MODULE OracleMerge -----------------------------
(* The channels that commit a whole round of oracles as one, on both sides   *)
(* of a protocol, and the schedule a dry run predicts for them.              *)
(*                                                                           *)
(* The protocol is a script of operations.  The setup channel                *)
(* (iop/src/channel/oracle_setup.rs) runs it first and records a schedule;   *)
(* the prover's decorator then runs it over an inner channel configured with *)
(* that schedule, and last the verifier's over what is left of the proof.    *)
(* The inner channels are logs of what they are asked.                       *)
EXTENDS RoundLayout, FiniteSets

CONSTANTS Lens,        \* log lengths an oracle may have
          MaxOracles,  \* bounds of a script: its oracles,
          MaxOps       \* and its operations

ASSUME MergeAssumption == Lens \subseteq Nat /\ {LogWidth, MaxOracles, MaxOps} \subseteq Nat

VARIABLES stage,     \* who runs the script
          zk,        \* the setup channel's protocol-level flag
          script,    \* the protocol's operations
          schedule,  \* OracleSchedule: specs and the end of each closed round
          pos,       \* operations of the script that were run
          prover,    \* MergeProverChannel and its inner channel's log
          handed,    \* the oracles finalized
          tape,      \* the commitments that reach the verifier
          verifier   \* MergeVerifierChannel, its inner channel's log, its verdict

vars == <<stage, zk, script, schedule, pos, prover, handed, tape, verifier>>

Oracle(n, wd) == [op |-> "oracle", len |-> n, wd |-> wd]
Sample        == [op |-> "sample"]
Open(k)       == [op |-> "open", oracle |-> k]

(* Where a log or a script has an operation, and how often up to a position. *)
On(log, op)      == {i \in DOMAIN log : log[i].op = op}
Upto(places, i)  == Cardinality(places \cap 1..i)
Nth(places, n)   == CHOOSE i \in places : Upto(places, i) = n
Times(log, op)   == Upto(On(log, op), Len(log))

n_oracles == Times(script, "oracle")

Unmapped == [group |-> 0]
------------------------------------------------------------------------------
(* The dry run *)
Lengths(specs) == [k \in DOMAIN specs |-> specs[k].log_msg_len]

(* Mutant: a round without an oracle is closed like any other. *)
EndEmptyRound(s) == [s EXCEPT !.ends = Append(@, Len(s.specs))]

end_round(s) ==
  LET open_start == IF s.ends = <<>> THEN 0 ELSE Last(s.ends)
  IN  IF Len(s.specs) > open_start THEN [s EXCEPT !.ends = Append(@, Len(s.specs))] ELSE s

rounds(s) == [r \in DOMAIN s.ends |->
  SubSeq(s.specs, (IF r = 1 THEN 0 ELSE s.ends[r - 1]) + 1, s.ends[r])]

merged_specs(s) == [r \in DOMAIN s.ends |->
  [log_msg_len |-> merged_log_msg_len(Lengths(rounds(s)[r])),
   is_zk |-> \E k \in DOMAIN rounds(s)[r] : rounds(s)[r][k].is_zk]]

Init == /\ stage = "setup" /\ zk \in BOOLEAN
        /\ script = <<>> /\ pos = 0 /\ tape = 0 /\ handed = {}
        /\ schedule = [specs |-> <<>>, ends |-> <<>>]
        /\ prover = [pending |-> <<>>, records |-> <<>>, groups |-> <<>>, log |-> <<>>]
        /\ verifier = [records |-> <<>>, flushed |-> 0, log |-> <<>>, verdict |-> "none"]

Declare(op) ==
  /\ stage = "setup" /\ Len(script) < MaxOps
  /\ script' = Append(script, op)
  /\ UNCHANGED <<stage, zk, pos, prover, handed, tape, verifier>>

(* Every oracle is received before any is opened, by the channels' contract. *)
SetupRecvOracle(n, wd) ==
  /\ n_oracles < MaxOracles /\ On(script, "open") = {}
  /\ Declare(Oracle(n, wd))
  /\ schedule' = [schedule EXCEPT !.specs = Append(@, [log_msg_len |-> n, is_zk |-> zk /\ wd])]

SetupSample == Declare(Sample) /\ schedule' = end_round(schedule)

SetupVerifyRelation(k) == Declare(Open(k)) /\ schedule' = end_round(schedule)

IntoOracleSchedule ==
  /\ stage = "setup" /\ n_oracles > 0
  /\ stage' = "prove" /\ schedule' = end_round(schedule)
  /\ UNCHANGED <<zk, script, pos, prover, handed, tape, verifier>>
------------------------------------------------------------------------------
(* The prover *)
FlushProver(p) ==
  LET first == Len(p.records) - Len(p.pending)
      len == [k \in DOMAIN p.pending |-> p.pending[k].len]
      of == [k \in DOMAIN p.pending |-> p.pending[k].id]
      combined == Combined(len, of)
      N == merged_log_msg_len(len)
      g == Len(p.groups) + 1
      mapping(i) == [group |-> g, block_index |-> BlockIndices(len)[i - first],
                     combined_log_len |-> N]
  IN  IF p.pending = <<>> THEN p
      ELSE [pending |-> <<>>,
            records |-> [i \in DOMAIN p.records |->
              IF i > first THEN [p.records[i] EXCEPT !.mapping = mapping(i)] ELSE p.records[i]],
            groups |-> Append(p.groups, [buffer |-> <<combined>>, n_members |-> Len(p.pending),
                                         n_finalized |-> 0]),
            log |-> Append(p.log, [op |-> "commit", len |-> N])]

Logged(p, e) == [p EXCEPT !.log = Append(@, e)]

Proving(op) == /\ stage = "prove" /\ pos < Len(script) /\ script[pos + 1].op = op
               /\ pos' = pos + 1
               /\ UNCHANGED <<stage, zk, script, schedule, tape, verifier>>

SendOracle ==
  /\ Proving("oracle")
  /\ LET n == script[pos + 1].len
         k == Len(prover.records) + 1
     IN  prover' = [prover EXCEPT !.pending = Append(@, [id |-> k, len |-> n]),
                                  !.records = Append(@, [len |-> n, mapping |-> Unmapped])]
  /\ UNCHANGED handed

(* Mutant: the challenge is drawn before the round is committed. *)
ProverSampleFirst ==
  /\ Proving("sample")
  /\ prover' = FlushProver(Logged(prover, Sample))
  /\ UNCHANGED handed

ProverSample ==
  /\ Proving("sample")
  /\ prover' = Logged(FlushProver(prover), Sample)
  /\ UNCHANGED handed

ProveRelation ==
  /\ Proving("open")
  /\ LET k == script[pos + 1].oracle
         p == FlushProver(prover)
         m == p.records[k].mapping
         padded == PlaceBlock(Zeros(m.combined_log_len), k, p.records[k].len, m.block_index)
     IN  prover' = Logged(p, [op |-> "open", group |-> m.group, weights |-> padded])
  /\ UNCHANGED handed

(* Mutant: the first oracle of a round handed back releases its buffer. *)
FinalizeOracleEarly(k) ==
  /\ stage = "prove" /\ k \notin handed
  /\ \A i \in pos + 1..Len(script) : script[i].op # "oracle" /\ script[i] # Open(k)
  /\ LET p == FlushProver(prover)
         g == p.records[k].mapping.group
         counted == [p EXCEPT !.groups[g].n_finalized = @ + 1]
     IN  prover' = IF counted.groups[g].n_finalized = 1
                   THEN Logged([counted EXCEPT !.groups[g].buffer = <<>>],
                               [op |-> "finalize", group |-> g,
                                buffer |-> Last(counted.groups[g].buffer)])
                   ELSE counted
  /\ handed' = handed \cup {k}
  /\ UNCHANGED <<stage, zk, script, schedule, pos, tape, verifier>>

(* Each oracle is handed back once, after its last relation; the last of a   *)
(* round releases the round's buffer to the inner channel.  The buffer is an *)
(* Option: a sequence of one, or of none once it is taken.                   *)
FinalizeOracle(k) ==
  /\ stage = "prove" /\ k \notin handed
  /\ \A i \in pos + 1..Len(script) : script[i].op # "oracle" /\ script[i] # Open(k)
  /\ LET p == FlushProver(prover)
         g == p.records[k].mapping.group
         counted == [p EXCEPT !.groups[g].n_finalized = @ + 1]
         group == counted.groups[g]
     IN  prover' = IF group.n_finalized = group.n_members
                   THEN Logged([counted EXCEPT !.groups[g].buffer = <<>>],
                               [op |-> "finalize", group |-> g,
                                buffer |-> Last(group.buffer)])
                   ELSE counted
  /\ handed' = handed \cup {k}
  /\ UNCHANGED <<stage, zk, script, schedule, pos, tape, verifier>>

(* The prover's channel is taken back, and of the proof a prefix with some   *)
(* of its commitments reaches the verifier.                                  *)
ProverIntoInner ==
  /\ stage = "prove" /\ pos = Len(script) /\ handed = 1..n_oracles
  /\ prover' = FlushProver(prover)
  /\ tape' \in 0..Times(prover'.log, "commit")
  /\ stage' = "verify" /\ pos' = 0
  /\ UNCHANGED <<zk, script, schedule, handed, verifier>>
------------------------------------------------------------------------------
(* The verifier.  The inner recv_oracle reads one commitment and fails for   *)
(* good when the proof has no more.                                          *)
InnerHasCommitment(v) == Times(v.log, "commit") < tape

Unflushed(v) == v.flushed < Len(v.records)
FlushFails(v) == Unflushed(v) /\ ~InnerHasCommitment(v)

(* Mutant: a round stays open once it is committed. *)
FlushVerifierAgain(v) ==
  IF ~Unflushed(v) \/ FlushFails(v) THEN v
  ELSE LET len == [k \in 1..Len(v.records) - v.flushed |-> v.records[k + v.flushed].len]
           mapping(i) == [group |-> Times(v.log, "commit") + 1,
                          block_index |-> BlockIndices(len)[i - v.flushed],
                          combined_log_len |-> merged_log_msg_len(len)]
       IN  [v EXCEPT !.records = [i \in DOMAIN @ |->
                        IF i > v.flushed THEN [@[i] EXCEPT !.mapping = mapping(i)] ELSE @[i]],
                     !.log = Append(@, [op |-> "commit", len |-> merged_log_msg_len(len),
                                        wd |-> \E i \in DOMAIN v.records : v.records[i].wd])]

FlushVerifier(v) ==
  LET open == v.flushed + 1..Len(v.records)
      len == [k \in 1..Len(v.records) - v.flushed |-> v.records[k + v.flushed].len]
      N == merged_log_msg_len(len)
      g == Times(v.log, "commit") + 1
      mapping(i) == [group |-> g, block_index |-> BlockIndices(len)[i - v.flushed],
                     combined_log_len |-> N]
  IN  IF ~Unflushed(v) \/ FlushFails(v) THEN v
      ELSE [v EXCEPT !.records = [i \in DOMAIN @ |->
                        IF i \in open THEN [@[i] EXCEPT !.mapping = mapping(i)] ELSE @[i]],
                     !.flushed = Len(v.records),
                     !.log = Append(@, [op |-> "commit", len |-> N,
                                        wd |-> \E i \in open : v.records[i].wd])]

Verifying(op) == /\ stage = "verify" /\ verifier.verdict = "none"
                 /\ pos < Len(script) /\ script[pos + 1].op = op
                 /\ pos' = pos + 1
                 /\ UNCHANGED <<stage, zk, script, schedule, prover, handed, tape>>

Reject == verifier' = [verifier EXCEPT !.verdict = "error"]

RecvOracle ==
  /\ Verifying("oracle")
  /\ verifier' = [verifier EXCEPT !.records =
       Append(@, [len |-> script[pos + 1].len, wd |-> script[pos + 1].wd,
                  mapping |-> Unmapped])]

(* A failed flush has nowhere to go, and the challenge is drawn all the same. *)
VerifierSample ==
  /\ Verifying("sample")
  /\ verifier' = Logged(FlushVerifier(verifier), Sample)

VerifyRelation ==
  /\ Verifying("open")
  /\ LET k == script[pos + 1].oracle
         v == FlushVerifier(verifier)
         m == v.records[k].mapping
     IN  IF FlushFails(verifier) THEN Reject
         ELSE verifier' = Logged(v, [op |-> "open", group |-> m.group,
                weights |-> BlockWeights(k, v.records[k].len, m.block_index,
                                         m.combined_log_len)])

VerifierIntoInner ==
  /\ stage = "verify" /\ verifier.verdict = "none" /\ pos = Len(script)
  /\ IF FlushFails(verifier) THEN Reject
     ELSE verifier' = [FlushVerifier(verifier) EXCEPT !.verdict = "ok"]
  /\ UNCHANGED <<stage, zk, script, schedule, pos, prover, handed, tape>>

Next ==
  \/ \E n \in Lens, wd \in BOOLEAN : SetupRecvOracle(n, wd)
  \/ SetupSample
  \/ \E k \in 1..n_oracles : SetupVerifyRelation(k)
  \/ IntoOracleSchedule
  \/ SendOracle \/ ProverSample \/ ProveRelation
  \/ \E k \in 1..n_oracles : FinalizeOracle(k)
  \/ ProverIntoInner
  \/ RecvOracle \/ VerifierSample \/ VerifyRelation \/ VerifierIntoInner

Spec == Init /\ [][Next]_vars
------------------------------------------------------------------------------
Committed(r) == r.mapping # Unmapped

(* The channels keep to their shapes: as many oracles as were sent, in an    *)
(* order of arrival in which only the last round can be open.                *)
TypeOK ==
  /\ stage \in {"setup", "prove", "verify"} /\ zk \in BOOLEAN
  /\ pos \in 0..Len(script) /\ handed \subseteq 1..n_oracles
  /\ tape \in 0..Len(prover.groups)
  /\ Len(schedule.specs) = n_oracles
  /\ \A r \in DOMAIN schedule.ends : schedule.ends[r] \in 1..n_oracles
  /\ \A i \in DOMAIN prover.records :
       Committed(prover.records[i]) <=> i <= Len(prover.records) - Len(prover.pending)
  /\ \A i \in DOMAIN verifier.records :
       Committed(verifier.records[i]) <=> i <= verifier.flushed
  /\ verifier.verdict \in {"none", "ok", "error"}

(* The dry run predicts what both decorators commit: how many combined       *)
(* oracles, their lengths, and which are masked.  The inner channels assert  *)
(* it (basefold/channel.rs), and the tests of merge.rs sample it.            *)
ScheduleExact ==
  LET specs == merged_specs(schedule)
      commit(log, g) == log[Nth(On(log, "commit"), g)]
  IN  stage # "setup" =>
      /\ Times(prover.log, "commit") <= Len(specs)
      /\ \A g \in 1..Times(prover.log, "commit") :
           commit(prover.log, g).len = specs[g].log_msg_len
      /\ stage = "verify" => Times(prover.log, "commit") = Len(specs)
      /\ Times(verifier.log, "commit") <= Len(specs)
      /\ \A g \in 1..Times(verifier.log, "commit") :
           [log_msg_len |-> commit(verifier.log, g).len,
            is_zk |-> zk /\ commit(verifier.log, g).wd] = specs[g]

(* The challenges a party has drawn when it commits its group g, and those   *)
(* the script has before its k-th oracle.                                    *)
DrawnBefore(log, g) == Upto(On(log, "sample"), Nth(On(log, "commit"), g))
DueBefore(k)        == Upto(On(script, "sample"), Nth(On(script, "oracle"), k))

(* Every challenge is drawn after the commitment of every oracle that came   *)
(* before it and before that of any that came later, on both sides, even     *)
(* though sample cannot report that a flush failed: a verifier that accepts  *)
(* has committed every oracle, each in its own round (merge.rs:266-274).     *)
ChallengesFollowRounds ==
  /\ \A k \in DOMAIN prover.records : Committed(prover.records[k]) =>
       DrawnBefore(prover.log, prover.records[k].mapping.group) = DueBefore(k)
  /\ \A k \in DOMAIN verifier.records : Committed(verifier.records[k]) =>
       DrawnBefore(verifier.log, verifier.records[k].mapping.group) = DueBefore(k)
  /\ verifier.verdict = "ok" =>
       Len(verifier.records) = n_oracles /\ \A k \in 1..n_oracles : Committed(verifier.records[k])

(* The combined oracle of a round holds the scalars of each of its members   *)
(* once, in one run that starts where the member's block index says, and     *)
(* nothing else.                                                             *)
RoundsLaidOut ==
  \A g \in DOMAIN prover.groups : \A held \in DOMAIN prover.groups[g].buffer :
    LET buffer == prover.groups[g].buffer[held]
        members == {k \in DOMAIN prover.records : prover.records[k].mapping.group = g}
        len == [k \in members |-> prover.records[k].len]
        start(k) == prover.records[k].mapping.block_index * pow2[len[k]]
    IN  /\ \A k \in members : \A i \in 0..pow2[len[k]] - 1 :
             start(k) + i \in DOMAIN buffer /\ buffer[start(k) + i] = <<k, i>>
        /\ Cardinality({p \in DOMAIN buffer : buffer[p] # Zero}) = Total(len, members)

(* What an opening pairs with the combined oracle is the transparent         *)
(* polynomial, entry by entry against the scalars of its oracle, and zero    *)
(* against the rest: the claim needs no change.                              *)
ClaimsCarryOver ==
  \A j \in On(prover.log, "open") : \A c \in On(prover.log, "finalize") :
    LET k == script[Nth(On(script, "open"), Upto(On(prover.log, "open"), j))].oracle
        w == prover.log[j].weights
        buffer == prover.log[c].buffer
    IN  prover.log[j].group = prover.log[c].group =>
        /\ {w[p] : p \in DOMAIN w} \ {Zero}
             = {<<k, i>> : i \in 0..pow2[prover.records[k].len] - 1}
        /\ DOMAIN w = DOMAIN buffer
        /\ \A p \in DOMAIN w : w[p] # Zero => w[p] = buffer[p]

(* As long as the proof has its commitments, the two sides ask their inner   *)
(* channels for the same things in the same order, blocks included: the      *)
(* Fiat-Shamir states cannot part.                                           *)
InSync ==
  LET Shared(e) == IF e.op = "commit" THEN [op |-> "commit", len |-> e.len] ELSE e
      asked == DOMAIN prover.log \ On(prover.log, "finalize")
  IN  stage = "verify" /\ tape = Len(prover.groups) =>
      /\ \A i \in DOMAIN verifier.log :
           /\ i <= Cardinality(asked)
           /\ Shared(verifier.log[i]) = prover.log[Nth(asked, i)]
      /\ verifier.verdict # "error"
      /\ verifier.verdict = "ok" => Len(verifier.log) = Cardinality(asked)

(* A round's buffer is passed on once, when the last of its members has been *)
(* handed back and not before (iop-prover merge.rs:431-452).                 *)
ForwardedOnce ==
  \A g \in DOMAIN prover.groups :
    LET members == {k \in DOMAIN prover.records : prover.records[k].mapping.group = g}
        times == Cardinality({i \in On(prover.log, "finalize") : prover.log[i].group = g})
    IN  /\ times = IF members \subseteq handed THEN 1 ELSE 0
        /\ prover.groups[g].buffer = <<>> <=> members \subseteq handed

(* "Panics if the queued oracles do not all share one witness-dependence"    *)
(* (merge.rs:174-176): no committed round mixes them.                        *)
RoundsAreUniform ==
  \A j, k \in DOMAIN verifier.records :
    /\ Committed(verifier.records[j])
    /\ verifier.records[j].mapping.group = verifier.records[k].mapping.group
    => verifier.records[j].wd = verifier.records[k].wd
=============================================================================
