----------------------------- MODULE Transcript -----------------------------
(* The prover's and the verifier's transcript of crates/transcript: the      *)
(* prover runs a protocol and records it on a tape, the verifier replays it  *)
(* from the tape, and each derives challenges from a challenger of its own.  *)
(*                                                                           *)
(* The protocol is a caller's choice, so the prover takes any operation at   *)
(* any time and "script" remembers them; the verifier of the same protocol   *)
(* takes the same operations in the same order, but reads a run of bytes in  *)
(* pieces of its own, may be given another tape and another statement, may   *)
(* ask for another difficulty, and may stop too early.                       *)
EXTENDS HasherChallenger, FiniteSets

CONSTANTS Values,       \* the byte values written
          Difficulties, \* the values of "bits" of a proof of work
          MaxNonce,     \* bound: nonces a prover tries
          MaxWrite,     \* bound: bytes of one write or read
          MaxEvents,    \* bound: length of the protocol
          ZeroBits(_)   \* low zero bits of the bytes drawn

ASSUME BoundsAssumption ==
  /\ MaxNonce \in Nat /\ MaxWrite \in Nat \ {0} /\ MaxEvents \in Nat
  /\ Difficulties \subseteq Nat

VARIABLES pch,      \* the prover's challenger
          tape,     \* the prover's tape
          script,   \* the events of the protocol, as the prover saw them
          vch,      \* the verifier's challenger
          handed,   \* the tape the verifier was given
          vtape,    \* what the verifier has not read of its tape
          vseen,    \* the events of the protocol, as the verifier saw them
          status    \* "proving", then "verifying", then how verifying ended

prover   == <<pch, tape, script>>
verifier == <<vch, vtape, vseen>>
vars     == <<prover, verifier, handed, status>>

(* An event: one byte written, read or observed, one byte of challenge, one  *)
(* proof of work, or one call of observe().                                  *)
None == [none |-> TRUE]
Event(op, val)     == [op |-> op, val |-> val, bits |-> 0, ok |-> TRUE, out |-> None]
Run(op, bs)        == [i \in 1..Len(bs) |-> Event(op, bs[i])]
Drawn(out)         == [Event("sample", 0) EXCEPT !.out = out]
Ground(nonce, bits, out) ==
  [op |-> "grind", val |-> nonce, bits |-> bits, ok |-> ZeroBits(out) >= bits, out |-> out]

Words(bs) == [i \in 1..Len(bs) |-> Byte(bs[i])]
Slices    == UNION {[1..n -> Values] : n \in 1..MaxWrite}
Absorbed(c, bs) == PutSlice(Observer(c), Words(bs))

(* Trying a nonce: what observing it and drawing the next bits comes to. *)
Trial(c, nonce) == Draw(Sampler(Absorbed(c, <<nonce>>)))

Init == /\ pch = Default /\ tape = <<>> /\ script = <<>>
        /\ vch = Default /\ handed = <<>> /\ vtape = <<>> /\ vseen = <<>>
        /\ status = "proving"
------------------------------------------------------------------------------
(* The prover. *)
Proving(n) == status = "proving" /\ Len(script) + n <= MaxEvents
              /\ UNCHANGED <<verifier, handed, status>>

(* message().write: observed, and put on the tape. *)
ProverMessage(bs) ==
  /\ Proving(Len(bs))
  /\ pch' = Absorbed(pch, bs)
  /\ tape' = tape \o bs
  /\ script' = script \o Run("message", bs)

(* decommitment().write: only put on the tape. *)
ProverDecommitment(bs) ==
  /\ Proving(Len(bs))
  /\ tape' = tape \o bs
  /\ script' = script \o Run("decommitment", bs)
  /\ UNCHANGED pch

(* observe(): the call alone turns the challenger to observing. *)
ProverOpen ==
  /\ Proving(1)
  /\ pch' = Observer(pch)
  /\ script' = Append(script, Event("open", 0))
  /\ UNCHANGED tape

(* observe().write: only observed. *)
ProverObserve(bs) ==
  /\ Proving(Len(bs))
  /\ pch' = Absorbed(pch, bs)
  /\ script' = script \o Run("observe", bs)
  /\ UNCHANGED tape

(* sample, one byte of it. *)
ProverSample ==
  LET d == Draw(Sampler(pch)) IN
  /\ Proving(1)
  /\ pch' = d.c
  /\ script' = Append(script, Drawn(d.out))
  /\ UNCHANGED tape

(* grind: nonces are tried in order, each on a clone of the challenger; the  *)
(* first that lands goes out as a message and the bits are then sampled.     *)
ProverGrind(bits) ==
  LET lands(n) == ZeroBits(Trial(pch, n).out) >= bits IN
  /\ Proving(1)
  /\ \E nonce \in 0..MaxNonce :
       /\ lands(nonce)
       /\ \A n \in 0..nonce - 1 : ~lands(n)
       /\ LET d == Trial(pch, nonce)
          IN  /\ pch' = d.c
              /\ script' = Append(script, Ground(nonce, bits, d.out))
       /\ tape' = Append(tape, nonce)

(* The tapes a verifier may be handed: the prover's, one with an entry       *)
(* changed, one cut short, one with something after the end.                 *)
Tapes == {tape} \cup {[tape EXCEPT ![i] = b] : i \in DOMAIN tape, b \in Values}
         \cup {SubSeq(tape, 1, n) : n \in 0..Len(tape)}
         \cup {Append(tape, b) : b \in Values}

(* finalize of the prover, VerifierTranscript::new over a fresh challenger. *)
IntoVerifier ==
  /\ status = "proving"
  /\ status' = "verifying"
  /\ handed' \in Tapes
  /\ vtape' = handed'
  /\ UNCHANGED <<prover, vch, vseen>>
------------------------------------------------------------------------------
(* The verifier.  Due(op, n): the protocol's next n events are all of op. *)
Due(op, n) == /\ status = "verifying"
              /\ Len(vseen) + n <= Len(script)
              /\ \A i \in 1..n : script[Len(vseen) + i].op = op
              /\ UNCHANGED <<prover, handed>>

Ahead(n) == SubSeq(vtape, 1, n)
Rest(n)  == SubSeq(vtape, n + 1, Len(vtape))

(* Mutant: reading the last bytes of the tape is an error too. *)
NotEnoughBytesAtTheEnd(op, n) ==
  /\ Due(op, n)
  /\ Len(vtape) <= n
  /\ status' = "NotEnoughBytes"
  /\ UNCHANGED verifier

(* A read past the end of the tape is an error, and takes nothing. *)
NotEnoughBytes(op, n) ==
  /\ Due(op, n)
  /\ Len(vtape) < n
  /\ status' = "NotEnoughBytes"
  /\ UNCHANGED verifier

VerifierMessage(n) ==
  /\ Due("message", n)
  /\ n <= Len(vtape)
  /\ vch' = Absorbed(vch, Ahead(n))
  /\ vtape' = Rest(n)
  /\ vseen' = vseen \o Run("message", Ahead(n))
  /\ UNCHANGED status

(* Mutant: decommitments are observed. *)
VerifierDecommitmentObserved(n) ==
  /\ Due("decommitment", n)
  /\ n <= Len(vtape)
  /\ vch' = Absorbed(vch, Ahead(n))
  /\ vtape' = Rest(n)
  /\ vseen' = vseen \o Run("decommitment", Ahead(n))
  /\ UNCHANGED status

VerifierDecommitment(n) ==
  /\ Due("decommitment", n)
  /\ n <= Len(vtape)
  /\ vtape' = Rest(n)
  /\ vseen' = vseen \o Run("decommitment", Ahead(n))
  /\ UNCHANGED <<vch, status>>

VerifierOpen ==
  /\ Due("open", 1)
  /\ vch' = Observer(vch)
  /\ vseen' = Append(vseen, Event("open", 0))
  /\ UNCHANGED <<vtape, status>>

VerifierObserve(bs) ==
  /\ Due("observe", Len(bs))
  /\ vch' = Absorbed(vch, bs)
  /\ vseen' = vseen \o Run("observe", bs)
  /\ UNCHANGED <<vtape, status>>

VerifierSample ==
  LET d == Draw(Sampler(vch)) IN
  /\ Due("sample", 1)
  /\ vch' = d.c
  /\ vseen' = Append(vseen, Drawn(d.out))
  /\ UNCHANGED <<vtape, status>>

(* Mutant: the bits are sampled before the nonce is read. *)
VerifyGrindBeforeNonce(bits) ==
  /\ Due("grind", 1)
  /\ vtape # <<>>
  /\ LET d == Draw(Sampler(vch))
     IN  /\ vch' = Absorbed(d.c, <<vtape[1]>>)
         /\ vseen' = Append(vseen, Ground(vtape[1], bits, d.out))
  /\ vtape' = Rest(1)
  /\ UNCHANGED status

(* verify_grind: the nonce is read as a message and the bits are sampled     *)
(* before they are judged, so InsufficientWork (ok = FALSE) comes too late   *)
(* to change what the challenger has consumed, and the caller may go on.     *)
VerifyGrind(bits) ==
  /\ Due("grind", 1)
  /\ vtape # <<>>
  /\ LET d == Trial(vch, vtape[1])
     IN  /\ vch' = d.c
         /\ vseen' = Append(vseen, Ground(vtape[1], bits, d.out))
  /\ vtape' = Rest(1)
  /\ UNCHANGED status

(* finalize, which a verifier that neglects part of the protocol calls early. *)
Finalize ==
  /\ status = "verifying"
  /\ status' = IF vtape = <<>> THEN "Ok" ELSE "TranscriptNotEmpty"
  /\ UNCHANGED <<prover, verifier, handed>>

Next ==
  \/ \E bs \in Slices : \/ ProverMessage(bs)
                        \/ ProverDecommitment(bs)
                        \/ ProverObserve(bs)
                        \/ VerifierObserve(bs)
  \/ ProverOpen \/ ProverSample \/ IntoVerifier
  \/ \E bits \in Difficulties : ProverGrind(bits) \/ VerifyGrind(bits)
  \/ \E n \in 1..MaxWrite : \/ VerifierMessage(n)
                            \/ VerifierDecommitment(n)
                            \/ \E op \in {"message", "decommitment", "grind"} :
                                 NotEnoughBytes(op, n)
  \/ VerifierOpen \/ VerifierSample \/ Finalize

Spec == Init /\ [][Next]_vars
------------------------------------------------------------------------------
OnTape(e) == e.op \in {"message", "decommitment", "grind"}
Bound(e)  == e.op # "decommitment"

(* What was observed among the first n events, and where. *)
Heard(events, n) ==
  [i \in {j \in 1..n : Bound(events[j])} |-> <<events[i].op, events[i].val>>]

Ops     == {"message", "decommitment", "open", "observe", "sample", "grind"}
Entries == Values \cup 0..MaxNonce

TypeOK ==
  /\ status \in {"proving", "verifying", "Ok", "TranscriptNotEmpty", "NotEnoughBytes"}
  /\ ChallengerOK(pch) /\ ChallengerOK(vch)
  /\ {tape, handed, vtape} \subseteq Seq(Entries)
  /\ IsSequence(script) /\ IsSequence(vseen)
  /\ \A i \in 1..Len(script) : script[i].op \in Ops
  /\ Len(script) <= MaxEvents /\ Len(vseen) <= Len(script)
  /\ \A i \in 1..Len(vseen) : vseen[i].op = script[i].op

(* A challenge is the prover's exactly when everything observed before it    *)
(* was: messages, statement and nonces bind, decommitments do not, and how   *)
(* either side cuts its reads and writes, the nonces that failed and the     *)
(* proofs of work found short leave no trace (transcript.rs:76-142, 158-171, *)
(* 300-388; buffer.rs:24-55).                                                *)
ChallengesBind ==
  \A n \in 1..Len(vseen) :
    script[n].op \in {"sample", "grind"} =>
      (vseen[n].out = script[n].out <=> Heard(vseen, n) = Heard(script, n))

(* The work a prover did is enough for a verifier who asks for no more and   *)
(* has observed the same transcript (transcript.rs:111-138, 361-387).        *)
WorkAccepted ==
  \A n \in 1..Len(vseen) :
    script[n].op = "grind" /\ vseen[n].bits <= script[n].bits
      /\ Heard(vseen, n) = Heard(script, n) => vseen[n].ok

(* Nothing of a tape is skipped, read twice or read out of order, through     *)
(* messages, decommitments and nonces alike.  So the prover's own tape is    *)
(* refused only to a verifier that leaves part of the protocol out, and one  *)
(* of another length is never accepted by one that leaves nothing out        *)
(* (transcript.rs:63-70, 194-201; buffer.rs:24-32).                          *)
On(events)    == {i \in DOMAIN events : OnTape(events[i])}
At(events, n) == Cardinality(On(events) \cap 1..n)
TapeAccounted ==
  LET Taped(events, t) == \A n \in On(events) : t[At(events, n)] = events[n].val
      p == At(script, Len(script))
      v == At(vseen, Len(vseen))
  IN  /\ p = Len(tape) /\ Taped(script, tape)
      /\ v <= Len(handed) /\ Taped(vseen, handed)
      /\ vtape = SubSeq(handed, v + 1, Len(handed))
      /\ handed = tape /\ status # "proving" =>
           /\ status # "NotEnoughBytes"
           /\ status = "TranscriptNotEmpty" => v < p
      /\ status = "Ok" /\ v = p => Len(handed) = Len(tape)
==============================================================================
