-------------------------- MODULE TranscriptProofs --------------------------
(* Proofs about the transcripts, for every block and output size, protocol,  *)
(* tape and way to count the zero bits of a proof of work.                   *)
EXTENDS Transcript, HasherChallengerProofs

(* What a call writes or reads. *)
LEMMA EntriesAreSequences ==
  ASSUME NEW bs \in Seq(Entries)
  PROVE  /\ IsSequence(Words(bs)) /\ Len(Words(bs)) = Len(bs)
         /\ \A i \in 1..Len(bs) : Words(bs)[i] = Byte(bs[i])
<1>1. Len(bs) \in Nat /\ bs \in [1..Len(bs) -> Entries]
  BY LenProperties
<1> DEFINE W == {Byte(b) : b \in Entries}
<1>2. Words(bs) \in [1..Len(bs) -> W]
  BY <1>1 DEF Words
<1> HIDE DEF W
<1>3. Words(bs) \in Seq(W) /\ Len(Words(bs)) = Len(bs)
  BY <1>1, <1>2
<1> QED BY <1>1, <1>3, SeqIsSequence DEF Words

LEMMA SlicesAreEntries ==
  ASSUME NEW bs \in Slices
  PROVE  bs \in Seq(Entries) /\ Len(bs) \in 1..MaxWrite
<1>1. PICK n \in 1..MaxWrite : bs \in [1..n -> Values]
  BY DEF Slices
<1>2. bs \in [1..n -> Entries] /\ n \in Nat
  BY <1>1, BoundsAssumption DEF Entries
<1> QED BY <1>1, <1>2

(* The events a call leaves. *)
LEMMA RunIsSequence ==
  ASSUME NEW op, NEW bs \in Seq(Entries)
  PROVE  /\ IsSequence(Run(op, bs)) /\ Len(Run(op, bs)) = Len(bs)
         /\ \A i \in 1..Len(bs) : Run(op, bs)[i] = Event(op, bs[i])
<1>1. Len(bs) \in Nat /\ bs \in [1..Len(bs) -> Entries]
  BY LenProperties
<1> DEFINE E == {Event(op, b) : b \in Entries}
<1>2. Run(op, bs) \in [1..Len(bs) -> E]
  BY <1>1 DEF Run
<1> HIDE DEF E
<1>3. Run(op, bs) \in Seq(E) /\ Len(Run(op, bs)) = Len(bs)
  BY <1>1, <1>2
<1> QED BY <1>1, <1>3, SeqIsSequence DEF Run

LEMMA EventFields ==
  ASSUME NEW op, NEW val, NEW out, NEW nonce, NEW bits
  PROVE  /\ Event(op, val).op = op /\ Event(op, val).val = val
         /\ Drawn(out).op = "sample" /\ Drawn(out).val = 0 /\ Drawn(out).out = out
         /\ Ground(nonce, bits, out).op = "grind" /\ Ground(nonce, bits, out).val = nonce
         /\ Ground(nonce, bits, out).bits = bits /\ Ground(nonce, bits, out).out = out
         /\ Ground(nonce, bits, out).ok = (ZeroBits(out) >= bits)
BY DEF Event, Drawn, Ground

(* t is s and n more. *)
Extends(t, s, n) ==
  /\ IsSequence(t) /\ Len(t) = Len(s) + n
  /\ \A i \in 1..Len(s) : t[i] = s[i]

(* t is s and the events of a call of op that wrote, read or observed bs. *)
Continues(op, bs, s, t) ==
  /\ Extends(t, s, Len(bs))
  /\ \A i \in 1..Len(bs) : t[Len(s) + i].op = op /\ t[Len(s) + i].val = bs[i]

LEMMA RunExtends ==
  ASSUME NEW s, IsSequence(s), NEW op, NEW bs \in Seq(Entries)
  PROVE  Continues(op, bs, s, s \o Run(op, bs))
<1> DEFINE r == Run(op, bs)
           t == s \o r
<1>1. /\ IsSequence(r) /\ Len(r) = Len(bs)
      /\ \A i \in 1..Len(bs) : r[i] = Event(op, bs[i])
  BY RunIsSequence
<1> HIDE DEF r
<1>2. /\ IsSequence(t) /\ Len(t) = Len(s) + Len(r)
      /\ \A i \in 1..Len(s) : t[i] = s[i]
      /\ \A i \in 1..Len(r) : t[Len(s) + i] = r[i]
  BY <1>1, ConcatSequence
<1> HIDE DEF t
<1>3. ASSUME NEW i \in 1..Len(bs) PROVE t[Len(s) + i].op = op /\ t[Len(s) + i].val = bs[i]
  <2>1. t[Len(s) + i] = Event(op, bs[i])
    BY <1>1, <1>2
  <2> QED BY <2>1, EventFields
<1>4. Continues(op, bs, s, t)
  BY <1>1, <1>2, <1>3 DEF Continues, Extends
<1> QED BY <1>4 DEF r, t

LEMMA OneExtends ==
  ASSUME NEW s, IsSequence(s), NEW e
  PROVE  Extends(Append(s, e), s, 1) /\ Append(s, e)[Len(s) + 1] = e
BY AppendSequence DEF Extends

LEMMA OneContinues ==
  ASSUME NEW s, IsSequence(s), NEW bs \in Seq(Entries), Len(bs) = 1, NEW e, e.val = bs[1]
  PROVE  Continues(e.op, bs, s, Append(s, e)) /\ Append(s, e)[Len(s) + 1] = e
BY OneExtends DEF Continues

LEMMA AbsorbedOK ==
  ASSUME NEW c, ChallengerOK(c), NEW bs \in Seq(Entries)
  PROVE  ChallengerOK(Absorbed(c, bs)) /\ Absorbed(c, bs).mode = "Observer"
BY EntriesAreSequences, WriteOK DEF Absorbed

LEMMA SampledOK ==
  ASSUME NEW c, ChallengerOK(c)
  PROVE  ChallengerOK(Draw(Sampler(c)).c)
BY SamplerOK, DrawOK

LEMMA NonceIsEntry ==
  ASSUME NEW nonce \in Entries
  PROVE  <<nonce>> \in Seq(Entries) /\ Len(<<nonce>>) = 1 /\ <<nonce>>[1] = nonce
OBVIOUS
------------------------------------------------------------------------------
LEMMA ReadsAreEntries ==
  ASSUME TypeOK, NEW n \in Nat, n <= Len(vtape)
  PROVE  /\ Ahead(n) \in Seq(Entries) /\ Len(Ahead(n)) = n
         /\ \A i \in 1..n : Ahead(n)[i] = vtape[i]
         /\ Rest(n) \in Seq(Entries) /\ Len(Rest(n)) = Len(vtape) - n
         /\ \A i \in 1..Len(vtape) - n : Rest(n)[i] = vtape[n + i]
<1>1. vtape \in Seq(Entries) /\ Len(vtape) \in Nat
  BY LenProperties DEF TypeOK
<1>2. \A i \in 1..Len(vtape) : vtape[i] \in Entries
  BY <1>1, ElementOfSeq
<1>3. \A i \in 1..n : vtape[i] \in Entries
  BY <1>1, <1>2
<1>4. \A i \in n + 1..Len(vtape) : vtape[i] \in Entries
  BY <1>1, <1>2
<1>5. /\ Ahead(n) \in Seq(Entries) /\ Len(Ahead(n)) = IF 1 <= n THEN n - 1 + 1 ELSE 0
      /\ \A i \in 1..n - 1 + 1 : Ahead(n)[i] = vtape[1 + i - 1]
  BY <1>3, SubSeqProperties DEF Ahead
<1>6. /\ Rest(n) \in Seq(Entries)
      /\ Len(Rest(n)) = IF n + 1 <= Len(vtape) THEN Len(vtape) - (n + 1) + 1 ELSE 0
      /\ \A i \in 1..Len(vtape) - (n + 1) + 1 : Rest(n)[i] = vtape[(n + 1) + i - 1]
  <2>1. n + 1 \in Int /\ Len(vtape) \in Int
    BY <1>1
  <2> QED BY <1>4, <2>1, SubSeqProperties DEF Rest
<1>7. \A i \in 1..n : 1 + i - 1 = i /\ i \in 1..n - 1 + 1
  OBVIOUS
<1>8. \A i \in 1..Len(vtape) - n : (n + 1) + i - 1 = n + i /\ i \in 1..Len(vtape) - (n + 1) + 1
  BY <1>1
<1> QED BY <1>1, <1>5, <1>6, <1>7, <1>8

(* The byte and the output an operation leaves, whoever takes it: the events *)
(* of s are continued by those of one call of op that wrote, read or         *)
(* observed bs, and the challenger goes from c to d.                         *)
Plays(op, bs, c, d, s, t) ==
  LET e == t[Len(s) + 1] IN
  /\ op \in Ops /\ bs \in Seq(Entries) /\ Len(bs) > 0
  /\ Continues(op, bs, s, t)
  /\ \/ op \in {"message", "observe"} /\ d = Absorbed(c, bs)
     \/ op = "decommitment" /\ d = c
     \/ op = "open" /\ bs[1] = 0 /\ Len(bs) = 1 /\ d = Observer(c)
     \/ op = "sample" /\ bs[1] = 0 /\ Len(bs) = 1 /\ d = Draw(Sampler(c)).c
        /\ e.out = Draw(Sampler(c)).out
     \/ op = "grind" /\ Len(bs) = 1 /\ d = Trial(c, bs[1]).c /\ e.out = Trial(c, bs[1]).out
        /\ e.bits \in Nat /\ e.ok = (ZeroBits(e.out) >= e.bits)

Recorded == {"message", "decommitment", "grind"}

ProverMoves(op, bs) ==
  /\ Proving(Len(bs))
  /\ Plays(op, bs, pch, pch', script, script')
  /\ IF op \in Recorded THEN tape' = tape \o bs ELSE tape' = tape
  /\ op = "grind" => script'[Len(script) + 1].ok = TRUE

VerifierMoves(op, bs) ==
  /\ Due(op, Len(bs))
  /\ Plays(op, bs, vch, vch', vseen, vseen')
  /\ IF op \in Recorded
     THEN Len(bs) <= Len(vtape) /\ bs = Ahead(Len(bs)) /\ vtape' = Rest(Len(bs))
     ELSE vtape' = vtape
  /\ status' = status

LEMMA PlaysOK ==
  ASSUME NEW op, NEW bs, NEW c, NEW d, NEW s, NEW t, ChallengerOK(c), Plays(op, bs, c, d, s, t)
  PROVE  ChallengerOK(d)
<1>1. bs \in Seq(Entries)
  BY DEF Plays
<1>2. CASE d = Absorbed(c, bs)
  BY <1>1, <1>2, AbsorbedOK
<1>3. CASE d = Observer(c)
  BY <1>3, ObserverOK
<1>4. CASE d = Draw(Sampler(c)).c
  BY <1>4, SampledOK
<1>5. CASE Len(bs) = 1 /\ d = Trial(c, bs[1]).c
  <2>1. bs[1] \in Entries
    <3>1. 1 \in 1..Len(bs)
      BY <1>5
    <3> QED BY <1>1, <3>1, ElementOfSeq
  <2> QED BY <1>5, <2>1, NonceIsEntry, AbsorbedOK, SampledOK DEF Trial
<1> QED BY <1>2, <1>3, <1>4, <1>5 DEF Plays

LEMMA DefaultOK == ChallengerOK(Default)
<1>1. IsSequence(<<Digest(<<>>)>>) /\ Len(<<Digest(<<>>)>>) = 1 /\ <<Digest(<<>>)>> # <<>>
  BY SingletonIsSequence
<1>2. OutLen \in Nat
  BY LengthsAssumption
<1> QED BY <1>1, <1>2 DEF ChallengerOK, Default

LEMMA TypeInit == Init => TypeOK
<1>1. <<>> \in Seq(Entries)
  OBVIOUS
<1>2. MaxEvents \in Nat
  BY BoundsAssumption
<1> QED BY <1>1, <1>2, DefaultOK, EmptyIsSequence DEF Init, TypeOK

(* The tapes a verifier may be handed are tapes. *)
LEMMA TapesAreTapes ==
  ASSUME tape \in Seq(Entries)
  PROVE  Tapes \subseteq Seq(Entries)
<1>1. Values \subseteq Entries /\ Len(tape) \in Nat
  BY LenProperties DEF Entries
<1>2. ASSUME NEW i \in DOMAIN tape, NEW b \in Values PROVE [tape EXCEPT ![i] = b] \in Seq(Entries)
  <2>1. i \in 1..Len(tape) /\ b \in Entries
    BY <1>1, LenProperties
  <2> QED BY <2>1, ExceptSeq
<1>3. ASSUME NEW n \in 0..Len(tape) PROVE SubSeq(tape, 1, n) \in Seq(Entries)
  <2>1. \A i \in 1..n : tape[i] \in Entries
    BY <1>1, ElementOfSeq
  <2>2. 1 \in Int /\ n \in Int
    BY <1>1
  <2> QED BY <2>1, <2>2, SubSeqProperties
<1>4. ASSUME NEW b \in Values PROVE Append(tape, b) \in Seq(Entries)
  BY <1>1, AppendProperties
<1>5. Tapes = {tape} \cup {[tape EXCEPT ![i] = b] : i \in DOMAIN tape, b \in Values}
              \cup {SubSeq(tape, 1, n) : n \in 0..Len(tape)} \cup {Append(tape, b) : b \in Values}
  BY DEF Tapes
<1>6. {[tape EXCEPT ![i] = b] : i \in DOMAIN tape, b \in Values} \subseteq Seq(Entries)
  BY <1>2
<1>7. {SubSeq(tape, 1, n) : n \in 0..Len(tape)} \subseteq Seq(Entries)
  BY <1>3
<1>8. {Append(tape, b) : b \in Values} \subseteq Seq(Entries)
  BY <1>4
<1> QED BY <1>5, <1>6, <1>7, <1>8

------------------------------------------------------------------------------
(* The protocol grows at the prover's end, *)
LEMMA ScriptGrows ==
  ASSUME TypeOK, NEW n \in Nat, Proving(n), Extends(script', script, n),
         \A i \in 1..n : script'[Len(script) + i].op \in Ops,
         ChallengerOK(pch'), tape' \in Seq(Entries)
  PROVE  TypeOK'
<1>1. /\ vch' = vch /\ vtape' = vtape /\ vseen' = vseen /\ handed' = handed /\ status' = status
      /\ Len(script) + n <= MaxEvents
  BY DEF Proving, verifier
<1>2. Len(script) \in Nat /\ Len(vseen) \in Nat
  BY SequenceLen DEF TypeOK
<1>3. IsSequence(script') /\ Len(script') <= MaxEvents /\ Len(vseen') <= Len(script')
  BY <1>1, <1>2 DEF Extends, TypeOK
<1>4. ASSUME NEW i \in 1..Len(script') PROVE script'[i].op \in Ops
  <2>1. CASE i \in 1..Len(script)
    BY <2>1 DEF Extends, TypeOK
  <2>2. CASE i \notin 1..Len(script)
    <3>1. i - Len(script) \in 1..n /\ Len(script) + (i - Len(script)) = i
      BY <1>2, <2>2 DEF Extends
    <3> QED BY <3>1
  <2> QED BY <2>1, <2>2
<1>5. ASSUME NEW i \in 1..Len(vseen') PROVE vseen'[i].op = script'[i].op
  <2>1. i \in 1..Len(script) /\ i \in 1..Len(vseen)
    BY <1>1, <1>2 DEF TypeOK
  <2> QED BY <1>1, <2>1 DEF Extends, TypeOK
<1> QED BY <1>1, <1>3, <1>4, <1>5 DEF TypeOK

(* and is followed at the verifier's. *)
LEMMA SeenGrows ==
  ASSUME TypeOK, NEW op, NEW n \in Nat, Due(op, n), Extends(vseen', vseen, n),
         \A i \in 1..n : vseen'[Len(vseen) + i].op = op,
         ChallengerOK(vch'), vtape' \in Seq(Entries), status' = status
  PROVE  TypeOK'
<1>1. /\ pch' = pch /\ tape' = tape /\ script' = script /\ handed' = handed
      /\ Len(vseen) + n <= Len(script)
      /\ \A i \in 1..n : script[Len(vseen) + i].op = op
  BY DEF Due, prover
<1>2. Len(script) \in Nat /\ Len(vseen) \in Nat
  BY SequenceLen DEF TypeOK
<1>3. ASSUME NEW i \in 1..Len(vseen') PROVE vseen'[i].op = script'[i].op
  <2>1. CASE i \in 1..Len(vseen)
    BY <1>1, <2>1 DEF Extends, TypeOK
  <2>2. CASE i \notin 1..Len(vseen)
    <3>1. i - Len(vseen) \in 1..n /\ Len(vseen) + (i - Len(vseen)) = i
      BY <1>2, <2>2 DEF Extends
    <3> QED BY <1>1, <3>1
  <2> QED BY <2>1, <2>2
<1> QED BY <1>1, <1>3 DEF TypeOK, Extends

------------------------------------------------------------------------------
(* Every action of the specification is one of these moves, or leaves both   *)
(* protocols as they are.                                                    *)
LEMMA ProverSteps ==
  ASSUME TypeOK
  PROVE  /\ \A bs \in Slices : ProverMessage(bs) => ProverMoves("message", bs)
         /\ \A bs \in Slices : ProverDecommitment(bs) => ProverMoves("decommitment", bs)
         /\ \A bs \in Slices : ProverObserve(bs) => ProverMoves("observe", bs)
         /\ ProverOpen => \E bs \in Seq(Entries) : ProverMoves("open", bs)
         /\ ProverSample => \E bs \in Seq(Entries) : ProverMoves("sample", bs)
         /\ \A bits \in Difficulties :
              ProverGrind(bits) => \E bs \in Seq(Entries) : ProverMoves("grind", bs)
<1>0. IsSequence(script) /\ tape \in Seq(Entries)
  BY DEF TypeOK
<1>00. <<0>> \in Seq(Entries) /\ Len(<<0>>) = 1 /\ <<0>>[1] = 0
  <2>1. 0 \in Entries
    BY BoundsAssumption DEF Entries
  <2> QED BY <2>1, NonceIsEntry
<1>1. ASSUME NEW bs \in Slices, ProverMessage(bs) PROVE ProverMoves("message", bs)
  <2>1. bs \in Seq(Entries) /\ Len(bs) > 0
    BY SlicesAreEntries
  <2>2. script' = script \o Run("message", bs)
    BY <1>1 DEF ProverMessage
  <2>3. Continues("message", bs, script, script')
    BY ONLY <1>0, <2>1, <2>2, RunExtends
  <2> QED BY <1>1, <2>1, <2>3 DEF ProverMessage, ProverMoves, Plays, Ops, Recorded
<1>2. ASSUME NEW bs \in Slices, ProverDecommitment(bs) PROVE ProverMoves("decommitment", bs)
  <2>1. bs \in Seq(Entries) /\ Len(bs) > 0
    BY SlicesAreEntries
  <2>2. script' = script \o Run("decommitment", bs)
    BY <1>2 DEF ProverDecommitment
  <2>3. Continues("decommitment", bs, script, script')
    BY ONLY <1>0, <2>1, <2>2, RunExtends
  <2> QED BY <1>2, <2>1, <2>3 DEF ProverDecommitment, ProverMoves, Plays, Ops, Recorded
<1>3. ASSUME NEW bs \in Slices, ProverObserve(bs) PROVE ProverMoves("observe", bs)
  <2>1. bs \in Seq(Entries) /\ Len(bs) > 0
    BY SlicesAreEntries
  <2>2. script' = script \o Run("observe", bs)
    BY <1>3 DEF ProverObserve
  <2>3. Continues("observe", bs, script, script')
    BY ONLY <1>0, <2>1, <2>2, RunExtends
  <2> QED BY <1>3, <2>1, <2>3 DEF ProverObserve, ProverMoves, Plays, Ops, Recorded
<1>4. ASSUME ProverOpen PROVE ProverMoves("open", <<0>>)
  <2> DEFINE e == Event("open", 0)
  <2>1. e.op = "open" /\ e.val = 0
    BY EventFields
  <2>2. Proving(Len(<<0>>)) /\ script' = Append(script, e) /\ pch' = Observer(pch) /\ tape' = tape
    BY <1>00, <1>4 DEF ProverOpen
  <2> HIDE DEF e
  <2>3. Continues("open", <<0>>, script, script')
    BY <1>0, <1>00, <2>1, <2>2, OneContinues
  <2> QED BY <1>00, <2>2, <2>3 DEF ProverMoves, Plays, Ops, Recorded
<1>5. ASSUME ProverSample PROVE ProverMoves("sample", <<0>>)
  <2> DEFINE d == Draw(Sampler(pch))
             e == Drawn(d.out)
  <2>1. e.op = "sample" /\ e.val = 0 /\ e.out = d.out
    BY EventFields
  <2>2. Proving(Len(<<0>>)) /\ script' = Append(script, e) /\ pch' = d.c /\ tape' = tape
    BY <1>00, <1>5 DEF ProverSample
  <2> HIDE DEF e
  <2>3. Continues("sample", <<0>>, script, script') /\ script'[Len(script) + 1] = e
    BY <1>0, <1>00, <2>1, <2>2, OneContinues, ZenonT(60)
  <2> QED BY <1>00, <2>1, <2>2, <2>3 DEF ProverMoves, Plays, Ops, Recorded
<1>6. ASSUME NEW bits \in Difficulties, ProverGrind(bits)
      PROVE  \E bs \in Seq(Entries) : ProverMoves("grind", bs)
  <2>1. PICK nonce \in 0..MaxNonce :
             /\ Proving(1) /\ pch' = Trial(pch, nonce).c /\ tape' = Append(tape, nonce)
             /\ ZeroBits(Trial(pch, nonce).out) >= bits
             /\ script' = Append(script, Ground(nonce, bits, Trial(pch, nonce).out))
    BY <1>6 DEF ProverGrind
  <2> DEFINE e == Ground(nonce, bits, Trial(pch, nonce).out)
             bs == <<nonce>>
  <2>2. nonce \in Entries
    BY DEF Entries
  <2>3. bs \in Seq(Entries) /\ Len(bs) = 1 /\ bs[1] = nonce
    BY <2>2, NonceIsEntry
  <2>4. /\ e.op = "grind" /\ e.val = nonce /\ e.bits = bits /\ e.out = Trial(pch, nonce).out
        /\ e.ok = (ZeroBits(e.out) >= e.bits) /\ bits \in Nat
    BY EventFields, BoundsAssumption
  <2>5. tape' = tape \o bs
    BY <1>0, <2>1, <2>2, AppendIsConcat
  <2>6. script' = Append(script, e) /\ (e.ok = TRUE)
    BY <2>1, <2>4
  <2> HIDE DEF e, bs
  <2>7. Continues("grind", bs, script, script') /\ script'[Len(script) + 1] = e
    BY <1>0, <2>3, <2>4, <2>6, OneContinues
  <2>8. Plays("grind", bs, pch, pch', script, script')
    BY <2>1, <2>3, <2>4, <2>7 DEF Plays, Ops
  <2>9. ProverMoves("grind", bs)
    BY <2>1, <2>3, <2>5, <2>6, <2>7, <2>8 DEF ProverMoves, Recorded
  <2> QED BY <2>3, <2>9
<1> QED BY <1>00, <1>1, <1>2, <1>3, <1>4, <1>5, <1>6

LEMMA VerifierSteps ==
  ASSUME TypeOK
  PROVE  /\ \A n \in 1..MaxWrite : VerifierMessage(n) => VerifierMoves("message", Ahead(n))
         /\ \A n \in 1..MaxWrite : VerifierDecommitment(n) => VerifierMoves("decommitment", Ahead(n))
         /\ \A bs \in Slices : VerifierObserve(bs) => VerifierMoves("observe", bs)
         /\ VerifierOpen => \E bs \in Seq(Entries) : VerifierMoves("open", bs)
         /\ VerifierSample => \E bs \in Seq(Entries) : VerifierMoves("sample", bs)
         /\ \A bits \in Difficulties : VerifyGrind(bits) => VerifierMoves("grind", Ahead(1))
<1>0. IsSequence(vseen) /\ vtape \in Seq(Entries)
  BY DEF TypeOK
<1>00. <<0>> \in Seq(Entries) /\ Len(<<0>>) = 1 /\ <<0>>[1] = 0
  <2>1. 0 \in Entries
    BY BoundsAssumption DEF Entries
  <2> QED BY <2>1, NonceIsEntry
<1>1. ASSUME NEW n \in 1..MaxWrite, VerifierMessage(n) PROVE VerifierMoves("message", Ahead(n))
  <2> DEFINE bs == Ahead(n)
  <2>1. /\ Due("message", n) /\ n <= Len(vtape) /\ vch' = Absorbed(vch, bs) /\ vtape' = Rest(n)
        /\ vseen' = vseen \o Run("message", bs) /\ status' = status
    BY <1>1 DEF VerifierMessage
  <2>2. n \in Nat
    BY BoundsAssumption
  <2>3. bs \in Seq(Entries) /\ Len(bs) = n /\ Len(bs) > 0
    BY <2>1, <2>2, ReadsAreEntries
  <2> HIDE DEF bs
  <2>4. Continues("message", bs, vseen, vseen')
    BY ONLY <1>0, <2>1, <2>3, RunExtends
  <2>5. VerifierMoves("message", bs)
    BY <2>1, <2>3, <2>4 DEF VerifierMoves, Plays, Ops, Recorded, bs
  <2> QED BY <2>5 DEF bs
<1>2. ASSUME NEW n \in 1..MaxWrite, VerifierDecommitment(n) PROVE VerifierMoves("decommitment", Ahead(n))
  <2> DEFINE bs == Ahead(n)
  <2>1. /\ Due("decommitment", n) /\ n <= Len(vtape) /\ vch' = vch /\ vtape' = Rest(n)
        /\ vseen' = vseen \o Run("decommitment", bs) /\ status' = status
    BY <1>2 DEF VerifierDecommitment
  <2>2. n \in Nat
    BY BoundsAssumption
  <2>3. bs \in Seq(Entries) /\ Len(bs) = n /\ Len(bs) > 0
    BY <2>1, <2>2, ReadsAreEntries
  <2> HIDE DEF bs
  <2>4. Continues("decommitment", bs, vseen, vseen')
    BY ONLY <1>0, <2>1, <2>3, RunExtends
  <2>5. VerifierMoves("decommitment", bs)
    BY <2>1, <2>3, <2>4 DEF VerifierMoves, Plays, Ops, Recorded, bs
  <2> QED BY <2>5 DEF bs
<1>3. ASSUME NEW bs \in Slices, VerifierObserve(bs) PROVE VerifierMoves("observe", bs)
  <2>1. bs \in Seq(Entries) /\ Len(bs) > 0
    BY SlicesAreEntries
  <2>2. vseen' = vseen \o Run("observe", bs)
    BY <1>3 DEF VerifierObserve
  <2>3. Continues("observe", bs, vseen, vseen')
    BY ONLY <1>0, <2>1, <2>2, RunExtends
  <2> QED BY <1>3, <2>1, <2>3 DEF VerifierObserve, VerifierMoves, Plays, Ops, Recorded
<1>4. ASSUME VerifierOpen PROVE VerifierMoves("open", <<0>>)
  <2> DEFINE e == Event("open", 0)
  <2>1. e.op = "open" /\ e.val = 0
    BY EventFields
  <2>2. /\ Due("open", Len(<<0>>)) /\ vseen' = Append(vseen, e) /\ vch' = Observer(vch)
        /\ vtape' = vtape /\ status' = status
    BY <1>00, <1>4 DEF VerifierOpen
  <2> HIDE DEF e
  <2>3. Continues("open", <<0>>, vseen, vseen')
    BY <1>0, <1>00, <2>1, <2>2, OneContinues
  <2> QED BY <1>00, <2>2, <2>3 DEF VerifierMoves, Plays, Ops, Recorded
<1>5. ASSUME VerifierSample PROVE VerifierMoves("sample", <<0>>)
  <2> DEFINE d == Draw(Sampler(vch))
             e == Drawn(d.out)
  <2>1. e.op = "sample" /\ e.val = 0 /\ e.out = d.out
    BY EventFields
  <2>2. /\ Due("sample", Len(<<0>>)) /\ vseen' = Append(vseen, e) /\ vch' = d.c
        /\ vtape' = vtape /\ status' = status
    BY <1>00, <1>5 DEF VerifierSample
  <2> HIDE DEF e
  <2>3. Continues("sample", <<0>>, vseen, vseen') /\ vseen'[Len(vseen) + 1] = e
    BY <1>0, <1>00, <2>1, <2>2, OneContinues
  <2> QED BY <1>00, <2>1, <2>2, <2>3 DEF VerifierMoves, Plays, Ops, Recorded
<1>6. ASSUME NEW bits \in Difficulties, VerifyGrind(bits) PROVE VerifierMoves("grind", Ahead(1))
  <2> DEFINE e == Ground(vtape[1], bits, Trial(vch, vtape[1]).out)
             bs == Ahead(1)
  <2>1. /\ Due("grind", 1) /\ vtape # <<>> /\ vch' = Trial(vch, vtape[1]).c /\ vtape' = Rest(1)
        /\ vseen' = Append(vseen, e) /\ status' = status
    BY <1>6 DEF VerifyGrind
  <2>2. 1 <= Len(vtape) /\ 1 \in Nat
    BY <1>0, <2>1, LenProperties, EmptySeq
  <2>3. bs \in Seq(Entries) /\ Len(bs) = 1 /\ bs[1] = vtape[1]
    <3>1. /\ Ahead(1) \in Seq(Entries) /\ Len(Ahead(1)) = 1
          /\ \A i \in 1..1 : Ahead(1)[i] = vtape[i]
      BY ONLY <2>2, TypeOK, ReadsAreEntries
    <3>2. 1 \in 1..1
      OBVIOUS
    <3> QED BY <3>1, <3>2
  <2>4. /\ e.op = "grind" /\ e.val = bs[1] /\ e.bits = bits /\ e.out = Trial(vch, bs[1]).out
        /\ e.ok = (ZeroBits(e.out) >= e.bits) /\ bits \in Nat
    BY <2>3, EventFields, BoundsAssumption
  <2> HIDE DEF e, bs
  <2>5. Continues("grind", bs, vseen, vseen') /\ vseen'[Len(vseen) + 1] = e
    BY <1>0, <2>1, <2>3, <2>4, OneContinues
  <2>6. Plays("grind", bs, vch, vch', vseen, vseen')
    BY <2>1, <2>3, <2>4, <2>5 DEF Plays, Ops
  <2>7. VerifierMoves("grind", bs)
    BY <2>1, <2>2, <2>3, <2>6 DEF VerifierMoves, Recorded, bs
  <2> QED BY <2>7 DEF bs
<1> QED BY <1>00, <1>1, <1>2, <1>3, <1>4, <1>5, <1>6

LEMMA Moves ==
  ASSUME TypeOK, [Next]_vars
  PROVE  \/ \E op, bs : ProverMoves(op, bs)
         \/ \E op, bs : VerifierMoves(op, bs)
         \/ \E op \in Recorded, n \in Nat : NotEnoughBytes(op, n)
         \/ IntoVerifier \/ Finalize \/ UNCHANGED vars
<1>1. \A n \in 1..MaxWrite : n \in Nat
  BY BoundsAssumption
<1> QED BY <1>1, ProverSteps, VerifierSteps DEF Next, Recorded

(* Both challengers keep their shape through every step, both tapes stay     *)
(* tapes, and the verifier's operations stay a prefix of the prover's.       *)
LEMMA TypeNext ==
  ASSUME TypeOK, [Next]_vars
  PROVE  TypeOK'
<1>0. ChallengerOK(pch) /\ ChallengerOK(vch) /\ {tape, handed, vtape} \subseteq Seq(Entries)
  BY DEF TypeOK
<1>1. ASSUME NEW op, NEW bs, ProverMoves(op, bs) PROVE TypeOK'
  <2>1. /\ Proving(Len(bs)) /\ Plays(op, bs, pch, pch', script, script')
        /\ tape' = tape \o bs \/ tape' = tape
    BY <1>1 DEF ProverMoves
  <2>2. op \in Ops /\ bs \in Seq(Entries) /\ Extends(script', script, Len(bs))
        /\ \A i \in 1..Len(bs) : script'[Len(script) + i].op = op
    BY <2>1 DEF Plays, Continues
  <2>3. ChallengerOK(pch') /\ tape' \in Seq(Entries) /\ Len(bs) \in Nat
    BY <1>0, <2>1, <2>2, PlaysOK, ConcatProperties, LenProperties
  <2> QED BY <2>1, <2>2, <2>3, ScriptGrows
<1>2. ASSUME NEW op, NEW bs, VerifierMoves(op, bs) PROVE TypeOK'
  <2>1. /\ Due(op, Len(bs)) /\ Plays(op, bs, vch, vch', vseen, vseen') /\ status' = status
        /\ \/ Len(bs) <= Len(vtape) /\ vtape' = Rest(Len(bs))
           \/ vtape' = vtape
    BY <1>2 DEF VerifierMoves
  <2>2. /\ bs \in Seq(Entries) /\ Extends(vseen', vseen, Len(bs))
        /\ \A i \in 1..Len(bs) : vseen'[Len(vseen) + i].op = op
    BY <2>1 DEF Plays, Continues
  <2>3. Len(bs) \in Nat
    BY <2>2, LenProperties
  <2>4. ChallengerOK(vch') /\ vtape' \in Seq(Entries)
    BY <1>0, <2>1, <2>2, <2>3, PlaysOK, ReadsAreEntries
  <2> QED BY <2>1, <2>2, <2>3, <2>4, SeenGrows
<1>3. ASSUME NEW op, NEW n, NotEnoughBytes(op, n) PROVE TypeOK'
  BY <1>3 DEF NotEnoughBytes, Due, verifier, prover, TypeOK
<1>4. CASE IntoVerifier
  <2>1. /\ status' = "verifying" /\ handed' \in Tapes /\ vtape' = handed' /\ vch' = vch /\ vseen' = vseen
        /\ pch' = pch /\ tape' = tape /\ script' = script
    BY <1>4 DEF IntoVerifier, prover
  <2>2. handed' \in Seq(Entries)
    BY <1>0, <2>1, TapesAreTapes
  <2> QED BY <2>1, <2>2 DEF TypeOK
<1>5. CASE Finalize
  BY <1>5 DEF Finalize, verifier, prover, TypeOK
<1>6. CASE UNCHANGED vars
  BY <1>6 DEF vars, prover, verifier, TypeOK
<1> QED BY <1>1, <1>2, <1>3, <1>4, <1>5, <1>6, Moves

(* Both challengers keep their shape through every protocol, both tapes stay *)
(* tapes, and the verifier's operations stay a prefix of the prover's        *)
(* (transcript.rs, fiat_shamir/hasher_challenger.rs).                        *)
THEOREM TranscriptTypeCorrect == Spec => []TypeOK
BY TypeInit, TypeNext, PTL DEF Spec
------------------------------------------------------------------------------
(* What came before a call stays where it is on the tape. *)
LEMMA TapeStays ==
  ASSUME NEW op, NEW bs \in Seq(Entries), NEW s, IsSequence(s), NEW t, Continues(op, bs, s, t)
  PROVE  \A n \in 0..Len(s) : At(t, n) = At(s, n)
<1>1. /\ Len(bs) \in Nat /\ Len(s) \in Nat /\ Len(t) \in Nat /\ Len(t) = Len(s) + Len(bs)
      /\ DOMAIN s = 1..Len(s) /\ DOMAIN t = 1..Len(t)
  BY SequenceLen, LenProperties DEF Continues, Extends
<1>2. \A n \in 1..Len(s) : n \in On(t) <=> n \in On(s)
  BY <1>1 DEF Continues, Extends, On
<1>4. ASSUME NEW n \in 0..Len(s) PROVE At(t, n) = At(s, n)
  <2>1. \A i \in 1..n : i \in On(t) <=> i \in On(s)
    BY <1>1, <1>2
  <2>2. n \in Nat
    BY <1>1
  <2>3. CountUpTo(On(t), n) = CountUpTo(On(s), n)
    BY <2>1, <2>2, CountAgree
  <2> QED BY <2>3 DEF At, CountUpTo
<1> QED BY <1>4

(* What a call adds to the entries of the tape. *)
LEMMA TapeGrows ==
  ASSUME NEW op, NEW bs \in Seq(Entries), NEW s, IsSequence(s), NEW t, Continues(op, bs, s, t)
  PROVE  /\ op \in Recorded =>
              /\ \A i \in 0..Len(bs) : At(t, Len(s) + i) = At(s, Len(s)) + i
              /\ At(t, Len(t)) = At(s, Len(s)) + Len(bs)
              /\ On(t) = On(s) \cup {Len(s) + i : i \in 1..Len(bs)}
         /\ op \notin Recorded => At(t, Len(t)) = At(s, Len(s)) /\ On(t) = On(s)
<1>1. /\ Len(bs) \in Nat /\ Len(s) \in Nat /\ Len(t) \in Nat /\ Len(t) = Len(s) + Len(bs)
      /\ DOMAIN s = 1..Len(s) /\ DOMAIN t = 1..Len(t)
  BY SequenceLen, LenProperties DEF Continues, Extends
<1>2. \A n \in 1..Len(s) : n \in On(t) <=> n \in On(s)
  BY <1>1 DEF Continues, Extends, On
<1>3. On(s) \subseteq 1..Len(s) /\ On(t) \subseteq 1..Len(t)
  BY <1>1 DEF On
<1>5. \A i \in 1..Len(bs) : Len(s) + i \in On(t) <=> op \in Recorded
  <2> TAKE i \in 1..Len(bs)
  <2>1. t[Len(s) + i].op = op /\ Len(s) + i \in DOMAIN t
    BY <1>1 DEF Continues
  <2>2. Len(s) + i \in On(t) <=> OnTape(t[Len(s) + i])
    BY <2>1 DEF On
  <2> QED BY <2>1, <2>2 DEF OnTape, Recorded
<1>6. \A n \in 1..Len(t) : n \in 1..Len(s) \/ \E i \in 1..Len(bs) : n = Len(s) + i
  <2> SUFFICES ASSUME NEW n \in 1..Len(t), n \notin 1..Len(s)
               PROVE  \E i \in 1..Len(bs) : n = Len(s) + i
    OBVIOUS
  <2>1. n - Len(s) \in 1..Len(bs) /\ n = Len(s) + (n - Len(s))
    BY <1>1
  <2> QED BY <2>1
<1>7. Len(s) \in 0..Len(s) /\ At(t, Len(s)) = At(s, Len(s))
  BY <1>1, TapeStays
<1>8. ASSUME op \in Recorded, NEW i \in 0..Len(bs)
      PROVE  At(t, Len(s) + i) = At(s, Len(s)) + i
  <2>0. i \in Nat /\ \A j \in 1..i : j \in 1..Len(bs)
    BY <1>1
  <2>1. i \in Nat /\ \A j \in 1..i : Len(s) + j \in On(t)
    BY <1>5, <1>8, <2>0
  <2> DEFINE S == On(t)
             n == Len(s)
  <2> HIDE DEF S, n
  <2>2. CountUpTo(S, n + i) = CountUpTo(S, n) + i
    <3>1. n \in Nat /\ i \in Nat /\ \A j \in 1..i : n + j \in S
      BY <1>1, <2>1 DEF n, S
    <3> QED BY <3>1, CountStretch
  <2> QED BY <1>7, <2>2 DEF At, CountUpTo, S, n
<1>11. ASSUME op \in Recorded PROVE At(t, Len(t)) = At(s, Len(s)) + Len(bs)
  <2>1. Len(bs) \in 0..Len(bs)
    BY <1>1
  <2> QED BY <1>1, <1>8, <1>11, <2>1
<1>9. op \in Recorded => On(t) = On(s) \cup {Len(s) + i : i \in 1..Len(bs)}
  BY <1>1, <1>2, <1>3, <1>5, <1>6
<1>10. ASSUME op \notin Recorded
       PROVE  At(t, Len(t)) = At(s, Len(s)) /\ On(t) = On(s)
  <2>1. \A j \in 1..Len(bs) : Len(s) + j \notin On(t)
    BY <1>5, <1>10
  <2>2. CountUpTo(On(t), Len(s) + Len(bs)) = CountUpTo(On(t), Len(s))
    BY <1>1, <2>1, CountStretch
  <2>3. On(t) = On(s)
    BY <1>2, <1>3, <1>6, <2>1
  <2> QED BY <1>1, <1>7, <2>2, <2>3 DEF At, CountUpTo
<1> QED BY <1>8, <1>9, <1>10, <1>11

LEMMA AtType ==
  ASSUME NEW s, NEW n \in Nat
  PROVE  At(s, n) \in 0..n
BY CountType DEF At, CountUpTo

LEMMA AtMonotonic ==
  ASSUME NEW s, NEW m \in Nat, NEW n \in Nat, m <= n
  PROVE  At(s, m) <= At(s, n)
BY CountMonotonic DEF At, CountUpTo

(* The entries a side has put down or read so far are those of its tape. *)
Taped(s, t) == \A n \in On(s) : t[At(s, n)] = s[n].val

(* v holds the entries of u, and then those of a call of op. *)
HoldsToo(op, bs, n, u, v) ==
  /\ \A i \in 1..n : v[i] = u[i]
  /\ op \in Recorded => \A i \in 1..Len(bs) : v[n + i] = bs[i]

LEMMA TapedGrows ==
  ASSUME NEW op, NEW bs \in Seq(Entries), NEW s, IsSequence(s), NEW t, Continues(op, bs, s, t),
         NEW u, NEW v, Taped(s, u), HoldsToo(op, bs, At(s, Len(s)), u, v)
  PROVE  Taped(t, v)
<1>0. Len(s) \in Nat /\ DOMAIN s = 1..Len(s) /\ Len(bs) \in Nat
  BY SequenceLen, LenProperties
<1>1. ASSUME NEW n \in On(s) PROVE v[At(t, n)] = t[n].val
  <2>1. n \in 1..Len(s) /\ n \in 0..Len(s) /\ n \in Nat /\ n - 1 \in Nat
    BY <1>0 DEF On
  <2>2. At(t, n) = At(s, n) /\ t[n] = s[n]
    <3>1. At(t, n) = At(s, n)
      <4>1. \A m \in 0..Len(s) : At(t, m) = At(s, m)
        BY TapeStays
      <4> QED BY <2>1, <4>1
    <3> QED BY <2>1, <3>1 DEF Continues, Extends
  <2>3. At(s, n) = At(s, n - 1) + 1
    <3> DEFINE m == n - 1
               S == On(s)
    <3>1. m \in Nat /\ m + 1 = n /\ n \in S
      BY <2>1
    <3> HIDE DEF m, S
    <3>2. CountUpTo(S, m + 1) = CountUpTo(S, m) + (IF m + 1 \in S THEN 1 ELSE 0)
      BY <3>1, CountNext
    <3>3. CountUpTo(S, n) = CountUpTo(S, m) + 1
      BY <3>1, <3>2
    <3> QED BY <3>3 DEF At, CountUpTo, m, S
  <2>4. At(s, n - 1) \in Nat /\ At(s, n) <= At(s, Len(s)) /\ At(s, n) \in Nat /\ At(s, Len(s)) \in Nat
    BY <1>0, <2>1, AtType, AtMonotonic
  <2>5. At(s, n) \in 1..At(s, Len(s))
    BY <2>3, <2>4
  <2>6. v[At(s, n)] = u[At(s, n)]
    BY <2>5 DEF HoldsToo
  <2> QED BY <2>2, <2>6 DEF Taped
<1>2. ASSUME op \in Recorded, NEW i \in 1..Len(bs)
      PROVE  v[At(t, Len(s) + i)] = t[Len(s) + i].val
  <2>1. At(t, Len(s) + i) = At(s, Len(s)) + i
    BY <1>0, <1>2, TapeGrows
  <2>2. t[Len(s) + i].val = bs[i] /\ v[At(s, Len(s)) + i] = bs[i]
    BY <1>2 DEF Continues, HoldsToo
  <2> QED BY <2>1, <2>2
<1>3. On(t) = On(s) \/ (op \in Recorded /\ On(t) = On(s) \cup {Len(s) + i : i \in 1..Len(bs)})
  BY TapeGrows
<1> QED BY <1>1, <1>2, <1>3 DEF Taped

(* Before it is handed a tape the verifier has seen nothing. *)
Fresh == status = "proving" => vseen = <<>> /\ vch = Default

LEMMA TapeInit == Init => TapeAccounted /\ Fresh
<1>1. SUFFICES ASSUME Init PROVE TapeAccounted /\ Fresh
  OBVIOUS
<1>2. On(<<>>) = {}
  BY DEF On
<1>3. At(<<>>, 0) = 0 /\ Len(<<>>) = 0
  BY AtType
<1>4. SubSeq(<<>>, 0 + 1, 0) = <<>>
  OBVIOUS
<1> QED BY <1>1, <1>2, <1>3, <1>4 DEF Init, TapeAccounted, Fresh

LEMMA TapeProverMoves ==
  ASSUME TypeOK, TapeAccounted, Fresh, NEW op, NEW bs, ProverMoves(op, bs)
  PROVE  TapeAccounted' /\ Fresh'
<1>1. /\ status = "proving" /\ status' = status /\ handed' = handed /\ vtape' = vtape
      /\ vseen' = vseen /\ vch' = vch
  BY DEF ProverMoves, Proving, verifier
<1>2. /\ bs \in Seq(Entries) /\ Continues(op, bs, script, script') /\ IsSequence(script)
      /\ Len(bs) \in Nat /\ Len(script) \in Nat /\ tape \in Seq(Entries) /\ Len(tape) \in Nat
      /\ Len(script') = Len(script) + Len(bs)
  BY SequenceLen, LenProperties DEF ProverMoves, Plays, TypeOK, Continues, Extends
<1>3. At(script, Len(script)) = Len(tape) /\ Taped(script, tape)
  BY DEF TapeAccounted, Taped
<1>4. CASE op \in Recorded
  <2>1. tape' = tape \o bs
    BY <1>4 DEF ProverMoves
  <2>2. /\ Len(tape') = Len(tape) + Len(bs)
        /\ \A i \in 1..Len(tape) : tape'[i] = tape[i]
        /\ \A i \in 1..Len(bs) : tape'[Len(tape) + i] = bs[i]
    BY <1>2, <2>1, ConcatProperties
  <2>3. Taped(script', tape')
    <3>1. HoldsToo(op, bs, At(script, Len(script)), tape, tape')
      BY <1>3, <2>2 DEF HoldsToo
    <3>2. Taped(script, tape)
      BY <1>3
    <3> QED BY <1>2, <3>1, <3>2, TapedGrows
  <2>4. At(script', Len(script')) = Len(tape')
    <3>1. At(script', Len(script')) = At(script, Len(script)) + Len(bs)
      BY <1>2, <1>4, TapeGrows
    <3> QED BY <1>3, <2>2, <3>1
  <2> QED BY <1>1, <2>3, <2>4 DEF TapeAccounted, Fresh, Taped
<1>5. CASE op \notin Recorded
  <2>1. tape' = tape
    BY <1>5 DEF ProverMoves
  <2>2. Taped(script', tape')
    <3>1. HoldsToo(op, bs, At(script, Len(script)), tape, tape')
      BY <1>5, <2>1 DEF HoldsToo
    <3> QED BY <1>2, <1>3, <3>1, TapedGrows
  <2>3. At(script', Len(script')) = Len(tape')
    BY <1>2, <1>3, <1>5, <2>1, TapeGrows
  <2> QED BY <1>1, <2>2, <2>3 DEF TapeAccounted, Fresh, Taped
<1> QED BY <1>4, <1>5

LEMMA TapeVerifierMoves ==
  ASSUME TypeOK, TapeAccounted, Fresh, NEW op, NEW bs, VerifierMoves(op, bs)
  PROVE  TapeAccounted' /\ Fresh'
<1> DEFINE v == At(vseen, Len(vseen))
           n == Len(bs)
<1>1. /\ status = "verifying" /\ status' = status /\ handed' = handed /\ pch' = pch
      /\ tape' = tape /\ script' = script
  BY DEF VerifierMoves, Due, prover
<1>2. /\ bs \in Seq(Entries) /\ Continues(op, bs, vseen, vseen') /\ IsSequence(vseen)
      /\ n \in Nat /\ Len(vseen) \in Nat
      /\ handed \in Seq(Entries) /\ Len(handed) \in Nat
      /\ Len(vseen') = Len(vseen) + n
  BY SequenceLen, LenProperties DEF VerifierMoves, Plays, TypeOK, Continues, Extends
<1>3. /\ v <= Len(handed) /\ Taped(vseen, handed) /\ vtape = SubSeq(handed, v + 1, Len(handed))
      /\ At(script, Len(script)) = Len(tape) /\ Taped(script, tape)
  BY DEF TapeAccounted, Taped
<1>4. v \in Nat
  BY <1>2, AtType
<1>5. CASE op \notin Recorded
  <2>1. vtape' = vtape
    BY <1>5 DEF VerifierMoves
  <2>2. Taped(vseen', handed)
    <3>1. HoldsToo(op, bs, At(vseen, Len(vseen)), handed, handed)
      BY <1>5 DEF HoldsToo
    <3> QED BY <1>2, <1>3, <3>1, TapedGrows
  <2>3. At(vseen', Len(vseen')) = v
    BY <1>2, <1>5, TapeGrows
  <2> QED BY <1>1, <1>3, <2>1, <2>2, <2>3 DEF TapeAccounted, Fresh, Taped
<1>6. CASE op \in Recorded
  <2>1. n <= Len(vtape) /\ bs = Ahead(n) /\ vtape' = Rest(n)
    BY <1>6 DEF VerifierMoves
  <2> HIDE DEF v
  <2>2. Len(vtape) = Len(handed) - v /\ \A i \in 1..Len(handed) - v : vtape[i] = handed[v + i]
    <3>1. \A i \in v + 1..Len(handed) : handed[i] \in Entries
      BY <1>2, <1>4, ElementOfSeq
    <3>2. v + 1 \in Int /\ Len(handed) \in Int
      BY <1>2, <1>4
    <3>3. /\ Len(vtape) = IF v + 1 <= Len(handed) THEN Len(handed) - (v + 1) + 1 ELSE 0
          /\ \A i \in 1..Len(handed) - (v + 1) + 1 : vtape[i] = handed[(v + 1) + i - 1]
      BY <1>3, <3>1, <3>2, SubSeqProperties
    <3>4. \A i \in 1..Len(handed) - v : (v + 1) + i - 1 = v + i /\ i \in 1..Len(handed) - (v + 1) + 1
      BY <1>2, <1>4
    <3> QED BY <1>2, <1>3, <1>4, <3>3, <3>4
  <2>3. v + n <= Len(handed) /\ \A i \in 1..n : handed[v + i] = bs[i]
    <3>1. \A i \in 1..n : bs[i] = vtape[i]
      BY <1>2, <2>1, ReadsAreEntries
    <3> QED BY <1>2, <1>4, <2>1, <2>2, <3>1
  <2>4. At(vseen', Len(vseen')) = v + n
    BY <1>2, <1>6, TapeGrows DEF v
  <2>5. Taped(vseen', handed)
    <3>1. HoldsToo(op, bs, At(vseen, Len(vseen)), handed, handed)
      BY <2>3 DEF v, HoldsToo
    <3> QED BY <1>2, <1>3, <3>1, TapedGrows
  <2>6. vtape' = SubSeq(handed, v + n + 1, Len(handed))
    <3>1. vtape' = SubSeq(SubSeq(handed, v + 1, Len(handed)), n + 1, Len(vtape))
      BY <1>3, <2>1 DEF Rest
    <3> QED BY <1>2, <1>4, <2>1, <2>2, <2>3, <3>1
  <2> QED BY <1>1, <1>3, <2>3, <2>4, <2>5, <2>6 DEF TapeAccounted, Fresh, Taped
<1> QED BY <1>5, <1>6

(* Both sides have put down and read as much of a stretch they both took. *)
LEMMA AtAligned ==
  ASSUME TypeOK, NEW n \in 0..Len(vseen)
  PROVE  At(vseen, n) = At(script, n)
<1>1. /\ Len(vseen) \in Nat /\ Len(script) \in Nat /\ Len(vseen) <= Len(script)
      /\ DOMAIN vseen = 1..Len(vseen) /\ DOMAIN script = 1..Len(script)
      /\ \A i \in 1..Len(vseen) : vseen[i].op = script[i].op
  BY SequenceLen DEF TypeOK
<1>2. n \in Nat
  BY <1>1
<1>3. \A i \in 1..n : i \in DOMAIN vseen /\ i \in DOMAIN script
  BY <1>1
<1>4. \A i \in 1..n : i \in On(vseen) <=> i \in On(script)
  BY <1>1, <1>3 DEF On, OnTape
<1>5. CountUpTo(On(vseen), n) = CountUpTo(On(script), n)
  BY <1>2, <1>4, CountAgree
<1> QED BY <1>5 DEF At, CountUpTo

LEMMA TapeRunsOut ==
  ASSUME TypeOK, TapeAccounted, Fresh, NEW op \in Recorded, NEW n \in Nat, NotEnoughBytes(op, n)
  PROVE  TapeAccounted' /\ Fresh'
<1> DEFINE v == At(vseen, Len(vseen))
<1>1. /\ status = "verifying" /\ status' = "NotEnoughBytes"
      /\ handed' = handed /\ vtape' = vtape /\ vseen' = vseen /\ vch' = vch
      /\ tape' = tape /\ script' = script
      /\ Len(vtape) < n /\ Len(vseen) + n <= Len(script)
      /\ \A i \in 1..n : script[Len(vseen) + i].op = op
  BY DEF NotEnoughBytes, Due, verifier, prover
<1>2. /\ Len(vseen) \in Nat /\ Len(script) \in Nat /\ IsSequence(script)
      /\ handed \in Seq(Entries) /\ Len(handed) \in Nat
      /\ DOMAIN script = 1..Len(script)
  BY SequenceLen, LenProperties DEF TypeOK
<1>3. /\ v <= Len(handed) /\ Taped(vseen, handed) /\ vtape = SubSeq(handed, v + 1, Len(handed))
      /\ At(script, Len(script)) = Len(tape) /\ Taped(script, tape)
  BY DEF TapeAccounted, Taped
<1>4. v \in Nat /\ v = At(script, Len(vseen))
  BY <1>2, AtType, AtAligned
<1>5. At(script, Len(vseen) + n) = v + n
  <2> DEFINE S == On(script)
             m == Len(vseen)
  <2>1. m \in Nat /\ \A i \in 1..n : m + i \in S
    <3>1. \A i \in 1..n : m + i \in DOMAIN script
      BY <1>1, <1>2
    <3> QED BY <1>1, <1>2, <3>1 DEF On, OnTape, Recorded
  <2> HIDE DEF S, m, v
  <2>2. CountUpTo(S, m + n) = CountUpTo(S, m) + n
    BY <2>1, CountStretch
  <2> QED BY <1>4, <2>2 DEF At, CountUpTo, S, m
<1>6. v + n <= Len(tape)
  BY <1>1, <1>2, <1>3, <1>5, AtMonotonic
<1>7. Len(vtape) = Len(handed) - v
  <2> HIDE DEF v
  <2> QED BY <1>2, <1>3, <1>4
<1>8. handed # tape
  BY <1>1, <1>2, <1>4, <1>6, <1>7
<1> QED BY <1>1, <1>3, <1>8 DEF TapeAccounted, Fresh, Taped

LEMMA TapeFinalize ==
  ASSUME TypeOK, TapeAccounted, Fresh, Finalize
  PROVE  TapeAccounted' /\ Fresh'
<1> DEFINE v == At(vseen, Len(vseen))
<1>1. /\ status = "verifying" /\ status' = IF vtape = <<>> THEN "Ok" ELSE "TranscriptNotEmpty"
      /\ handed' = handed /\ vtape' = vtape /\ vseen' = vseen /\ vch' = vch
      /\ tape' = tape /\ script' = script
  BY DEF Finalize, verifier, prover
<1>2. /\ Len(vseen) \in Nat /\ vtape \in Seq(Entries)
      /\ handed \in Seq(Entries) /\ Len(handed) \in Nat
  BY SequenceLen, LenProperties DEF TypeOK
<1>3. /\ v <= Len(handed) /\ Taped(vseen, handed) /\ vtape = SubSeq(handed, v + 1, Len(handed))
      /\ At(script, Len(script)) = Len(tape) /\ Taped(script, tape)
  BY DEF TapeAccounted, Taped
<1>4. v \in Nat
  BY <1>2, AtType
<1>5. Len(vtape) = Len(handed) - v
  <2> HIDE DEF v
  <2> QED BY <1>2, <1>3, <1>4
<1>6. vtape = <<>> <=> Len(vtape) = 0
  BY <1>2, EmptySeq
<1>7. vtape = <<>> <=> Len(handed) = v
  BY <1>2, <1>4, <1>5, <1>6
<1>8. handed = tape /\ status' = "TranscriptNotEmpty" => v < At(script, Len(script))
  BY <1>1, <1>2, <1>3, <1>4, <1>7
<1>9. status' = "Ok" /\ v = At(script, Len(script)) => Len(handed) = Len(tape)
  BY <1>1, <1>3, <1>7
<1> QED BY <1>1, <1>3, <1>8, <1>9 DEF TapeAccounted, Fresh, Taped

LEMMA TapeHanded ==
  ASSUME TypeOK, TapeAccounted, Fresh, IntoVerifier
  PROVE  TapeAccounted' /\ Fresh'
<1>1. /\ status' = "verifying" /\ vseen = <<>> /\ vseen' = <<>> /\ handed' \in Tapes /\ vtape' = handed'
      /\ script' = script /\ tape' = tape
  BY DEF IntoVerifier, prover, Fresh
<1>2. On(<<>>) = {}
  BY DEF On
<1>3. At(<<>>, 0) = 0 /\ Len(<<>>) = 0
  BY AtType
<1>4. handed' \in Seq(Entries) /\ Len(handed') \in Nat
  BY <1>1, TapesAreTapes, LenProperties DEF TypeOK
<1>5. vtape' = SubSeq(handed', 0 + 1, Len(handed'))
  BY <1>1, <1>4, SubSeqFull
<1> QED BY <1>1, <1>2, <1>3, <1>4, <1>5 DEF TapeAccounted, Fresh

LEMMA TapeNext ==
  ASSUME TypeOK, TapeAccounted, Fresh, [Next]_vars
  PROVE  TapeAccounted' /\ Fresh'
<1>1. CASE UNCHANGED vars
  BY <1>1 DEF vars, prover, verifier, TapeAccounted, Fresh
<1> QED BY <1>1, Moves, TapeProverMoves, TapeVerifierMoves, TapeRunsOut, TapeFinalize, TapeHanded

(* Nothing of a tape is skipped, read twice or read out of order, whatever   *)
(* the protocol: the prover's own tape is refused only to a verifier that    *)
(* leaves part of the protocol out, and a tape of another length is never    *)
(* accepted by one that leaves nothing out (transcript.rs, buffer.rs).       *)
THEOREM TapesAreAccountedFor == Spec => []TapeAccounted
<1>1. Init => TypeOK /\ TapeAccounted /\ Fresh
  BY TypeInit, TapeInit
<1>2. (TypeOK /\ TapeAccounted /\ Fresh) /\ [Next]_vars => (TypeOK /\ TapeAccounted /\ Fresh)'
  BY TypeNext, TapeNext
<1> QED BY <1>1, <1>2, PTL DEF Spec
------------------------------------------------------------------------------
(* Challenges bind what was observed before them, and the work a prover did  *)
(* is enough.                                                                *)
(* What a challenger has come to, seen without its block buffer. *)
Sponge(mode, stream, taken) ==
  [mode |-> mode, stream |-> stream, taken |-> taken]

SpongeOf(c) ==
  IF c.mode = "Observer" THEN Sponge("Observer", c.hasher \o c.buffer, 0)
                         ELSE Sponge("Sampler", c.hasher, c.index)

Start      == Sponge("Sampler", <<Digest(<<>>)>>, 0)
Opened(a)  == IF a.mode = "Observer" THEN a
              ELSE Sponge("Observer", Append(a.stream, IndexWord(a.taken)), 0)
Heed(a, b) == Sponge("Observer", Append(Opened(a).stream, Byte(b)), 0)
Refills(a) == a.mode = "Observer" \/ a.taken = OutLen
Squeeze(a) == IF Refills(a) THEN Sponge("Sampler", <<Digest(a.stream)>>, 1)
              ELSE Sponge("Sampler", a.stream, a.taken + 1)
OutOf(a)   == IF Refills(a) THEN [of |-> Digest(a.stream), at |-> 0]
              ELSE [of |-> a.stream[1], at |-> a.taken]

SpongeOK(a) ==
  /\ a = Sponge(a.mode, a.stream, a.taken) /\ a.mode \in {"Observer", "Sampler"}
  /\ IsSequence(a.stream)
  /\ ~Refills(a) => Len(a.stream) = 1

(* A sampler that has something left of its digest has fed that digest       *)
(* forward, and absorbed nothing else.                                       *)
Fed(c) == c.mode = "Sampler" /\ c.index # OutLen => c.hasher = c.buffer
------------------------------------------------------------------------------
LEMMA SpongeFields ==
  ASSUME NEW x, NEW s, NEW k
  PROVE  /\ Sponge(x, s, k).mode = x /\ Sponge(x, s, k).stream = s
         /\ Sponge(x, s, k).taken = k
BY DEF Sponge

LEMMA StartOK == SpongeOK(Start) /\ SpongeOf(Default) = Start /\ Fed(Default)
<1>1. IsSequence(<<Digest(<<>>)>>) /\ Len(<<Digest(<<>>)>>) = 1
  BY SingletonIsSequence
<1>2. SpongeOK(Start)
  BY <1>1, SpongeFields DEF Start, SpongeOK
<1>3. SpongeOf(Default) = Start /\ Fed(Default)
  BY DEF SpongeOf, Default, Start, Fed
<1> QED BY <1>2, <1>3

LEMMA OpenedOK ==
  ASSUME NEW a, SpongeOK(a)
  PROVE  SpongeOK(Opened(a)) /\ Opened(a).mode = "Observer"
<1>1. CASE a.mode = "Observer"
  BY <1>1 DEF Opened, SpongeOK
<1>2. CASE a.mode # "Observer"
  <2>1. IsSequence(Append(a.stream, IndexWord(a.taken)))
    BY AppendSequence DEF SpongeOK
  <2> QED BY <1>2, <2>1, SpongeFields DEF Opened, SpongeOK, Refills
<1> QED BY <1>1, <1>2

LEMMA HeedOK ==
  ASSUME NEW a, SpongeOK(a), NEW b
  PROVE  SpongeOK(Heed(a, b))
<1>1. IsSequence(Opened(a).stream)
  BY OpenedOK DEF SpongeOK
<1>2. IsSequence(Append(Opened(a).stream, Byte(b)))
  BY <1>1, AppendSequence
<1> QED BY <1>2, SpongeFields DEF Heed, SpongeOK, Refills

LEMMA SqueezeOK ==
  ASSUME NEW a, SpongeOK(a)
  PROVE  SpongeOK(Squeeze(a))
<1>1. IsSequence(<<Digest(a.stream)>>) /\ Len(<<Digest(a.stream)>>) = 1
  BY SingletonIsSequence
<1> QED BY <1>1, SpongeFields DEF Squeeze, SpongeOK, Refills
------------------------------------------------------------------------------
(* Two that took the same operations, whatever they observed. *)
Twins(a, b) == SpongeOK(a) /\ SpongeOK(b) /\ a.mode = b.mode /\ a.taken = b.taken

LEMMA OpenedTwins ==
  ASSUME NEW a, NEW b, Twins(a, b)
  PROVE  /\ Twins(Opened(a), Opened(b))
         /\ Opened(a).stream = Opened(b).stream <=> a.stream = b.stream
<1>1. SpongeOK(Opened(a)) /\ SpongeOK(Opened(b))
  BY OpenedOK DEF Twins
<1>2. CASE a.mode = "Observer"
  BY <1>1, <1>2 DEF Opened, Twins
<1>3. CASE a.mode # "Observer"
  <2> DEFINE x == IndexWord(a.taken)
             p == Append(a.stream, x)
             q == Append(b.stream, x)
  <2>1. IsSequence(a.stream) /\ IsSequence(b.stream)
    BY DEF Twins, SpongeOK
  <2>2. Opened(a) = Sponge("Observer", p, 0) /\ Opened(b) = Sponge("Observer", q, 0)
    BY <1>3 DEF Opened, Twins
  <2> HIDE DEF x
  <2>3. p = q <=> a.stream = b.stream
    BY <2>1, AppendSame
  <2> HIDE DEF p, q
  <2>4. /\ Opened(a).stream = p /\ Opened(b).stream = q
        /\ Opened(a).mode = Opened(b).mode /\ Opened(a).taken = Opened(b).taken
    BY <2>2, SpongeFields
  <2>5. Twins(Opened(a), Opened(b))
    BY <1>1, <2>4 DEF Twins
  <2> QED BY <2>3, <2>4, <2>5
<1> QED BY <1>2, <1>3

LEMMA HeedTwins ==
  ASSUME NEW a, NEW b, Twins(a, b), NEW x, NEW y
  PROVE  /\ Twins(Heed(a, x), Heed(b, y))
         /\ Heed(a, x).stream = Heed(b, y).stream <=> a.stream = b.stream /\ x = y
<1>1. SpongeOK(Heed(a, x)) /\ SpongeOK(Heed(b, y))
  BY HeedOK DEF Twins
<1>2. IsSequence(Opened(a).stream) /\ IsSequence(Opened(b).stream)
  BY OpenedTwins DEF Twins, SpongeOK
<1>3. Byte(x) = Byte(y) <=> x = y
  BY DEF Byte
<1> DEFINE p == Append(Opened(a).stream, Byte(x))
           q == Append(Opened(b).stream, Byte(y))
<1>4. p = q <=> Opened(a).stream = Opened(b).stream /\ Byte(x) = Byte(y)
  BY <1>2, AppendSame, SMTT(30)
<1>5. Opened(a).stream = Opened(b).stream <=> a.stream = b.stream
  BY OpenedTwins
<1>6. Heed(a, x) = Sponge("Observer", p, 0) /\ Heed(b, y) = Sponge("Observer", q, 0)
  BY DEF Heed
<1> HIDE DEF p, q
<1>9. /\ Heed(a, x).stream = p /\ Heed(b, y).stream = q
      /\ Heed(a, x).mode = Heed(b, y).mode /\ Heed(a, x).taken = Heed(b, y).taken
  BY <1>6, SpongeFields
<1>7. Twins(Heed(a, x), Heed(b, y))
  BY <1>1, <1>9 DEF Twins
<1>8. Heed(a, x).stream = Heed(b, y).stream <=> a.stream = b.stream /\ x = y
  BY <1>3, <1>4, <1>5, <1>9
<1> QED BY <1>7, <1>8

LEMMA SingleSame ==
  ASSUME NEW s, NEW t, IsSequence(s), IsSequence(t), Len(s) = 1, Len(t) = 1
  PROVE  s[1] = t[1] <=> s = t
<1>1. PICK T : s \in Seq(T) /\ t \in Seq(T)
  BY CommonSet
<1> QED BY <1>1

LEMMA SqueezeTwins ==
  ASSUME NEW a, NEW b, Twins(a, b)
  PROVE  /\ Twins(Squeeze(a), Squeeze(b))
         /\ Squeeze(a).stream = Squeeze(b).stream <=> a.stream = b.stream
         /\ OutOf(a) = OutOf(b) <=> a.stream = b.stream
<1>1. SpongeOK(Squeeze(a)) /\ SpongeOK(Squeeze(b)) /\ (Refills(a) <=> Refills(b))
  BY SqueezeOK DEF Twins, Refills
<1>2. Digest(a.stream) = Digest(b.stream) <=> a.stream = b.stream
  BY DEF Digest
<1>3. CASE Refills(a)
  <2> DEFINE x == Digest(a.stream)
             y == Digest(b.stream)
  <2>1. Squeeze(a) = Sponge("Sampler", <<x>>, 1) /\ Squeeze(b) = Sponge("Sampler", <<y>>, 1)
    BY <1>1, <1>3 DEF Squeeze
  <2>2. OutOf(a) = [of |-> x, at |-> 0] /\ OutOf(b) = [of |-> y, at |-> 0]
    BY <1>1, <1>3 DEF OutOf
  <2> HIDE DEF x, y
  <2>3. <<x>> = <<y>> <=> x = y
    OBVIOUS
  <2>4. OutOf(a) = OutOf(b) <=> x = y
    BY <2>2
  <2> QED BY <1>1, <1>2, <2>1, <2>3, <2>4, SpongeFields DEF Twins, x, y
<1>4. CASE ~Refills(a)
  <2>1. /\ Squeeze(a) = Sponge("Sampler", a.stream, a.taken + 1)
        /\ Squeeze(b) = Sponge("Sampler", b.stream, b.taken + 1)
        /\ OutOf(a) = [of |-> a.stream[1], at |-> a.taken]
        /\ OutOf(b) = [of |-> b.stream[1], at |-> b.taken]
    BY <1>1, <1>4 DEF Squeeze, OutOf
  <2>2. a.stream[1] = b.stream[1] <=> a.stream = b.stream
    BY <1>1, <1>4, SingleSame DEF Twins, SpongeOK
  <2>3. OutOf(a) = OutOf(b) <=> a.stream[1] = b.stream[1]
    BY <2>1 DEF Twins
  <2> QED BY <1>1, <2>1, <2>2, <2>3, SpongeFields DEF Twins
<1> QED BY <1>3, <1>4
------------------------------------------------------------------------------
(* One event, and what it says about the challenge it leaves. *)
Stepped(a, e) ==
  IF e.op \in {"message", "observe"} THEN Heed(a, e.val)
  ELSE IF e.op = "open" THEN Opened(a)
  ELSE IF e.op = "sample" THEN Squeeze(a)
  ELSE IF e.op = "grind" THEN Squeeze(Heed(a, e.val))
  ELSE a

Answered(a, e) ==
  /\ e.op = "sample" => e.out = OutOf(a)
  /\ e.op = "grind" => e.out = OutOf(Heed(a, e.val))

LEMMA StepTwins ==
  ASSUME NEW a, NEW b, Twins(a, b), NEW e, NEW f, e.op \in Ops, e.op = f.op,
         e.op \in {"open", "sample"} => e.val = f.val
  PROVE  /\ Twins(Stepped(a, e), Stepped(b, f))
         /\ Stepped(a, e).stream = Stepped(b, f).stream
              <=> a.stream = b.stream /\ (Bound(e) => e.val = f.val)
         /\ Answered(a, e) /\ Answered(b, f) /\ e.op \in {"sample", "grind"} =>
              (e.out = f.out <=> a.stream = b.stream /\ e.val = f.val)
<1>1. CASE e.op \in {"message", "observe"}
  <2>1. Stepped(a, e) = Heed(a, e.val) /\ Stepped(b, f) = Heed(b, f.val) /\ Bound(e)
    BY <1>1 DEF Stepped, Bound
  <2> QED BY <1>1, <2>1, HeedTwins
<1>2. CASE e.op = "open"
  <2>1. Stepped(a, e) = Opened(a) /\ Stepped(b, f) = Opened(b)
    BY <1>2 DEF Stepped
  <2> QED BY <1>2, <2>1, OpenedTwins
<1>3. CASE e.op = "sample"
  <2>1. Stepped(a, e) = Squeeze(a) /\ Stepped(b, f) = Squeeze(b)
    BY <1>3 DEF Stepped
  <2>2. Answered(a, e) /\ Answered(b, f) => e.out = OutOf(a) /\ f.out = OutOf(b)
    BY <1>3 DEF Answered
  <2> QED BY <1>3, <2>1, <2>2, SqueezeTwins
<1>4. CASE e.op = "grind"
  <2> DEFINE x == Heed(a, e.val)
             y == Heed(b, f.val)
  <2>1. Stepped(a, e) = Squeeze(x) /\ Stepped(b, f) = Squeeze(y) /\ Bound(e)
    BY <1>4 DEF Stepped, Bound
  <2>2. Answered(a, e) /\ Answered(b, f) => e.out = OutOf(x) /\ f.out = OutOf(y)
    BY <1>4 DEF Answered
  <2>3. Twins(x, y) /\ (x.stream = y.stream <=> a.stream = b.stream /\ e.val = f.val)
    BY HeedTwins
  <2> HIDE DEF x, y
  <2> QED BY <1>4, <2>1, <2>2, <2>3, SqueezeTwins
<1>5. CASE e.op = "decommitment"
  <2>1. Stepped(a, e) = a /\ Stepped(b, f) = b /\ ~Bound(e)
    BY <1>5 DEF Stepped, Bound
  <2> QED BY <1>5, <2>1
<1> QED BY <1>1, <1>2, <1>3, <1>4, <1>5 DEF Ops

(* h is what a challenger came to event by event. *)
Replay(h, events) ==
  /\ h[0] = Start
  /\ \A i \in 0..Len(events) - 1 : /\ h[i + 1] = Stepped(h[i], events[i + 1])
                                   /\ Answered(h[i], events[i + 1])

Follows(events, c) == \E h : Replay(h, events) /\ h[Len(events)] = SpongeOf(c)

(* What was heard of the first n events is the same exactly when every event *)
(* that binds has the same value.                                            *)
Agree(s, t, n) == \A i \in 1..n : Bound(s[i]) => s[i].val = t[i].val

LEMMA HeardSame ==
  ASSUME NEW s, NEW t, NEW n, \A i \in 1..n : s[i].op = t[i].op
  PROVE  Heard(s, n) = Heard(t, n) <=> Agree(s, t, n)
<1> DEFINE S == {j \in 1..n : Bound(s[j])}
           f == Heard(s, n)
           g == Heard(t, n)
<1>1. S = {j \in 1..n : Bound(t[j])}
  BY DEF Bound
<1>2. /\ f = [i \in S |-> <<s[i].op, s[i].val>>]
      /\ g = [i \in S |-> <<t[i].op, t[i].val>>]
  BY <1>1 DEF Heard
<1>3. \A i \in S : s[i].op = t[i].op
  OBVIOUS
<1>4. f = g <=> \A i \in S : s[i].val = t[i].val
  <2> HIDE DEF S, f, g
  <2>1. ASSUME f = g, NEW i \in S PROVE s[i].val = t[i].val
    <3>1. f[i] = <<s[i].op, s[i].val>> /\ g[i] = <<t[i].op, t[i].val>>
      BY <1>2
    <3> QED BY <2>1, <3>1
  <2>2. ASSUME \A i \in S : s[i].val = t[i].val PROVE f = g
    BY <1>2, <1>3, <2>2
  <2> QED BY <2>1, <2>2
<1>5. Agree(s, t, n) <=> \A i \in S : s[i].val = t[i].val
  BY DEF Agree
<1> QED BY <1>4, <1>5

(* Two replays of the same operations part exactly where the events do. *)
LEMMA ReplaysAlike ==
  ASSUME NEW s, NEW t, NEW g, NEW h, IsSequence(s), IsSequence(t), Len(t) <= Len(s),
         Replay(g, s), Replay(h, t),
         \A i \in 1..Len(t) : /\ t[i].op \in Ops /\ t[i].op = s[i].op
                              /\ t[i].op \in {"open", "sample"} => t[i].val = s[i].val
  PROVE  \A n \in 0..Len(t) : Twins(h[n], g[n]) /\ (h[n].stream = g[n].stream <=> Agree(t, s, n))
<1> DEFINE P(n) == Twins(h[n], g[n]) /\ (h[n].stream = g[n].stream <=> Agree(t, s, n))
           T == {n \in 0..Len(t) : P(n)}
<1>1. Len(t) \in Nat /\ Len(s) \in Nat
  BY SequenceLen
<1>2. 0 \in T
  <2>1. Twins(h[0], g[0]) /\ h[0].stream = g[0].stream
    BY StartOK DEF Replay, Twins
  <2>2. Agree(t, s, 0)
    BY DEF Agree
  <2> QED BY <1>1, <2>1, <2>2
<1>3. ASSUME NEW n \in Nat, n < Len(t), n \in T PROVE n + 1 \in T
  <2>1. n \in 0..Len(t) - 1 /\ n \in 0..Len(s) - 1 /\ n + 1 \in 1..Len(t) /\ n + 1 \in 0..Len(t)
    BY <1>1, <1>3
  <2>2. h[n + 1] = Stepped(h[n], t[n + 1]) /\ g[n + 1] = Stepped(g[n], s[n + 1])
    BY <2>1 DEF Replay
  <2>3. /\ Twins(h[n + 1], g[n + 1])
        /\ h[n + 1].stream = g[n + 1].stream
             <=> h[n].stream = g[n].stream /\ (Bound(t[n + 1]) => t[n + 1].val = s[n + 1].val)
    <3>1. Twins(h[n], g[n])
      BY <1>3
    <3>2. /\ t[n + 1].op \in Ops /\ t[n + 1].op = s[n + 1].op
          /\ t[n + 1].op \in {"open", "sample"} => t[n + 1].val = s[n + 1].val
      BY <2>1
    <3> QED BY <2>2, <3>1, <3>2, StepTwins
  <2>4. Agree(t, s, n + 1) <=> Agree(t, s, n) /\ (Bound(t[n + 1]) => t[n + 1].val = s[n + 1].val)
    <3>1. \A i \in 1..n + 1 : i \in 1..n \/ i = n + 1
      BY <1>3
    <3>2. n + 1 \in 1..n + 1 /\ \A i \in 1..n : i \in 1..n + 1
      BY <1>3
    <3> QED BY <3>1, <3>2 DEF Agree
  <2> QED BY <1>3, <2>1, <2>3, <2>4
<1>4. \A n \in 0..Len(t) : n \in T
  <2> HIDE DEF T
  <2> QED BY <1>1, <1>2, <1>3, UpwardClosed
<1> QED BY <1>4
------------------------------------------------------------------------------
(* The challenger's calls are the steps of that sponge: whatever the block   *)
(* buffer holds, however a run of bytes is cut.                              *)
LEMMA SpongeOfOK ==
  ASSUME NEW c, ChallengerOK(c), Fed(c)
  PROVE  SpongeOK(SpongeOf(c))
<1>1. CASE c.mode = "Observer"
  <2>1. IsSequence(c.hasher \o c.buffer)
    BY ConcatSequence DEF ChallengerOK
  <2> DEFINE p == c.hasher \o c.buffer
  <2>2. SpongeOf(c) = Sponge("Observer", p, 0)
    BY <1>1 DEF SpongeOf
  <2> HIDE DEF p
  <2> QED BY <2>1, <2>2, SpongeFields DEF SpongeOK, Refills, p
<1>2. CASE c.mode = "Sampler"
  <2>1. SpongeOf(c) = Sponge("Sampler", c.hasher, c.index)
    BY <1>2 DEF SpongeOf
  <2>2. c.index # OutLen => Len(c.hasher) = 1
    BY <1>2 DEF Fed, ChallengerOK
  <2>3. IsSequence(c.hasher)
    BY DEF ChallengerOK
  <2> QED BY <2>1, <2>2, <2>3, SpongeFields DEF SpongeOK, Refills
<1> QED BY <1>1, <1>2 DEF ChallengerOK

LEMMA ObserverIsOpened ==
  ASSUME NEW c, ChallengerOK(c)
  PROVE  SpongeOf(Observer(c)) = Opened(SpongeOf(c)) /\ Fed(Observer(c))
<1>1. CASE c.mode = "Observer"
  <2>1. Observer(c) = c
    BY <1>1, ObserverOK
  <2>2. SpongeOf(c).mode = "Observer"
    BY <1>1, SpongeFields DEF SpongeOf
  <2> QED BY <1>1, <2>1, <2>2 DEF Opened, Fed
<1>2. CASE c.mode = "Sampler"
  <2> DEFINE o == Observer(c)
             p == Append(c.hasher, IndexWord(c.index))
  <2>1. o.mode = "Observer" /\ o.buffer = <<>> /\ o.hasher = p
    BY <1>2, ObserverOK
  <2>2. IsSequence(p)
    BY AppendSequence DEF ChallengerOK
  <2>3. Opened(SpongeOf(c)) = Sponge("Observer", p, 0)
    <3>1. SpongeOf(c) = Sponge("Sampler", c.hasher, c.index)
      BY <1>2 DEF SpongeOf
    <3>2. /\ SpongeOf(c).mode = "Sampler" /\ SpongeOf(c).stream = c.hasher
          /\ SpongeOf(c).taken = c.index
      BY <3>1, SpongeFields
    <3>3. SpongeOf(c).mode # "Observer"
      BY <3>2
    <3>4. Opened(SpongeOf(c)) = Sponge("Observer", Append(SpongeOf(c).stream, IndexWord(SpongeOf(c).taken)), 0)
      BY <3>3 DEF Opened
    <3> QED BY <3>2, <3>4
  <2> HIDE DEF o, p
  <2>4. p \o <<>> = p
    BY <2>2, ConcatEmptySeq DEF IsSequence
  <2>5. SpongeOf(o) = Sponge("Observer", p, 0)
    BY <2>1, <2>4 DEF SpongeOf
  <2> QED BY <2>1, <2>3, <2>5 DEF o, Fed
<1> QED BY <1>1, <1>2 DEF ChallengerOK

LEMMA AbsorbedIsHeeded ==
  ASSUME NEW c, ChallengerOK(c), NEW bs \in Seq(Entries)
  PROVE  /\ SpongeOf(Absorbed(c, bs)) = Sponge("Observer", Opened(SpongeOf(c)).stream \o Words(bs), 0)
         /\ Fed(Absorbed(c, bs))
<1> DEFINE d == Absorbed(c, bs)
           o == Observer(c)
<1>1. IsSequence(Words(bs))
  BY EntriesAreSequences
<1>2. d.mode = "Observer" /\ d.hasher \o d.buffer = (o.hasher \o o.buffer) \o Words(bs)
  BY <1>1, WriteOK DEF Absorbed
<1>3. o.mode = "Observer"
  BY ObserverOK
<1> HIDE DEF d
<1>4. Opened(SpongeOf(c)).stream = o.hasher \o o.buffer
  <2>1. Opened(SpongeOf(c)) = SpongeOf(o)
    BY ObserverIsOpened
  <2> HIDE DEF o
  <2> DEFINE p == o.hasher \o o.buffer
  <2>2. SpongeOf(o) = Sponge("Observer", p, 0)
    BY <1>3 DEF SpongeOf
  <2> HIDE DEF p
  <2>3. SpongeOf(o).stream = p
    BY <2>2, SpongeFields
  <2> QED BY <2>1, <2>3 DEF p
<1> HIDE DEF o
<1> QED BY <1>2, <1>4 DEF SpongeOf, Fed, d

LEMMA SampledIsSqueezed ==
  ASSUME NEW c, ChallengerOK(c), Fed(c)
  PROVE  LET d == Draw(Sampler(c)) IN
         SpongeOf(d.c) = Squeeze(SpongeOf(c)) /\ d.out = OutOf(SpongeOf(c)) /\ Fed(d.c)
<1> DEFINE r == Sampler(c)
           d == Draw(r)
           a == SpongeOf(c)
<1>1. ChallengerOK(r) /\ r.mode = "Sampler"
  BY SamplerOK
<1> HIDE DEF a
<1>2. r.hasher = a.stream /\ (r.index = OutLen <=> Refills(a))
      /\ (~Refills(a) => r = c /\ a.taken = c.index)
  <2>1. CASE c.mode = "Observer"
    <3> DEFINE p == c.hasher \o c.buffer
    <3>1. r.index = OutLen /\ r.hasher = p
      BY <2>1, SamplerOK
    <3>2. a = Sponge("Observer", p, 0)
      BY <2>1 DEF SpongeOf, a
    <3> HIDE DEF p, r
    <3> QED BY <3>1, <3>2, SpongeFields DEF Refills
  <2>2. CASE c.mode = "Sampler"
    <3>1. r = c
      BY <2>2, SamplerOK
    <3>2. a = Sponge("Sampler", c.hasher, c.index)
      BY <2>2 DEF SpongeOf, a
    <3> HIDE DEF r
    <3> QED BY <3>1, <3>2, SpongeFields DEF Refills
  <2> QED BY <2>1, <2>2 DEF ChallengerOK
<1> HIDE DEF r
<1>5. /\ d.c.mode = "Sampler"
      /\ r.index = OutLen => /\ d.c.buffer = <<Digest(r.hasher)>>
                             /\ d.c.hasher = <<Digest(r.hasher)>>
                             /\ d.c.index = 1
                             /\ d.out = [of |-> Digest(r.hasher), at |-> 0]
      /\ r.index # OutLen => /\ d.c = [r EXCEPT !.index = @ + 1]
                             /\ d.out = [of |-> r.buffer[1], at |-> r.index]
  BY ONLY <1>1, DrawOK
<1> HIDE DEF d
<1>3. CASE Refills(a)
  <2> DEFINE g == Digest(a.stream)
             x == <<g>>
  <2>1. /\ d.c.mode = "Sampler" /\ d.c.buffer = x /\ d.c.hasher = x /\ d.c.index = 1
        /\ d.out = [of |-> g, at |-> 0]
    BY <1>2, <1>3, <1>5
  <2>2. Squeeze(a) = Sponge("Sampler", x, 1) /\ OutOf(a) = [of |-> g, at |-> 0]
    BY <1>3 DEF Squeeze, OutOf
  <2> HIDE DEF x, g
  <2> QED BY <2>1, <2>2 DEF SpongeOf, Fed, a, d, r
<1>4. CASE ~Refills(a)
  <2>1. r.index # OutLen /\ r = c /\ c.mode = "Sampler"
    BY <1>1, <1>2, <1>4
  <2>2. d.c = [c EXCEPT !.index = @ + 1] /\ d.out = [of |-> c.buffer[1], at |-> c.index]
    BY <1>5, <2>1
  <2>3. /\ d.c.mode = "Sampler" /\ d.c.hasher = c.hasher /\ d.c.buffer = c.buffer
        /\ d.c.index = c.index + 1 /\ c.hasher = c.buffer
    BY <2>1, <2>2 DEF ChallengerOK, Fed
  <2>4. Squeeze(a) = Sponge("Sampler", c.hasher, c.index + 1)
        /\ OutOf(a) = [of |-> c.hasher[1], at |-> c.index]
    <3>1. a.stream = c.hasher /\ a.taken = c.index
      BY <1>2, <1>4, <2>1
    <3>2. /\ Squeeze(a) = Sponge("Sampler", a.stream, a.taken + 1)
          /\ OutOf(a) = [of |-> a.stream[1], at |-> a.taken]
      BY <1>4 DEF Squeeze, OutOf
    <3> QED BY <3>1, <3>2
  <2> QED BY <2>2, <2>3, <2>4 DEF SpongeOf, Fed, a, d, r
<1> QED BY <1>3, <1>4 DEF a, d, r
------------------------------------------------------------------------------
(* A replay of the protocol so far, continued by what a call adds to it. *)
Resumes(g, m, n, t) ==
  \A j \in 0..n - 1 : /\ g[j + 1] = Stepped(g[j], t[m + (j + 1)])
                      /\ Answered(g[j], t[m + (j + 1)])

LEMMA ReplayGrows ==
  ASSUME NEW s, IsSequence(s), NEW n \in Nat, NEW t, Extends(t, s, n), NEW h, Replay(h, s),
         NEW g, g[0] = h[Len(s)], Resumes(g, Len(s), n, t)
  PROVE  \E k : Replay(k, t) /\ k[Len(t)] = g[n]
<1> DEFINE m == Len(s)
           k == [i \in 0..m + n |-> IF i <= m THEN h[i] ELSE g[i - m]]
<1>1. m \in Nat /\ Len(t) = m + n /\ \A i \in 1..m : t[i] = s[i]
  BY SequenceLen DEF Extends
<1> HIDE DEF m
<1>2. \A i \in 0..m : k[i] = h[i]
  BY <1>1
<1>3. \A j \in 0..n : k[m + j] = g[j]
  <2> TAKE j \in 0..n
  <2>1. CASE j = 0
    BY <1>1, <2>1 DEF m
  <2>2. CASE j # 0
    <3>1. m + j \in 0..m + n /\ ~(m + j <= m) /\ (m + j) - m = j
      BY <1>1, <2>2
    <3> QED BY <3>1
  <2> QED BY <2>1, <2>2
<1> HIDE DEF k
<1>4. k[0] = Start
  BY <1>1, <1>2 DEF Replay
<1>5. ASSUME NEW i \in 0..Len(t) - 1
      PROVE  k[i + 1] = Stepped(k[i], t[i + 1]) /\ Answered(k[i], t[i + 1])
  <2>1. CASE i < m
    <3>1. i \in 0..m - 1 /\ i \in 0..m /\ i + 1 \in 0..m /\ i + 1 \in 1..m
      BY <1>1, <2>1
    <3>2. h[i + 1] = Stepped(h[i], s[i + 1]) /\ Answered(h[i], s[i + 1])
      BY <3>1 DEF Replay, m
    <3> QED BY <1>1, <1>2, <3>1, <3>2
  <2>2. CASE ~(i < m)
    <3> DEFINE j == i - m
    <3>1. j \in 0..n - 1 /\ j \in 0..n /\ j + 1 \in 0..n /\ i = m + j /\ i + 1 = m + (j + 1)
      BY <1>1, <2>2
    <3> HIDE DEF j
    <3>2. g[j + 1] = Stepped(g[j], t[m + (j + 1)]) /\ Answered(g[j], t[m + (j + 1)])
      BY <3>1 DEF m, Resumes
    <3> QED BY <1>3, <3>1, <3>2
  <2> QED BY <2>1, <2>2
<1>6. k[Len(t)] = g[n]
  <2>1. n \in 0..n
    OBVIOUS
  <2> QED BY <1>1, <1>3, <2>1
<1> QED BY <1>4, <1>5, <1>6 DEF Replay

(* A run of observed bytes, heeded one at a time. *)
LEMMA RunHeeded ==
  ASSUME NEW a, SpongeOK(a), NEW bs \in Seq(Entries), NEW j \in 0..Len(bs) - 1
  PROVE  LET o == Opened(a).stream
             w == Words(bs)
         IN  /\ o \o SubSeq(w, 1, 0) = o /\ o \o SubSeq(w, 1, Len(bs)) = o \o w
             /\ Append(o \o SubSeq(w, 1, j), Byte(bs[j + 1])) = o \o SubSeq(w, 1, j + 1)
<1> DEFINE o == Opened(a).stream
           w == Words(bs)
<1>1. IsSequence(w) /\ Len(w) = Len(bs) /\ Len(bs) \in Nat /\ \A i \in 1..Len(bs) : w[i] = Byte(bs[i])
  BY EntriesAreSequences, LenProperties
<1>2. IsSequence(o)
  BY OpenedOK DEF SpongeOK
<1> HIDE DEF o, w
<1>3. PICK T : o \in Seq(T) /\ w \in Seq(T)
  BY <1>1, <1>2, CommonSet
<1>4. w[j + 1] = Byte(bs[j + 1]) /\ j + 1 \in 1..Len(w) /\ j \in Nat
  BY <1>1
<1>5. SubSeq(w, 1, 0) = <<>> /\ SubSeq(w, 1, Len(w)) = w
  BY <1>3, SubSeqFull, SubSeqEmpty
<1>6. o \o <<>> = o
  BY <1>3, ConcatEmptySeq
<1>7. SubSeq(w, 1, j) \in Seq(T) /\ SubSeq(w, 1, j + 1) = Append(SubSeq(w, 1, j), w[j + 1])
  <2>1. \A i \in 1..j : w[i] \in T
    BY <1>3, <1>4, ElementOfSeq
  <2>2. 1 \in Int /\ j \in Int
    BY <1>4
  <2>3. SubSeq(w, 1, j) \in Seq(T)
    BY <2>1, <2>2, SubSeqProperties
  <2>4. 1 \in 1..Len(w) /\ j + 1 \in 1..Len(w)
    BY <1>4
  <2>5. SubSeq(w, 1, j + 1) = Append(SubSeq(w, 1, j), w[j + 1])
    BY <1>3, <1>4
  <2> QED BY <2>3, <2>5
<1>8. w[j + 1] \in T
  BY <1>3, <1>4, ElementOfSeq
<1>9. ASSUME NEW v \in Seq(T), NEW x \in T PROVE Append(o \o v, x) = o \o Append(v, x)
  <2>1. <<x>> \in Seq(T) /\ o \o v \in Seq(T)
    BY <1>3, ConcatProperties
  <2>2. Append(o \o v, x) = (o \o v) \o <<x>> /\ Append(v, x) = v \o <<x>>
    BY ONLY <2>1, v \in Seq(T), x \in T, AppendIsConcat
  <2>3. (o \o v) \o <<x>> = o \o (v \o <<x>>)
    BY ONLY <1>3, <2>1, v \in Seq(T), ConcatAssociative
  <2> QED BY <2>2, <2>3
<1> QED BY <1>1, <1>4, <1>5, <1>6, <1>7, <1>8, <1>9 DEF o, w

(* Whatever a call does to a challenger, the replay of its events does. *)
LEMMA FollowsMore ==
  ASSUME NEW op, NEW bs, NEW c, NEW d, NEW s, NEW t, IsSequence(s), ChallengerOK(c), Fed(c),
         Follows(s, c), Plays(op, bs, c, d, s, t)
  PROVE  Follows(t, d) /\ Fed(d)
<1> DEFINE m == Len(s)
           n == Len(bs)
           a == SpongeOf(c)
           e == t[m + 1]
<1>1. /\ bs \in Seq(Entries) /\ n \in Nat /\ n > 0 /\ Extends(t, s, n)
      /\ \A i \in 1..n : t[m + i].op = op /\ t[m + i].val = bs[i]
  BY LenProperties DEF Plays, Continues
<1>2. PICK h : Replay(h, s) /\ h[m] = a
  BY DEF Follows
<1>3. SpongeOK(a)
  BY SpongeOfOK
<1>4. 1 \in 1..n /\ e.op = op /\ e.val = bs[1]
  BY <1>1
<1>5. ASSUME NEW g, g[0] = a,
             \A j \in 0..n - 1 : g[j + 1] = Stepped(g[j], t[m + (j + 1)]) /\ Answered(g[j], t[m + (j + 1)]),
             g[n] = SpongeOf(d)
      PROVE  Follows(t, d)
  <2> HIDE DEF a, n
  <2>0. g[0] = h[Len(s)] /\ Resumes(g, Len(s), n, t)
    BY <1>2, <1>5 DEF Resumes
  <2>1. \E k : Replay(k, t) /\ k[Len(t)] = g[n]
    <3>1. n \in Nat /\ Extends(t, s, n) /\ Replay(h, s) /\ IsSequence(s)
      BY <1>1, <1>2
    <3> QED BY ONLY <2>0, <3>1, ReplayGrows
  <2> QED BY <1>5, <2>1 DEF Follows
<1>6. ASSUME n = 1, SpongeOf(d) = Stepped(a, e), Answered(a, e)
      PROVE  Follows(t, d)
  <2> DEFINE g == [j \in 0..1 |-> IF j = 0 THEN a ELSE SpongeOf(d)]
  <2>1. g[0] = a /\ g[1] = SpongeOf(d)
    OBVIOUS
  <2> HIDE DEF g, a
  <2>2. \A j \in 0..n - 1 : j = 0 /\ m + (j + 1) = m + 1 /\ j + 1 = 1
    BY <1>6
  <2>3. \A j \in 0..n - 1 : g[j + 1] = Stepped(g[j], t[m + (j + 1)]) /\ Answered(g[j], t[m + (j + 1)])
    BY <1>6, <2>1, <2>2
  <2>4. g[n] = SpongeOf(d)
    BY <1>6, <2>1
  <2> QED BY <1>5, <2>1, <2>3, <2>4
<1>7. CASE op \in {"message", "observe"}
  <2> DEFINE o == Opened(a).stream
             w == Words(bs)
             g == [j \in 0..n |-> IF j = 0 THEN a ELSE Sponge("Observer", o \o SubSeq(w, 1, j), 0)]
  <2>1. d = Absorbed(c, bs)
    BY <1>7 DEF Plays
  <2>2. SpongeOf(d) = Sponge("Observer", o \o w, 0) /\ Fed(d)
    BY <1>1, <2>1, AbsorbedIsHeeded
  <2>3. /\ g[0] = a
        /\ \A j \in 1..n : g[j] = Sponge("Observer", o \o SubSeq(w, 1, j), 0)
    BY <1>1
  <2>4. /\ \A j \in 0..n - 1 : Append(o \o SubSeq(w, 1, j), Byte(bs[j + 1])) = o \o SubSeq(w, 1, j + 1)
        /\ o \o SubSeq(w, 1, 0) = o /\ o \o SubSeq(w, 1, n) = o \o w
    <3>1. 0 \in 0..n - 1
      BY <1>1
    <3> HIDE DEF a
    <3> QED BY <1>1, <1>3, <3>1, RunHeeded
  <2> HIDE DEF o, w, g, a
  <2>5. \A j \in 0..n - 1 : Opened(g[j]).stream = o \o SubSeq(w, 1, j)
    <3> TAKE j \in 0..n - 1
    <3>1. CASE j = 0
      BY <2>3, <2>4, <3>1 DEF o
    <3>2. CASE j # 0
      <4> DEFINE p == o \o SubSeq(w, 1, j)
      <4>1. g[j] = Sponge("Observer", p, 0)
        BY <1>1, <2>3, <3>2
      <4> HIDE DEF p
      <4>2. g[j].mode = "Observer" /\ g[j].stream = p
        BY <4>1, SpongeFields
      <4>3. Opened(g[j]) = g[j]
        BY <4>2 DEF Opened
      <4> QED BY <4>2, <4>3 DEF p
    <3> QED BY <3>1, <3>2
  <2>6. ASSUME NEW j \in 0..n - 1
        PROVE  g[j + 1] = Stepped(g[j], t[m + (j + 1)]) /\ Answered(g[j], t[m + (j + 1)])
    <3>1. j + 1 \in 1..n
      BY <1>1
    <3>2. t[m + (j + 1)].op = op /\ t[m + (j + 1)].val = bs[j + 1]
      BY <1>1, <3>1
    <3>3. Stepped(g[j], t[m + (j + 1)]) = Heed(g[j], bs[j + 1])
      BY <1>7, <3>2 DEF Stepped
    <3>4. Heed(g[j], bs[j + 1]) = Sponge("Observer", o \o SubSeq(w, 1, j + 1), 0)
      BY <2>4, <2>5 DEF Heed
    <3>5. Answered(g[j], t[m + (j + 1)])
      BY <1>7, <3>2 DEF Answered
    <3> QED BY <2>3, <3>1, <3>3, <3>4, <3>5
  <2>7. g[n] = SpongeOf(d)
    <3>1. n \in 1..n
      BY <1>1
    <3> QED BY <2>2, <2>3, <2>4, <3>1
  <2>8. g[0] = a
    BY <2>3
  <2> QED BY <1>5, <2>2, <2>6, <2>7, <2>8
<1>8. CASE op = "decommitment"
  <2> DEFINE g == [j \in 0..n |-> a]
  <2>1. d = c
    BY <1>8 DEF Plays
  <2>2. \A j \in 0..n : g[j] = a
    OBVIOUS
  <2> HIDE DEF g, a
  <2>3. ASSUME NEW j \in 0..n - 1
        PROVE  g[j + 1] = Stepped(g[j], t[m + (j + 1)]) /\ Answered(g[j], t[m + (j + 1)])
    <3>1. j + 1 \in 1..n /\ j + 1 \in 0..n /\ j \in 0..n
      BY <1>1
    <3>2. t[m + (j + 1)].op = "decommitment"
      BY <1>1, <1>8, <3>1
    <3>3. Stepped(a, t[m + (j + 1)]) = a /\ Answered(a, t[m + (j + 1)])
      BY <3>2 DEF Stepped, Answered
    <3> QED BY <2>2, <3>1, <3>3
  <2>4. g[0] = a /\ g[n] = SpongeOf(d)
    BY <1>1, <2>1, <2>2 DEF a
  <2> QED BY <1>5, <2>1, <2>3, <2>4
<1>9. CASE op = "open"
  <2>1. n = 1 /\ d = Observer(c)
    BY <1>9 DEF Plays
  <2>2. SpongeOf(d) = Opened(a) /\ Fed(d)
    BY <2>1, ObserverIsOpened
  <2>3. Stepped(a, e) = Opened(a) /\ Answered(a, e)
    BY <1>4, <1>9 DEF Stepped, Answered
  <2> HIDE DEF a, e, n
  <2> QED BY <1>6, <2>1, <2>2, <2>3
<1>10. CASE op = "sample"
  <2>1. n = 1 /\ d = Draw(Sampler(c)).c /\ e.out = Draw(Sampler(c)).out
    BY <1>10 DEF Plays
  <2>2. SpongeOf(d) = Squeeze(a) /\ e.out = OutOf(a) /\ Fed(d)
    BY <2>1, SampledIsSqueezed
  <2>3. Stepped(a, e) = Squeeze(a) /\ Answered(a, e)
    BY <1>4, <1>10, <2>2 DEF Stepped, Answered
  <2> HIDE DEF a, e, n
  <2> QED BY <1>6, <2>1, <2>2, <2>3
<1>11. CASE op = "grind"
  <2> DEFINE b == Absorbed(c, <<bs[1]>>)
             x == Heed(a, bs[1])
  <2>1. n = 1 /\ d = Draw(Sampler(b)).c /\ e.out = Draw(Sampler(b)).out
    BY <1>11 DEF Plays, Trial
  <2>2. /\ bs[1] \in Entries /\ <<bs[1]>> \in Seq(Entries) /\ Len(<<bs[1]>>) = 1
        /\ <<bs[1]>>[1] = bs[1]
    BY <1>1, <1>4, ElementOfSeq, NonceIsEntry
  <2>3. ChallengerOK(b) /\ Fed(b)
    BY <2>2, AbsorbedOK, AbsorbedIsHeeded
  <2>4. SpongeOf(b) = x
    <3> DEFINE y == <<bs[1]>>
               o == Opened(a).stream
    <3>1. y \in Seq(Entries) /\ Len(y) = 1 /\ y[1] = bs[1] /\ 0 \in 0..Len(y) - 1
      BY <2>2
    <3>2. SpongeOf(b) = Sponge("Observer", o \o Words(y), 0)
      BY <3>1, AbsorbedIsHeeded
    <3> HIDE DEF y, a
    <3>3. /\ o \o SubSeq(Words(y), 1, 0) = o /\ o \o SubSeq(Words(y), 1, Len(y)) = o \o Words(y)
          /\ Append(o \o SubSeq(Words(y), 1, 0), Byte(y[0 + 1])) = o \o SubSeq(Words(y), 1, 0 + 1)
      BY ONLY <1>3, <3>1, RunHeeded
    <3>4. o \o Words(y) = Append(o, Byte(bs[1]))
      BY <3>1, <3>3
    <3> QED BY <3>2, <3>4 DEF Heed
  <2> HIDE DEF b, x
  <2>5. SpongeOf(d) = Squeeze(x) /\ e.out = OutOf(x) /\ Fed(d)
    BY <2>1, <2>3, <2>4, SampledIsSqueezed
  <2>6. Stepped(a, e) = Squeeze(x) /\ Answered(a, e)
    BY <1>4, <1>11, <2>5 DEF Stepped, Answered, x
  <2> HIDE DEF a, e, n
  <2> QED BY <1>6, <2>1, <2>5, <2>6
<1> QED BY <1>7, <1>8, <1>9, <1>10, <1>11 DEF Plays, Ops
------------------------------------------------------------------------------
(* What an event says of itself. *)
Judged(events) ==
  \A i \in 1..Len(events) :
    /\ events[i].op \in {"open", "sample"} => events[i].val = 0
    /\ events[i].op = "grind" =>
         events[i].bits \in Nat /\ events[i].ok = (ZeroBits(events[i].out) >= events[i].bits)

Landed(events) == \A i \in 1..Len(events) : events[i].op = "grind" => events[i].ok = TRUE

(* The inductive invariant: each challenger is where the replay of its own   *)
(* side's events leads.                                                      *)
BindInv == /\ Follows(script, pch) /\ Fed(pch) /\ Judged(script) /\ Landed(script)
          /\ Follows(vseen, vch) /\ Fed(vch) /\ Judged(vseen)

LEMMA JudgedMore ==
  ASSUME NEW op, NEW bs, NEW c, NEW d, NEW s, NEW t, IsSequence(s), Judged(s),
         Plays(op, bs, c, d, s, t)
  PROVE  /\ Judged(t)
         /\ Landed(s) /\ (op = "grind" => t[Len(s) + 1].ok = TRUE) => Landed(t)
<1> DEFINE m == Len(s)
           n == Len(bs)
<1>1. /\ m \in Nat /\ n \in Nat /\ Len(t) = m + n /\ \A i \in 1..m : t[i] = s[i]
      /\ \A i \in 1..n : t[m + i].op = op /\ t[m + i].val = bs[i]
  BY SequenceLen, LenProperties DEF Plays, Continues, Extends
<1>2. /\ op \in {"open", "sample"} => n = 1 /\ bs[1] = 0
      /\ op = "grind" => n = 1 /\ t[m + 1].bits \in Nat
                         /\ t[m + 1].ok = (ZeroBits(t[m + 1].out) >= t[m + 1].bits)
  BY DEF Plays
<1> HIDE DEF m, n
<1>3. \A i \in 1..Len(t) : i \in 1..m \/ \E j \in 1..n : i = m + j
  <2> SUFFICES ASSUME NEW i \in 1..Len(t), i \notin 1..m PROVE \E j \in 1..n : i = m + j
    OBVIOUS
  <2>1. i - m \in 1..n /\ i = m + (i - m)
    BY <1>1
  <2> QED BY <2>1
<1>4. ASSUME NEW j \in 1..n
      PROVE  /\ t[m + j].op \in {"open", "sample"} => t[m + j].val = 0
             /\ t[m + j].op = "grind" =>
                  j = 1 /\ t[m + j].bits \in Nat /\ t[m + j].ok = (ZeroBits(t[m + j].out) >= t[m + j].bits)
  <2>1. t[m + j].op = op /\ t[m + j].val = bs[j]
    BY <1>1
  <2>2. CASE op \in {"open", "sample"}
    <3>1. j = 1
      BY <1>2, <2>2
    <3> QED BY <1>2, <2>1, <2>2, <3>1
  <2>3. CASE op = "grind"
    <3>1. j = 1
      BY <1>2, <2>3
    <3> QED BY <1>2, <2>1, <2>3, <3>1
  <2>4. CASE op \notin {"open", "sample", "grind"}
    BY <2>1, <2>4
  <2> QED BY <2>2, <2>3, <2>4
<1>5. Judged(t)
  <2> SUFFICES ASSUME NEW i \in 1..Len(t)
               PROVE  /\ t[i].op \in {"open", "sample"} => t[i].val = 0
                      /\ t[i].op = "grind" =>
                           t[i].bits \in Nat /\ t[i].ok = (ZeroBits(t[i].out) >= t[i].bits)
    BY DEF Judged
  <2>1. CASE i \in 1..m
    BY <1>1, <2>1 DEF Judged, m
  <2>2. CASE \E j \in 1..n : i = m + j
    BY <1>4, <2>2
  <2> QED BY <1>3, <2>1, <2>2
<1>6. ASSUME Landed(s), op = "grind" => t[Len(s) + 1].ok = TRUE
      PROVE  Landed(t)
  <2> SUFFICES ASSUME NEW i \in 1..Len(t), t[i].op = "grind" PROVE t[i].ok = TRUE
    BY DEF Landed
  <2>1. CASE i \in 1..m
    BY <1>1, <1>6, <2>1 DEF Landed, m
  <2>2. CASE \E j \in 1..n : i = m + j
    <3>1. PICK j \in 1..n : i = m + j
      BY <2>2
    <3>2. j = 1 /\ op = "grind"
      BY <1>1, <1>4, <3>1
    <3> QED BY <1>6, <3>1, <3>2 DEF m
  <2> QED BY <1>3, <2>1, <2>2
<1> QED BY <1>5, <1>6

LEMMA BindInit == Init => BindInv
<1> SUFFICES ASSUME Init PROVE BindInv
  OBVIOUS
<1>1. Follows(<<>>, Default) /\ Fed(Default)
  <2> DEFINE h == [i \in {0} |-> Start]
  <2>1. h[0] = Start /\ SpongeOf(Default) = Start /\ Len(<<>>) = 0 /\ Fed(Default)
    BY StartOK
  <2> HIDE DEF h
  <2>2. Replay(h, <<>>)
    BY <2>1 DEF Replay
  <2> QED BY <2>1, <2>2 DEF Follows
<1>2. Judged(<<>>) /\ Landed(<<>>)
  BY DEF Judged, Landed
<1> QED BY <1>1, <1>2 DEF Init, BindInv

LEMMA BindNext ==
  ASSUME TypeOK, BindInv, [Next]_vars
  PROVE  BindInv'
<1>0. ChallengerOK(pch) /\ ChallengerOK(vch) /\ IsSequence(script) /\ IsSequence(vseen)
  BY DEF TypeOK
<1>1. ASSUME NEW op, NEW bs, ProverMoves(op, bs) PROVE BindInv'
  <2>1. vch' = vch /\ vseen' = vseen /\ Plays(op, bs, pch, pch', script, script')
        /\ (op = "grind" => script'[Len(script) + 1].ok = TRUE)
    BY <1>1 DEF ProverMoves, Proving, verifier
  <2>2. Follows(script', pch') /\ Fed(pch')
    BY <1>0, <2>1, FollowsMore DEF BindInv
  <2>3. Judged(script') /\ Landed(script')
    BY <1>0, <2>1, JudgedMore DEF BindInv
  <2> QED BY <2>1, <2>2, <2>3 DEF BindInv
<1>2. ASSUME NEW op, NEW bs, VerifierMoves(op, bs) PROVE BindInv'
  <2>1. pch' = pch /\ script' = script /\ Plays(op, bs, vch, vch', vseen, vseen')
    BY <1>2 DEF VerifierMoves, Due, prover
  <2>2. Follows(vseen', vch') /\ Fed(vch')
    BY <1>0, <2>1, FollowsMore DEF BindInv
  <2>3. Judged(vseen')
    BY <1>0, <2>1, JudgedMore DEF BindInv
  <2> QED BY <2>1, <2>2, <2>3 DEF BindInv
<1>3. ASSUME pch' = pch, vch' = vch, script' = script, vseen' = vseen PROVE BindInv'
  BY <1>3 DEF BindInv
<1>4. CASE \E op \in Recorded, n \in Nat : NotEnoughBytes(op, n)
  BY <1>3, <1>4 DEF NotEnoughBytes, Due, prover, verifier
<1>5. CASE IntoVerifier \/ Finalize \/ UNCHANGED vars
  BY <1>3, <1>5 DEF IntoVerifier, Finalize, vars, prover, verifier
<1> QED BY <1>1, <1>2, <1>4, <1>5, Moves

(* What the invariant says of the event both sides took n-th. *)
LEMMA SameAnswer ==
  ASSUME TypeOK, BindInv, NEW n \in 1..Len(vseen), script[n].op \in {"sample", "grind"}
  PROVE  vseen[n].out = script[n].out <=> Heard(vseen, n) = Heard(script, n)
<1>1. PICK g : Replay(g, script)
  BY DEF BindInv, Follows
<1>2. PICK h : Replay(h, vseen)
  BY DEF BindInv, Follows
<1>3. /\ IsSequence(script) /\ IsSequence(vseen) /\ Len(vseen) \in Nat /\ Len(script) \in Nat
      /\ Len(vseen) <= Len(script)
  BY SequenceLen DEF TypeOK
<1>4. \A i \in 1..Len(vseen) : /\ vseen[i].op \in Ops /\ vseen[i].op = script[i].op
                               /\ vseen[i].op \in {"open", "sample"} => vseen[i].val = script[i].val
  BY <1>3 DEF TypeOK, BindInv, Judged
<1> DEFINE k == n - 1
           e == vseen[n]
           f == script[n]
<1>5. k \in 0..Len(vseen) - 1 /\ k \in 0..Len(script) - 1 /\ k + 1 = n /\ k \in Nat /\ k \in 0..Len(vseen)
  BY <1>3
<1> HIDE DEF k
<1>6. Twins(h[k], g[k]) /\ (h[k].stream = g[k].stream <=> Agree(vseen, script, k))
  BY <1>1, <1>2, <1>3, <1>4, <1>5, ReplaysAlike
<1>7. Answered(h[k], e) /\ Answered(g[k], f)
  BY <1>1, <1>2, <1>5 DEF Replay
<1>8. /\ e.op \in Ops /\ e.op = f.op /\ e.op \in {"sample", "grind"} /\ Bound(e)
      /\ e.op \in {"open", "sample"} => e.val = f.val
  BY <1>4 DEF Bound
<1>9. e.out = f.out <=> h[k].stream = g[k].stream /\ e.val = f.val
  <2> DEFINE a == h[k]
             b == g[k]
  <2>1. Twins(a, b) /\ Answered(a, e) /\ Answered(b, f)
    BY <1>6, <1>7
  <2> HIDE DEF a, b, e, f
  <2>2. Answered(a, e) /\ Answered(b, f) /\ e.op \in {"sample", "grind"} =>
              (e.out = f.out <=> a.stream = b.stream /\ e.val = f.val)
    BY ONLY <1>8, <2>1, StepTwins
  <2>3. e.out = f.out <=> a.stream = b.stream /\ e.val = f.val
    BY <1>8, <2>1, <2>2
  <2> QED BY <2>3 DEF a, b
<1>10. Agree(vseen, script, n) <=> Agree(vseen, script, k) /\ e.val = f.val
  <2>1. \A i \in 1..n : i \in 1..k \/ i = n
    BY <1>5
  <2>2. n \in 1..n /\ \A i \in 1..k : i \in 1..n
    BY <1>5
  <2> QED BY <1>8, <2>1, <2>2 DEF Agree
<1>11. Heard(vseen, n) = Heard(script, n) <=> Agree(vseen, script, n)
  <2>1. \A i \in 1..n : vseen[i].op = script[i].op
    BY <1>3, <1>4
  <2> QED BY <2>1, HeardSame
<1> QED BY <1>6, <1>9, <1>10, <1>11

LEMMA BindInvariant == Spec => [](TypeOK /\ BindInv)
<1>1. Init => TypeOK /\ BindInv
  BY TypeInit, BindInit
<1>2. TypeOK /\ BindInv /\ [Next]_vars => (TypeOK /\ BindInv)'
  BY TypeNext, BindNext
<1> QED BY <1>1, <1>2, PTL DEF Spec

(* A challenge is the prover's exactly when everything observed before it    *)
(* was, through any protocol, however either side cuts its reads and writes, *)
(* for every block size and output size of the hash (transcript.rs,          *)
(* hasher_challenger.rs).                                                    *)
THEOREM ChallengesAreBound == Spec => []ChallengesBind
<1>1. TypeOK /\ BindInv => ChallengesBind
  BY SameAnswer DEF ChallengesBind
<1> QED BY <1>1, BindInvariant, PTL

(* The work a prover did satisfies every verifier that asks for no more and  *)
(* has observed the same, however zero bits are counted (transcript.rs).     *)
THEOREM WorkIsAccepted ==
  ASSUME \A out : ZeroBits(out) \in Nat
  PROVE  Spec => []WorkAccepted
<1>1. TypeOK /\ BindInv => WorkAccepted
  <2> SUFFICES ASSUME TypeOK, BindInv, NEW n \in 1..Len(vseen), script[n].op = "grind",
                      vseen[n].bits <= script[n].bits, Heard(vseen, n) = Heard(script, n)
               PROVE  vseen[n].ok
    BY DEF WorkAccepted
  <2>1. vseen[n].out = script[n].out
    BY SameAnswer
  <2>2. n \in 1..Len(script) /\ vseen[n].op = "grind"
    BY SequenceLen DEF TypeOK
  <2>3. /\ script[n].bits \in Nat /\ script[n].ok = (ZeroBits(script[n].out) >= script[n].bits)
        /\ vseen[n].bits \in Nat /\ vseen[n].ok = (ZeroBits(vseen[n].out) >= vseen[n].bits)
        /\ script[n].ok = TRUE
    BY <2>2 DEF BindInv, Judged, Landed
  <2>4. ZeroBits(script[n].out) >= script[n].bits
    BY <2>3
  <2>5. ZeroBits(vseen[n].out) >= vseen[n].bits
    BY <2>1, <2>3, <2>4
  <2> QED BY <2>3, <2>5
<1> QED BY <1>1, BindInvariant, PTL
==============================================================================
