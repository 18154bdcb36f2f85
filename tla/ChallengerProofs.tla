--------------------------- MODULE ChallengerProofs ---------------------------
(* Proofs about the challenger: its shape is invariant, and it implements    *)
(* the unbuffered sponge, for every block size, output size and byte set.    *)
EXTENDS ChallengerMachine, HasherChallengerProofs

LEMMA SlicesAreSequences ==
  ASSUME NEW bs \in Slices
  PROVE  /\ \E n \in 0..MaxWrite : bs \in [1..n -> Bytes] /\ Len(bs) = n
         /\ IsSequence(Words(bs))
         /\ Words(bs) = [i \in 1..Len(bs) |-> Byte(bs[i])]
<1>1. PICK n \in 0..MaxWrite : bs \in [1..n -> Bytes]
  BY DEF Slices
<1>2. n \in Nat /\ Len(bs) = n
  BY <1>1, WritesAssumption
<1> DEFINE B == {Byte(b) : b \in Bytes}
<1>3. Words(bs) \in [1..n -> B]
  BY <1>1, <1>2 DEF Words
<1> HIDE DEF B
<1>4. Words(bs) \in Seq(B)
  BY <1>2, <1>3
<1> QED BY <1>1, <1>2, <1>4, SeqIsSequence DEF Words

LEMMA NoneIsSlice == <<>> \in Slices
<1>1. 0 \in 0..MaxWrite
  BY WritesAssumption
<1>2. <<>> \in [1..0 -> Bytes]
  OBVIOUS
<1> QED BY <1>1, <1>2 DEF Slices

LEMMA InitOK == Init => TypeOK
<1> SUFFICES ASSUME Init PROVE TypeOK
  OBVIOUS
<1> DEFINE g == Digest(<<>>)
<1>1. IsSequence(<<g>>) /\ Len(<<g>>) = 1 /\ <<g>> # <<>>
  BY SingletonIsSequence
<1>2. ch = [mode |-> "Sampler", index |-> 0, buffer |-> <<g>>, hasher |-> <<g>>]
  BY DEF Init, Default
<1> HIDE DEF g
<1>3. ChallengerOK(ch)
  BY <1>1, <1>2, LengthsAssumption DEF ChallengerOK
<1>4. outs = <<>> /\ calls = 0 /\ IsSequence(<<>>)
  BY SeqIsSequence, EmptySeq DEF Init
<1>5. wrote \in Slices
  BY NoneIsSlice DEF Init
<1> QED BY <1>3, <1>4, <1>5, WritesAssumption DEF TypeOK

LEMMA CalledOK ==
  ASSUME TypeOK, Called
  PROVE  calls' \in 0..MaxCalls
BY WritesAssumption DEF TypeOK, Called

(* What an observation does to the stream, whatever the buffer held. *)
LEMMA ObserveStream ==
  ASSUME TypeOK, NEW bs \in Slices, Observe(bs)
  PROVE  /\ ChallengerOK(ch')
         /\ ch'.mode = "Observer"
         /\ ch'.hasher \o ch'.buffer =
              (Observer(ch).hasher \o Observer(ch).buffer) \o Words(bs)
<1>1. ch' = PutSlice(Observer(ch), Words(bs))
  BY DEF Observe
<1>2. ChallengerOK(ch) /\ IsSequence(Words(bs))
  BY SlicesAreSequences DEF TypeOK
<1> QED BY <1>1, <1>2, WriteOK

LEMMA NextOK == TypeOK /\ [Next]_vars => TypeOK'
<1> SUFFICES ASSUME TypeOK, [Next]_vars PROVE TypeOK'
  OBVIOUS
<1>1. CASE \E bs \in Slices : Observe(bs)
  <2>1. PICK bs \in Slices : Observe(bs)
    BY <1>1
  <2>2. outs' = outs /\ Called /\ wrote' \in Slices
    BY <2>1 DEF Observe
  <2>3. ChallengerOK(ch')
    BY <2>1, ObserveStream
  <2> QED BY <2>2, <2>3, CalledOK DEF TypeOK
<1>2. CASE OpenSampler
  <2>1. ChallengerOK(ch')
    BY <1>2, SamplerOK DEF OpenSampler, TypeOK
  <2> QED BY <1>2, <2>1, CalledOK, NoneIsSlice DEF OpenSampler, TypeOK
<1>3. CASE Sample
  <2> DEFINE s == Sampler(ch)
  <2>1. ChallengerOK(s) /\ s.mode = "Sampler"
    BY SamplerOK DEF TypeOK
  <2>2. /\ ch' = Draw(s).c /\ outs' = Append(outs, Draw(s).out) /\ Called
        /\ wrote' \in Slices
    BY <1>3, NoneIsSlice DEF Sample
  <2> HIDE DEF s
  <2>3. ChallengerOK(ch')
    BY <2>1, <2>2, DrawOK
  <2>4. IsSequence(outs')
    <3>1. PICK T : outs \in Seq(T)
      BY DEF TypeOK, IsSequence
    <3> DEFINE U == T \cup {Draw(s).out}
    <3>2. outs \in Seq(U) /\ Draw(s).out \in U
      BY <3>1, SeqMonotonic
    <3>3. outs' \in Seq(U)
      BY <2>2, <3>2, AppendProperties
    <3> QED BY ONLY <3>3, SeqIsSequence
  <2> QED BY <2>2, <2>3, <2>4, CalledOK DEF TypeOK
<1>4. CASE UNCHANGED vars
  BY <1>4 DEF vars, TypeOK, ChallengerOK
<1> QED BY <1>1, <1>2, <1>3, <1>4 DEF Next

(* The challenger keeps its shape, whatever the calls and their order: the   *)
(* block buffer is never full between calls, a sampler is never read past    *)
(* its digest, and there is always something to hash.                        *)
THEOREM ShapeInvariant == Spec => []TypeOK
<1>1. Init => TypeOK
  BY InitOK
<1>2. TypeOK /\ [Next]_vars => TypeOK'
  BY NextOK
<1> QED BY <1>1, <1>2, PTL DEF Spec

------------------------------------------------------------------------------
LEMMA ObserveIsAbsorb ==
  ASSUME TypeOK, NEW bs \in Slices, Observe(bs)
  PROVE  Sponge!Next
<1> DEFINE o == Observer(ch)
           opened == IF ch.mode = "Observer" THEN ch.hasher \o ch.buffer
                     ELSE Append(ch.hasher, IndexWord(ch.index))
<1>1. /\ ch'.mode = "Observer"
      /\ ch'.hasher \o ch'.buffer = (o.hasher \o o.buffer) \o Words(bs)
  BY ObserveStream
<1>2. o.hasher \o o.buffer = opened
  <2>1. CASE ch.mode = "Observer"
    BY <2>1, ObserverOK DEF TypeOK
  <2>2. CASE ch.mode = "Sampler"
    <3>1. /\ o.buffer = <<>>
          /\ o.hasher = Append(ch.hasher, IndexWord(ch.index))
          /\ IsSequence(o.hasher)
      BY <2>2, ObserverOK DEF TypeOK, ChallengerOK
    <3> HIDE DEF o
    <3>2. PICK T : o.hasher \in Seq(T)
      BY <3>1 DEF IsSequence
    <3>3. o.hasher \o <<>> = o.hasher
      BY <3>2, ConcatEmptySeq
    <3> QED BY <2>2, <3>1, <3>3
  <2>3. ch.mode \in {"Observer", "Sampler"}
    BY DEF TypeOK, ChallengerOK
  <2> QED BY <2>1, <2>2, <2>3
<1>3. PICK n \in 0..MaxWrite : bs \in [1..n -> Bytes]
  BY SlicesAreSequences
<1>4. Words(bs) = [i \in 1..Len(bs) |-> Sponge!Word(bs[i])]
  BY DEF Words, Byte, Sponge!Word
<1>5. opened = Sponge!Opened
  BY DEF Sponge!Opened, IndexWord
<1>6. last' = last /\ wrote' = bs
  BY DEF Observe
<1> HIDE DEF o, opened
<1>7. Sponge!Absorb(bs)
  BY <1>1, <1>2, <1>4, <1>5, <1>6 DEF Sponge!Absorb, Sponge!Nothing, ZeroDigest
<1> QED BY <1>3, <1>7 DEF Sponge!Next

LEMMA OpenSamplerIsStartSqueeze ==
  ASSUME TypeOK, OpenSampler
  PROVE  Sponge!StartSqueeze
<1>1. /\ ch' = Sampler(ch) /\ ch.mode = "Observer" /\ last' = last /\ wrote' = <<>>
  BY DEF OpenSampler
<1>2. /\ ch'.mode = "Sampler" /\ ch'.index = OutLen /\ ch'.buffer = <<ZeroDigest>>
      /\ ch'.hasher = ch.hasher \o ch.buffer
  BY <1>1, SamplerOK DEF TypeOK
<1> QED BY <1>1, <1>2 DEF Sponge!StartSqueeze, Sponge!Nothing, ZeroDigest

LEMMA SampleIsSqueeze ==
  ASSUME TypeOK, Sample
  PROVE  Sponge!Squeeze
<1> DEFINE s == Sampler(ch)
           stream == IF ch.mode = "Observer" THEN ch.hasher \o ch.buffer ELSE ch.hasher
<1>1. ChallengerOK(s) /\ s.mode = "Sampler"
  BY SamplerOK DEF TypeOK
<1>2. ch' = Draw(s).c /\ last' = Draw(s).out /\ wrote' = <<>>
  BY DEF Sample
<1>3. ch.mode \in {"Observer", "Sampler"}
  BY DEF TypeOK, ChallengerOK
<1>4. s.hasher = stream
  BY <1>3, SamplerOK DEF TypeOK
<1>5. ch.mode = "Sampler" => s = ch
  BY SamplerOK DEF TypeOK
<1>6. ch.mode = "Observer" => s.index = OutLen
  BY SamplerOK DEF TypeOK
<1> HIDE DEF s, stream
<1>7. ch'.mode = "Sampler"
  BY <1>1, <1>2, DrawOK
<1>8. CASE s.index = OutLen
  <2> DEFINE g == Digest(stream)
  <2>1. /\ ch'.buffer = <<Digest(stream)>> /\ ch'.hasher = <<Digest(stream)>>
        /\ ch'.index = 1 /\ last' = [of |-> Digest(stream), at |-> 0]
    BY <1>1, <1>2, <1>4, <1>8, DrawOK
  <2>2. ch.mode = "Observer" \/ ch.index = OutLen
    BY <1>3, <1>5, <1>8
  <2>3. g = Sponge!Hash(IF ch.mode = "Observer" THEN ch.hasher \o ch.buffer ELSE ch.hasher)
    BY DEF Sponge!Hash, Digest, stream
  <2>4. /\ ch'.buffer = <<g>> /\ ch'.hasher = <<g>> /\ ch'.index = 1
        /\ last' = [of |-> g, at |-> 0]
    BY <2>1
  <2> HIDE DEF g
  <2>5. ch'.buffer[1] = g
    BY <2>4
  <2>6. (ch.mode = "Observer" \/ (IF ch.mode = "Observer" THEN 0 ELSE ch.index) = OutLen)
    BY <2>2
  <2> QED BY ONLY <1>2, <1>7, <2>3, <2>4, <2>5, <2>6 DEF Sponge!Squeeze
<1>9. CASE s.index # OutLen
  <2>1. ch.mode = "Sampler" /\ s = ch
    BY <1>3, <1>5, <1>6, <1>9
  <2>2. ch' = [ch EXCEPT !.index = @ + 1] /\ last' = [of |-> ch.buffer[1], at |-> ch.index]
    BY <1>1, <1>2, <1>9, <2>1, DrawOK
  <2>3. ch'.index = ch.index + 1 /\ ch'.buffer = ch.buffer /\ ch'.hasher = ch.hasher
    BY <2>2 DEF TypeOK, ChallengerOK
  <2> QED BY <1>2, <1>7, <1>9, <2>1, <2>2, <2>3 DEF Sponge!Squeeze
<1> QED BY <1>8, <1>9

(* The challenger implements the unbuffered sponge: no matter how the bytes  *)
(* observed are cut into writes and blocks, the challenges are those of the  *)
(* whole stream (hasher_challenger.rs:63-200).                               *)
THEOREM ImplementsSponge == Spec => Unbuffered
<1>1. Init => Sponge!Init
  BY DEF Init, Default, ZeroDigest, Digest, Sponge!Init, Sponge!Hash, Sponge!Nothing
<1>2. TypeOK /\ [Next]_vars => [Sponge!Next]_(Sponge!vars)
  <2> SUFFICES ASSUME TypeOK, [Next]_vars PROVE [Sponge!Next]_(Sponge!vars)
    OBVIOUS
  <2>1. CASE \E bs \in Slices : Observe(bs)
    BY <2>1, ObserveIsAbsorb
  <2>2. CASE OpenSampler
    BY <2>2, OpenSamplerIsStartSqueeze DEF Sponge!Next
  <2>3. CASE Sample
    BY <2>3, SampleIsSqueeze DEF Sponge!Next
  <2>4. CASE UNCHANGED vars
    BY <2>4 DEF vars, Sponge!vars
  <2> QED BY <2>1, <2>2, <2>3, <2>4 DEF Next
<1>3. Spec => []TypeOK
  BY ShapeInvariant
<1> QED BY <1>1, <1>2, <1>3, PTL DEF Spec, Unbuffered, Sponge!Spec
------------------------------------------------------------------------------
LEMMA FirstOfConcat ==
  ASSUME NEW s, NEW t, IsSequence(s), IsSequence(t), 1 \in 1..Len(s)
  PROVE  (s \o t)[1] = s[1] /\ IsSequence(s \o t) /\ 1 \in 1..Len(s \o t)
<1>1. /\ IsSequence(s \o t) /\ Len(s \o t) = Len(s) + Len(t)
      /\ \A i \in 1..Len(s) : (s \o t)[i] = s[i]
  BY ONLY IsSequence(s), IsSequence(t), ConcatSequence
<1>2. Len(s) \in Nat /\ Len(t) \in Nat
  BY SequenceLen
<1> QED BY <1>1, <1>2

(* Whatever is called, the first word absorbed stays the first. *)
LEMMA FirstStays ==
  ASSUME NEW c, ChallengerOK(c), NEW w, IsSequence(w)
  PROVE  /\ PutSlice(Observer(c), w).hasher[1] = c.hasher[1]
         /\ Sampler(c).hasher[1] = c.hasher[1]
<1> DEFINE o == Observer(c)
           d == PutSlice(o, w)
           r == Sampler(c)
<1>1. /\ IsSequence(c.hasher) /\ IsSequence(c.buffer) /\ 1 \in 1..Len(c.hasher)
      /\ c.mode \in {"Observer", "Sampler"}
  BY SequenceLen DEF ChallengerOK
<1>2. ChallengerOK(o) /\ o.hasher[1] = c.hasher[1]
  <2>1. CASE c.mode = "Observer"
    BY <2>1, ObserverOK
  <2>2. CASE c.mode = "Sampler"
    <3> DEFINE x == IndexWord(c.index)
    <3>1. o.hasher = Append(c.hasher, x) /\ ChallengerOK(o)
      BY <2>2, ObserverOK
    <3> HIDE DEF x, o
    <3>2. Append(c.hasher, x)[1] = c.hasher[1]
      BY <1>1, AppendSequence
    <3> QED BY <3>1, <3>2
  <2> QED BY <1>1, <2>1, <2>2
<1>3. ChallengerOK(d) /\ d.hasher \o d.buffer = (o.hasher \o o.buffer) \o w
  BY WriteOK
<1>4. r.hasher[1] = c.hasher[1]
  <2>1. CASE c.mode = "Sampler"
    BY <2>1, SamplerOK
  <2>2. CASE c.mode = "Observer"
    <3> DEFINE x == c.hasher \o c.buffer
    <3>1. r.hasher = x
      BY <2>2, SamplerOK
    <3>2. x[1] = c.hasher[1]
      BY <1>1, FirstOfConcat
    <3> HIDE DEF x, r
    <3> QED BY <3>1, <3>2
  <2> QED BY <1>1, <2>1, <2>2
<1> HIDE DEF o, d
<1>5. d.hasher[1] = o.hasher[1]
  <2> DEFINE x == o.hasher \o o.buffer
             y == d.hasher \o d.buffer
             z == x \o w
  <2>1. /\ IsSequence(o.hasher) /\ IsSequence(o.buffer) /\ 1 \in 1..Len(o.hasher)
        /\ IsSequence(d.hasher) /\ IsSequence(d.buffer) /\ 1 \in 1..Len(d.hasher)
    BY <1>2, <1>3, SequenceLen DEF ChallengerOK
  <2>2. IsSequence(x) /\ x[1] = o.hasher[1] /\ 1 \in 1..Len(x)
    BY ONLY <2>1, FirstOfConcat
  <2>3. y[1] = d.hasher[1]
    BY ONLY <2>1, FirstOfConcat
  <2> HIDE DEF x, y
  <2>4. z[1] = x[1]
    BY <2>2, FirstOfConcat
  <2>5. y = z
    BY <1>3 DEF x, y
  <2> QED BY <2>2, <2>3, <2>4, <2>5
<1>6. d.hasher[1] = c.hasher[1]
  BY <1>2, <1>5
<1>7. PutSlice(Observer(c), w).hasher[1] = c.hasher[1]
  BY <1>6 DEF d, o
<1> QED BY <1>4, <1>7

(* Every digest so far is of a non-empty input that begins with the one      *)
(* before it, the first being the digest of nothing.                         *)
Chain(ds, k) ==
  /\ k \in Nat
  /\ ds[0] = Digest(<<>>)
  /\ \A i \in 0..k - 1 : \E s : s # <<>> /\ s[1] = ds[i] /\ ds[i + 1] = Digest(s)
  /\ \A i, j \in 0..k : ds[i] = ds[j] => i = j

LEMMA ChainGrows ==
  ASSUME NEW ds, NEW k, Chain(ds, k), NEW s, s # <<>>, s[1] = ds[k]
  PROVE  \E es : /\ Chain(es, k + 1) /\ es[k + 1] = Digest(s)
                 /\ \A i \in 0..k : es[i] = ds[i] /\ ds[i] # Digest(s)
<1> DEFINE es == [i \in 0..k + 1 |-> IF i = k + 1 THEN Digest(s) ELSE ds[i]]
<1>1. k \in Nat /\ k + 1 \in Nat
  BY DEF Chain
<1>2. (\A i \in 0..k : es[i] = ds[i]) /\ es[k + 1] = Digest(s)
  BY <1>1
<1> HIDE DEF es
<1>3. ASSUME NEW i \in 0..k PROVE ds[i] # Digest(s)
  <2>1. CASE i = 0
    BY <2>1 DEF Chain, Digest
  <2>2. CASE i # 0
    <3> DEFINE j == i - 1
    <3>1. j \in 0..k - 1 /\ j + 1 = i /\ j \in 0..k /\ k \in 0..k /\ j # k
      BY <1>1, <2>2
    <3> HIDE DEF j
    <3>2. PICK u : u # <<>> /\ u[1] = ds[j] /\ ds[j + 1] = Digest(u)
      BY <3>1 DEF Chain
    <3>3. ds[j] # ds[k]
      BY <3>1 DEF Chain
    <3>4. u # s
      BY <3>2, <3>3
    <3>5. Digest(u) # Digest(s)
      BY <3>4 DEF Digest
    <3> QED BY <3>1, <3>2, <3>5
  <2> QED BY <2>1, <2>2
<1>4. ASSUME NEW i \in 0..(k + 1) - 1
      PROVE  \E u : u # <<>> /\ u[1] = es[i] /\ es[i + 1] = Digest(u)
  <2>1. CASE i = k
    <3>1. k \in 0..k
      BY <1>1
    <3> QED BY <1>2, <2>1, <3>1
  <2>2. CASE i # k
    <3>1. i \in 0..k - 1 /\ i \in 0..k /\ i + 1 \in 0..k
      BY <1>1, <2>2
    <3>2. PICK u : u # <<>> /\ u[1] = ds[i] /\ ds[i + 1] = Digest(u)
      BY <3>1 DEF Chain
    <3> QED BY <1>2, <3>1, <3>2
  <2> QED BY <2>1, <2>2
<1>5. ASSUME NEW i \in 0..k + 1, NEW j \in 0..k + 1, es[i] = es[j]
      PROVE  i = j
  <2>1. (i \in 0..k \/ i = k + 1) /\ (j \in 0..k \/ j = k + 1)
    BY <1>1
  <2> QED BY <1>2, <1>3, <1>5, <2>1 DEF Chain
<1>6. es[0] = Digest(<<>>)
  BY <1>1, <1>2 DEF Chain
<1>7. Chain(es, k + 1)
  BY <1>1, <1>4, <1>5, <1>6 DEF Chain
<1> QED BY <1>2, <1>3, <1>7

(* What is hashed next begins with the last digest of the chain, every byte  *)
(* handed out is of a digest of the chain, and those of the last digest are  *)
(* the ones before the sampler's index.                                      *)
Handed(ds, k) ==
  /\ Chain(ds, k)
  /\ ch.hasher[1] = ds[k]
  /\ \A i \in 1..Len(outs) : outs[i].at \in Nat /\ \E j \in 0..k : outs[i].of = ds[j]
  /\ ch.mode = "Sampler" /\ ch.index # OutLen =>
       /\ ch.buffer[1] = ds[k]
       /\ \A i \in 1..Len(outs) : outs[i].of = ds[k] => outs[i].at < ch.index

FreshInv == TypeOK /\ FreshChallenges /\ \E ds, k : Handed(ds, k)

LEMMA InitFresh == Init => FreshInv
<1> SUFFICES ASSUME Init PROVE FreshInv
  OBVIOUS
<1> DEFINE g == Digest(<<>>)
           ds == [i \in {0} |-> g]
<1>1. /\ ch.hasher = <<g>> /\ ch.buffer = <<g>> /\ outs = <<>> /\ Len(outs) = 0
  BY DEF Init, Default
<1>2. ds[0] = g
  OBVIOUS
<1> HIDE DEF g, ds
<1>3. Chain(ds, 0)
  BY <1>2 DEF Chain, g
<1>4. 1..Len(outs) = {}
  BY <1>1
<1>5. ch.hasher[1] = g /\ ch.buffer[1] = g
  BY <1>1
<1>6. Handed(ds, 0)
  BY <1>2, <1>3, <1>4, <1>5 DEF Handed
<1> QED BY <1>4, <1>6, InitOK DEF FreshInv, FreshChallenges

(* A byte that is none of those handed out keeps them all apart. *)
LEMMA AppendFresh ==
  ASSUME IsSequence(outs), FreshChallenges, NEW x, \A i \in 1..Len(outs) : outs[i] # x,
         outs' = Append(outs, x)
  PROVE  /\ FreshChallenges'
         /\ Len(outs) \in Nat /\ Len(outs') = Len(outs) + 1
         /\ \A i \in 1..Len(outs) : outs'[i] = outs[i]
         /\ outs'[Len(outs) + 1] = x
<1> DEFINE n == Len(outs)
<1>1. n \in Nat /\ Len(outs') = n + 1 /\ (\A i \in 1..n : outs'[i] = outs[i]) /\ outs'[n + 1] = x
  BY AppendSequence, SequenceLen
<1> HIDE DEF n
<1>2. ASSUME NEW i \in 1..n + 1, NEW j \in 1..n + 1, outs'[i] = outs'[j] PROVE i = j
  <2>1. (i \in 1..n \/ i = n + 1) /\ (j \in 1..n \/ j = n + 1)
    BY <1>1
  <2> QED BY <1>1, <1>2, <2>1 DEF FreshChallenges, n
<1>3. FreshChallenges'
  BY <1>1, <1>2 DEF FreshChallenges
<1> QED BY <1>1, <1>3 DEF n

(* A read hands out the byte of a new digest, or the next one of the last. *)
LEMMA SampleFresh ==
  ASSUME FreshInv, Sample
  PROVE  FreshChallenges' /\ \E ds, k : Handed(ds, k)'
<1> DEFINE s == Sampler(ch)
           x == Draw(s).out
           g == Digest(s.hasher)
<1>1. PICK ds, k : Handed(ds, k)
  BY DEF FreshInv
<1>2. TypeOK /\ ChallengerOK(ch) /\ IsSequence(outs) /\ FreshChallenges
  BY DEF FreshInv, TypeOK
<1>3. /\ ChallengerOK(s) /\ s.mode = "Sampler" /\ (ch.mode = "Sampler" => s = ch)
      /\ (ch.mode = "Observer" => s.index = OutLen)
      /\ ch.mode \in {"Observer", "Sampler"}
  BY <1>2, SamplerOK DEF ChallengerOK
<1>4. s.hasher[1] = ds[k] /\ s.hasher # <<>> /\ Chain(ds, k) /\ k \in Nat
  <2>1. s.hasher[1] = ch.hasher[1]
    BY <1>2, FirstStays, EmptyIsSequence
  <2> QED BY <1>1, <1>3, <2>1 DEF Handed, Chain, ChallengerOK
<1>5. ch' = Draw(s).c /\ outs' = Append(outs, x)
  BY DEF Sample
<1> HIDE DEF s
<1>6. CASE s.index = OutLen
  <2>1. /\ ch'.buffer = <<g>> /\ ch'.hasher = <<g>> /\ ch'.index = 1
        /\ x = [of |-> g, at |-> 0]
    BY <1>3, <1>5, <1>6, DrawOK
  <2>2. PICK es : /\ Chain(es, k + 1) /\ es[k + 1] = g
                  /\ \A i \in 0..k : es[i] = ds[i] /\ ds[i] # g
    BY <1>4, ChainGrows
  <2> HIDE DEF g, x
  <2>3. x.of = g /\ x.at = 0 /\ ch'.hasher[1] = g /\ ch'.buffer[1] = g
    BY <2>1
  <2>4. ASSUME NEW i \in 1..Len(outs)
        PROVE  outs[i] # x /\ outs[i].of # g /\ \E j \in 0..k + 1 : outs[i].of = es[j]
    <3>1. PICK j \in 0..k : outs[i].of = ds[j]
      BY <1>1 DEF Handed
    <3>2. j \in 0..k + 1
      BY <1>4
    <3> QED BY <2>2, <2>3, <3>1, <3>2
  <2>5. /\ FreshChallenges' /\ Len(outs) \in Nat /\ Len(outs') = Len(outs) + 1
        /\ \A i \in 1..Len(outs) : outs'[i] = outs[i]
        /\ outs'[Len(outs) + 1] = x
    BY <1>2, <1>5, <2>4, AppendFresh
  <2>6. ASSUME NEW i \in 1..Len(outs')
        PROVE  /\ outs'[i].at \in Nat
               /\ \E j \in 0..k + 1 : outs'[i].of = es[j]
               /\ outs'[i].of = g => outs'[i].at < ch'.index
    <3>1. CASE i = Len(outs) + 1
      <4>1. k + 1 \in 0..k + 1
        BY <1>4
      <4>2. outs'[i] = x
        BY <2>5, <3>1
      <4> QED BY <2>1, <2>2, <2>3, <4>1, <4>2
    <3>2. CASE i # Len(outs) + 1
      <4>1. i \in 1..Len(outs)
        BY <2>5, <3>2
      <4>2. outs[i].at \in Nat
        BY <1>1, <4>1 DEF Handed
      <4> QED BY <2>4, <2>5, <4>1, <4>2
    <3> QED BY <3>1, <3>2
  <2>7. Handed(es, k + 1)'
    BY <2>2, <2>3, <2>6 DEF Handed
  <2> QED BY <2>5, <2>7
<1>7. CASE s.index # OutLen
  <2>1. ch.mode = "Sampler" /\ s = ch
    BY <1>3, <1>7
  <2>2. ch' = [ch EXCEPT !.index = @ + 1] /\ x = [of |-> ch.buffer[1], at |-> ch.index]
    BY <1>3, <1>5, <1>7, <2>1, DrawOK
  <2>3. /\ ch'.index = ch.index + 1 /\ ch'.buffer = ch.buffer /\ ch'.hasher = ch.hasher
        /\ ch.index \in Nat
    BY <1>2, <2>2 DEF ChallengerOK
  <2>4. ch.buffer[1] = ds[k] /\ \A i \in 1..Len(outs) : outs[i].of = ds[k] => outs[i].at < ch.index
    BY <1>1, <1>7, <2>1 DEF Handed
  <2>5. x.of = ds[k] /\ x.at = ch.index
    BY <2>2, <2>4
  <2> HIDE DEF g, x
  <2>6. ASSUME NEW i \in 1..Len(outs) PROVE outs[i] # x
    BY <2>3, <2>4, <2>5
  <2>7. /\ FreshChallenges' /\ Len(outs) \in Nat /\ Len(outs') = Len(outs) + 1
        /\ \A i \in 1..Len(outs) : outs'[i] = outs[i]
        /\ outs'[Len(outs) + 1] = x
    BY <1>2, <1>5, <2>6, AppendFresh
  <2>8. ASSUME NEW i \in 1..Len(outs')
        PROVE  /\ outs'[i].at \in Nat
               /\ \E j \in 0..k : outs'[i].of = ds[j]
               /\ outs'[i].of = ds[k] => outs'[i].at < ch'.index
    <3>1. CASE i = Len(outs) + 1
      <4>1. k \in 0..k
        BY <1>4
      <4>2. outs'[i] = x
        BY <2>7, <3>1
      <4> QED BY <2>3, <2>5, <4>1, <4>2
    <3>2. CASE i # Len(outs) + 1
      <4>1. i \in 1..Len(outs) /\ outs'[i] = outs[i]
        BY <2>7, <3>2
      <4>2. outs[i].at \in Nat /\ \E j \in 0..k : outs[i].of = ds[j]
        BY <1>1, <4>1 DEF Handed
      <4>3. ASSUME outs[i].of = ds[k] PROVE outs[i].at < ch.index + 1
        <5> DEFINE a == outs[i].at
        <5>1. a < ch.index
          BY <2>4, <4>1, <4>3
        <5>2. a \in Nat
          BY <4>2
        <5> HIDE DEF a
        <5>3. a < ch.index + 1
          BY <2>3, <5>1, <5>2
        <5> QED BY <5>3 DEF a
      <4> QED BY <2>3, <4>1, <4>2, <4>3
    <3> QED BY <3>1, <3>2
  <2>9. Handed(ds, k)'
    BY <1>1, <2>3, <2>4, <2>8 DEF Handed
  <2> QED BY <2>7, <2>9
<1> QED BY <1>6, <1>7

(* No byte of challenge is handed out twice, whatever is observed, opened    *)
(* and read, and in whatever order: a digest is of the one before it and of  *)
(* what was observed since, so it is none of those before                    *)
(* (hasher_challenger.rs:97-121, 159-174).                                   *)
THEOREM ChallengesStayFresh == Spec => []FreshChallenges
<1>1. Init => FreshInv
  BY InitFresh
<1>2. FreshInv /\ [Next]_vars => FreshInv'
  <2> SUFFICES ASSUME FreshInv, [Next]_vars
               PROVE  FreshChallenges' /\ \E ds, k : Handed(ds, k)'
    BY NextOK DEF FreshInv
  <2>1. PICK ds, k : Handed(ds, k)
    BY DEF FreshInv
  <2>2. TypeOK /\ ChallengerOK(ch)
    BY DEF FreshInv, TypeOK
  <2>3. CASE \E bs \in Slices : Observe(bs)
    <3>1. PICK bs \in Slices : Observe(bs)
      BY <2>3
    <3>2. ch' = PutSlice(Observer(ch), Words(bs)) /\ outs' = outs
      BY <3>1 DEF Observe
    <3>3. ch'.hasher[1] = ch.hasher[1]
      BY <2>2, <3>2, FirstStays, SlicesAreSequences
    <3>4. ch'.mode = "Observer"
      BY <2>2, <3>1, ObserveStream
    <3>5. Handed(ds, k)'
      BY <2>1, <3>2, <3>3, <3>4 DEF Handed
    <3> QED BY <3>2, <3>5 DEF FreshInv, FreshChallenges
  <2>4. CASE OpenSampler
    <3>1. ch' = Sampler(ch) /\ ch.mode = "Observer" /\ outs' = outs
      BY <2>4 DEF OpenSampler
    <3>2. ch'.hasher[1] = ch.hasher[1]
      BY <2>2, <3>1, FirstStays, EmptyIsSequence
    <3>3. ch'.index = OutLen
      BY <2>2, <3>1, SamplerOK
    <3>4. Handed(ds, k)'
      BY <2>1, <3>1, <3>2, <3>3 DEF Handed
    <3> QED BY <3>1, <3>4 DEF FreshInv, FreshChallenges
  <2>5. CASE Sample
    BY <2>5, SampleFresh
  <2>6. CASE UNCHANGED vars
    <3>1. ch' = ch /\ outs' = outs
      BY <2>6 DEF vars
    <3>2. Handed(ds, k)'
      BY <2>1, <3>1 DEF Handed
    <3> QED BY <3>1, <3>2 DEF FreshInv, FreshChallenges
  <2> QED BY <2>3, <2>4, <2>5, <2>6 DEF Next
<1>3. FreshInv => FreshChallenges
  BY DEF FreshInv
<1> QED BY <1>1, <1>2, <1>3, PTL DEF Spec
==============================================================================
