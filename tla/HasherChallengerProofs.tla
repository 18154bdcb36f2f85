------------------------ MODULE HasherChallengerProofs ------------------------
(* Lemmas about the challenger's operators, for every block size and output  *)
(* size: what opening either end, writing and reading do to its shape and to *)
(* the stream of what it has absorbed.                                       *)
EXTENDS HasherChallenger, DataFacts

LEMMA DivMod ==
  ASSUME NEW n \in Nat, NEW b \in Nat, b > 0
  PROVE  /\ (n \div b) * b \in 0..n
         /\ n - (n \div b) * b \in 0..b - 1
<1>1. n \div b \in Nat /\ n % b \in 0..b - 1
  BY SMTT(20)
<1>2. n = b * (n \div b) + (n % b)
  BY SMTT(20)
<1> QED BY <1>1, <1>2, SMTT(20)

(* put_slice neither loses, repeats nor reorders a byte, and leaves less     *)
(* than a block behind (HasherObserver::advance_mut).                        *)
LEMMA PutSliceKeepsStream ==
  ASSUME NEW T, NEW words \in Seq(T),
         NEW c \in [mode : {"Observer"}, index : Nat, buffer : Seq(T), hasher : Seq(T)]
  PROVE  LET d == PutSlice(c, words) IN
         /\ d \in [mode : {"Observer"}, index : 0..BlockLen - 1,
                   buffer : Seq(T), hasher : Seq(T)]
         /\ d.index = Len(d.buffer)
         /\ d.hasher \o d.buffer = (c.hasher \o c.buffer) \o words
         /\ Len(d.hasher) >= Len(c.hasher)
<1> DEFINE all == c.buffer \o words
           cut == (Len(all) \div BlockLen) * BlockLen
           head == SubSeq(all, 1, cut)
           rest == SubSeq(all, cut + 1, Len(all))
           d == PutSlice(c, words)
<1>1. all \in Seq(T) /\ Len(all) \in Nat
  BY ConcatProperties, LenProperties
<1>2. cut \in 0..Len(all) /\ Len(all) - cut \in 0..BlockLen - 1
  <2>1. BlockLen \in Nat /\ BlockLen > 0
    BY LengthsAssumption
  <2> HIDE DEF all
  <2> QED BY <1>1, <2>1, DivMod
<1>7. /\ d = [c EXCEPT !.hasher = @ \o head, !.buffer = rest, !.index = Len(all) - cut]
  BY DEF PutSlice
<1> HIDE DEF cut, d
<1>3. head \in Seq(T) /\ Len(head) = cut /\ rest \in Seq(T) /\ Len(rest) = Len(all) - cut
  <2> HIDE DEF all
  <2>1. \A i \in 1..cut : all[i] \in T
    BY <1>1, <1>2, ElementOfSeq
  <2>2. \A i \in cut + 1..Len(all) : all[i] \in T
    BY <1>1, <1>2, ElementOfSeq
  <2>3. cut \in Int /\ cut + 1 \in Int /\ Len(all) \in Int
    BY <1>1, <1>2
  <2>4. head \in Seq(T) /\ Len(head) = cut
    BY <1>2, <2>1, <2>3, SubSeqProperties
  <2>5. rest \in Seq(T) /\ Len(rest) = Len(all) - cut
    BY <1>2, <2>2, <2>3, SubSeqProperties
  <2> QED BY <2>4, <2>5
<1>4. head \o rest = all
  <2> HIDE DEF all
  <2>1. 1 \in 1..Len(all) + 1 /\ cut \in 1 - 1..Len(all) /\ Len(all) \in cut..Len(all)
    BY <1>1, <1>2
  <2>2. head \o rest = SubSeq(all, 1, Len(all))
    BY <1>1, <2>1, ConcatAdjacentSubSeq
  <2> QED BY <1>1, <2>2, SubSeqFull
<1> HIDE DEF head, rest
<1>10. \A x, y, z \in Seq(T) : (x \o y) \o z = x \o (y \o z)
  <2> TAKE x, y, z \in Seq(T)
  <2> QED BY ONLY x \in Seq(T), y \in Seq(T), z \in Seq(T), ConcatAssociative, SMTT(60)
<1>5. (c.hasher \o head) \o rest = (c.hasher \o c.buffer) \o words
  <2>1. (c.hasher \o head) \o rest = c.hasher \o (head \o rest)
    <3>1. c.hasher \in Seq(T) /\ head \in Seq(T) /\ rest \in Seq(T)
      BY <1>3
    <3> QED BY ONLY <3>1, <1>10, Zenon
  <2>2. (c.hasher \o c.buffer) \o words = c.hasher \o (c.buffer \o words)
    <3>1. c.hasher \in Seq(T) /\ c.buffer \in Seq(T) /\ words \in Seq(T)
      OBVIOUS
    <3> QED BY ONLY <3>1, <1>10, Zenon
  <2> QED BY <2>1, <2>2, <1>4
<1>6. c.hasher \o head \in Seq(T) /\ Len(c.hasher \o head) >= Len(c.hasher)
  <2>1. Len(c.hasher) \in Nat /\ Len(head) \in Nat
    BY <1>3, LenProperties
  <2> QED BY <1>3, <2>1, ConcatProperties
<1> HIDE DEF all
<1>8. d.hasher = c.hasher \o head /\ d.buffer = rest /\ d.index = Len(all) - cut
  BY <1>7
<1>9. d \in [mode : {"Observer"}, index : 0..BlockLen - 1, buffer : Seq(T), hasher : Seq(T)]
  BY <1>2, <1>3, <1>6, <1>7
<1> QED BY <1>3, <1>5, <1>6, <1>8, <1>9 DEF d

------------------------------------------------------------------------------
(* Each step of the machine starts by opening one end of the challenger.     *)
LEMMA ObserverOK ==
  ASSUME NEW c, ChallengerOK(c)
  PROVE  /\ ChallengerOK(Observer(c))
         /\ Observer(c).mode = "Observer"
         /\ c.mode = "Observer" => Observer(c) = c
         /\ c.mode = "Sampler" => /\ Observer(c).buffer = <<>>
                                  /\ Observer(c).hasher = Append(c.hasher, IndexWord(c.index))
<1>1. CASE c.mode = "Observer"
  BY <1>1 DEF Observer, ChallengerOK
<1>2. CASE c.mode = "Sampler"
  <2>1. PICK T : c.hasher \in Seq(T)
    BY DEF ChallengerOK, IsSequence
  <2> DEFINE U == T \cup {IndexWord(c.index)}
             h == Append(c.hasher, IndexWord(c.index))
  <2>2. c.hasher \in Seq(U) /\ IndexWord(c.index) \in U
    BY <2>1, SeqMonotonic
  <2>3. h \in Seq(U) /\ h # <<>>
    <3>1. h \in Seq(U) /\ Len(h) = Len(c.hasher) + 1 /\ Len(c.hasher) \in Nat
      BY <2>2, AppendProperties, LenProperties
    <3>2. Len(<<>>) = 0
      OBVIOUS
    <3> QED BY <3>1, <3>2
  <2>4. IsSequence(h) /\ IsSequence(<<>>)
    BY <2>3, SeqIsSequence, EmptySeq
  <2>5. Observer(c) = [mode |-> "Observer", index |-> 0, buffer |-> <<>>, hasher |-> h]
    BY <1>2 DEF Observer
  <2> HIDE DEF h
  <2>6. 0 < BlockLen /\ Len(<<>>) = 0
    BY LengthsAssumption
  <2> QED BY <1>2, <2>3, <2>4, <2>5, <2>6 DEF ChallengerOK, h
<1> QED BY <1>1, <1>2 DEF ChallengerOK

LEMMA SamplerOK ==
  ASSUME NEW c, ChallengerOK(c)
  PROVE  /\ ChallengerOK(Sampler(c))
         /\ Sampler(c).mode = "Sampler"
         /\ c.mode = "Sampler" => Sampler(c) = c
         /\ c.mode = "Observer" => /\ Sampler(c).index = OutLen
                                   /\ Sampler(c).buffer = <<ZeroDigest>>
                                   /\ Sampler(c).hasher = c.hasher \o c.buffer
<1>1. CASE c.mode = "Sampler"
  BY <1>1 DEF Sampler, ChallengerOK
<1>2. CASE c.mode = "Observer"
  <2> DEFINE h == c.hasher \o c.buffer
  <2>1. PICK T : c.hasher \in Seq(T) /\ c.buffer \in Seq(T)
    BY CommonSet DEF ChallengerOK
  <2>2. h \in Seq(T) /\ h # <<>>
    <3>1. c.hasher # <<>>
      BY DEF ChallengerOK
    <3> QED BY <2>1, <3>1, ConcatProperties, ConcatEqualIffEmpty
  <2>3. IsSequence(h) /\ IsSequence(<<ZeroDigest>>) /\ Len(<<ZeroDigest>>) = 1
    <3>1. <<ZeroDigest>> \in Seq({ZeroDigest})
      OBVIOUS
    <3> QED BY <2>2, <3>1, SeqIsSequence
  <2>4. Sampler(c) = [mode |-> "Sampler", index |-> OutLen, buffer |-> <<ZeroDigest>>, hasher |-> h]
    <3>1. Flush(c).hasher = h
      BY DEF Flush, ChallengerOK
    <3> QED BY <1>2, <3>1 DEF Sampler
  <2>5. OutLen \in Nat
    BY LengthsAssumption
  <2> HIDE DEF h
  <2> QED BY <1>2, <2>2, <2>3, <2>4, <2>5 DEF ChallengerOK, h
<1> QED BY <1>1, <1>2 DEF ChallengerOK

LEMMA DrawOK ==
  ASSUME NEW c, ChallengerOK(c), c.mode = "Sampler"
  PROVE  LET d == Draw(c) IN
         /\ ChallengerOK(d.c) /\ d.c.mode = "Sampler"
         /\ c.index = OutLen => /\ d.c.buffer = <<Digest(c.hasher)>>
                                /\ d.c.hasher = <<Digest(c.hasher)>>
                                /\ d.c.index = 1
                                /\ d.out = [of |-> Digest(c.hasher), at |-> 0]
         /\ c.index # OutLen => /\ d.c = [c EXCEPT !.index = @ + 1]
                                /\ d.out = [of |-> c.buffer[1], at |-> c.index]
<1>1. CASE c.index = OutLen
  <2> DEFINE g == Digest(c.hasher)
             f == [mode |-> "Sampler", index |-> 0, buffer |-> <<g>>, hasher |-> <<g>>]
  <2>1. FillBuffer(c) = f
    <3>1. c = [mode |-> "Sampler", index |-> c.index, buffer |-> c.buffer, hasher |-> c.hasher]
      BY DEF ChallengerOK
    <3>2. FillBuffer(c) = [c EXCEPT !.index = 0, !.buffer = <<g>>, !.hasher = <<g>>]
      BY DEF FillBuffer
    <3> HIDE DEF g
    <3> QED BY <3>1, <3>2
  <2>2. Draw(c) = [c |-> [mode |-> "Sampler", index |-> 1, buffer |-> <<g>>, hasher |-> <<g>>],
                   out |-> [of |-> g, at |-> 0]]
    BY <1>1, <2>1 DEF Draw
  <2>3. IsSequence(<<g>>) /\ Len(<<g>>) = 1 /\ <<g>> # <<>>
    BY SingletonIsSequence
  <2>4. 1 <= OutLen
    BY LengthsAssumption
  <2> HIDE DEF g
  <2> QED BY <1>1, <2>2, <2>3, <2>4 DEF ChallengerOK, g
<1>2. CASE c.index # OutLen
  <2>1. Draw(c) = [c |-> [c EXCEPT !.index = @ + 1], out |-> [of |-> c.buffer[1], at |-> c.index]]
    BY <1>2 DEF Draw
  <2>2. c.index + 1 \in Nat /\ c.index + 1 <= OutLen
    BY <1>2, LengthsAssumption DEF ChallengerOK
  <2> QED BY <1>2, <2>1, <2>2 DEF ChallengerOK
<1> QED BY <1>1, <1>2
(* Opening the observer and writing: the stream is extended by what is       *)
(* written, whatever the buffer held.                                        *)
LEMMA WriteOK ==
  ASSUME NEW c, ChallengerOK(c), NEW w, IsSequence(w)
  PROVE  LET d == PutSlice(Observer(c), w) IN
         /\ ChallengerOK(d)
         /\ d.mode = "Observer"
         /\ d.hasher \o d.buffer = (Observer(c).hasher \o Observer(c).buffer) \o w
<1> DEFINE o == Observer(c)
           d == PutSlice(o, w)
<1>1. ChallengerOK(o) /\ o.mode = "Observer"
  BY ObserverOK
<1> HIDE DEF o
<1>4. PICK T : o.buffer \in Seq(T) /\ o.hasher \in Seq(T) /\ w \in Seq(T)
  BY <1>1, CommonSet DEF ChallengerOK
<1>5. o \in [mode : {"Observer"}, index : Nat, buffer : Seq(T), hasher : Seq(T)]
  BY <1>1, <1>4 DEF ChallengerOK
<1> HIDE DEF d
<1>6. /\ d \in [mode : {"Observer"}, index : 0..BlockLen - 1,
                buffer : Seq(T), hasher : Seq(T)]
      /\ d.index = Len(d.buffer)
      /\ d.hasher \o d.buffer = (o.hasher \o o.buffer) \o w
      /\ Len(d.hasher) >= Len(o.hasher)
  BY <1>4, <1>5, PutSliceKeepsStream DEF d
<1>7. d.hasher # <<>>
  <2>1. Len(o.hasher) \in Nat \ {0} /\ Len(<<>>) = 0
    BY <1>1, <1>4, EmptySeq DEF ChallengerOK
  <2>2. Len(d.hasher) \in Nat
    BY <1>6, LenProperties
  <2> QED BY <1>6, <2>1, <2>2
<1>8. d.hasher \in Seq(T) /\ d.buffer \in Seq(T)
  BY <1>6
<1>9. IsSequence(d.hasher) /\ IsSequence(d.buffer)
  BY ONLY <1>8, SeqIsSequence
<1>10. ChallengerOK(d)
  BY <1>6, <1>7, <1>9, LengthsAssumption DEF ChallengerOK
<1> QED BY <1>6, <1>10 DEF o, d
==============================================================================
