-------------------------- MODULE HasherChallenger --------------------------
(* The Fiat-Shamir challenger of crates/transcript/src/fiat_shamir/          *)
(* hasher_challenger.rs, as operators on one record per challenger.          *)
(*                                                                           *)
(* The hash function is the free one: the digest of an input is a term that  *)
(* holds the input, so two digests are equal exactly when their inputs are.  *)
(* What a hasher has absorbed is a sequence of words: an observed byte, the  *)
(* eight bytes of an index, or a whole digest.  A challenger is a record     *)
(*   mode    "Observer" or "Sampler", the variant of the enum                *)
(*   index   bytes of the block buffer filled, or bytes of the digest taken  *)
(*   buffer  the bytes observed and not yet hashed, or <<the digest>>        *)
(*   hasher  the words absorbed since the hasher was last finalised          *)
EXTENDS Shapes

CONSTANTS BlockLen,   \* block size of the hash, in bytes
          OutLen      \* output size of the hash, in bytes

ASSUME LengthsAssumption == BlockLen \in Nat \ {0} /\ OutLen \in Nat \ {0}

Byte(b)       == [byte |-> b]
IndexWord(i)  == [index |-> i]
Digest(input) == [digest |-> input]
ZeroDigest    == [zeroes |-> TRUE]      \* Output::<H>::default()

Default == [mode   |-> "Sampler",
            index  |-> 0,
            buffer |-> <<Digest(<<>>)>>,
            hasher |-> <<Digest(<<>>)>>]

(* HasherObserver::flush *)
Flush(c) == [c EXCEPT !.hasher = @ \o c.buffer, !.buffer = <<>>, !.index = 0]

(* observer(): a sampler first tells the hasher how far it was read. *)
Observer(c) ==
  IF c.mode = "Observer" THEN c
  ELSE [mode   |-> "Observer",
        index  |-> 0,
        buffer |-> <<>>,
        hasher |-> Append(c.hasher, IndexWord(c.index))]

(* sampler(): an observer hashes what it still buffers, and leaves an        *)
(* exhausted digest behind, so that the next read computes one.              *)
Sampler(c) ==
  IF c.mode = "Sampler" THEN c
  ELSE [mode   |-> "Sampler",
        index  |-> OutLen,
        buffer |-> <<ZeroDigest>>,
        hasher |-> Flush(c).hasher]

(* Mutant: the digest is not fed forward. *)
FillBufferNotFedForward(c) == [c EXCEPT !.index = 0, !.buffer = <<Digest(c.hasher)>>]

(* HasherSampler::fill_buffer: finalize, reset, feed the digest forward. *)
FillBuffer(c) ==
  LET d == Digest(c.hasher)
  IN  [c EXCEPT !.index = 0, !.buffer = <<d>>, !.hasher = <<d>>]

(* Mutant: what does not fit in the block buffer is dropped. *)
PutSliceOnce(c, words) ==
  LET room == BlockLen - c.index
      all == c.buffer \o IF Len(words) > room THEN SubSeq(words, 1, room) ELSE words
  IN  IF Len(all) < BlockLen THEN [c EXCEPT !.buffer = all, !.index = Len(all)]
      ELSE [c EXCEPT !.hasher = @ \o all, !.buffer = <<>>, !.index = 0]

(* Mutant: a block is hashed by the write after the one that fills it. *)
PutSliceLate(c, words) ==
  LET all == c.buffer \o words
      cut == ((IF all = <<>> THEN 0 ELSE Len(all) - 1) \div BlockLen) * BlockLen
  IN  [c EXCEPT !.hasher = @ \o SubSeq(all, 1, cut),
                !.buffer = SubSeq(all, cut + 1, Len(all)),
                !.index  = Len(all) - cut]

(* put_slice on an observer: advance_mut hashes the buffer each time the     *)
(* index reaches the block size, so the whole blocks of what was buffered    *)
(* and written are hashed and the rest stays buffered.                       *)
PutSlice(c, words) ==
  LET all == c.buffer \o words
      cut == (Len(all) \div BlockLen) * BlockLen
  IN  [c EXCEPT !.hasher = @ \o SubSeq(all, 1, cut),
                !.buffer = SubSeq(all, cut + 1, Len(all)),
                !.index  = Len(all) - cut]

(* Reading one byte of a sampler: advance refills an exhausted digest first, *)
(* and leaves a digest exhausted by the read for the next one to refill.     *)
Draw(c) ==
  LET f == IF c.index = OutLen THEN FillBuffer(c) ELSE c
  IN  [c |-> [f EXCEPT !.index = @ + 1],
       out |-> [of |-> f.buffer[1], at |-> f.index]]
------------------------------------------------------------------------------
(* The shape of a challenger: an observer's block buffer holds index bytes   *)
(* and is never full between calls, a sampler's index stays in its digest,   *)
(* and a sampler always has one word absorbed at least, so that no digest    *)
(* is ever that of the empty input again (hasher_challenger.rs:93-195).      *)
ChallengerOK(c) ==
  /\ c \in [mode : {"Observer", "Sampler"}, index : Nat,
            buffer : {c.buffer}, hasher : {c.hasher}]
  /\ IsSequence(c.buffer) /\ IsSequence(c.hasher)
  /\ c.hasher # <<>>
  /\ c.mode = "Observer" => c.index < BlockLen /\ Len(c.buffer) = c.index
  /\ c.mode = "Sampler" => c.index <= OutLen /\ Len(c.buffer) = 1
==============================================================================
