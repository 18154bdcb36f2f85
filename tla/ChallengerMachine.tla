-------------------------- MODULE ChallengerMachine --------------------------
(* One HasherChallenger driven through the Challenger trait in every order:  *)
(* opening the observer and writing to it, opening the sampler, reading it.  *)
(* A caller's read of n bytes is n Sample steps.                             *)
EXTENDS HasherChallenger

CONSTANTS Bytes,      \* the byte values written
          MaxWrite,   \* bound: bytes of one put_slice
          MaxCalls    \* bound: calls in a behaviour

ASSUME WritesAssumption == MaxWrite \in Nat /\ MaxCalls \in Nat

VARIABLES ch,         \* the challenger
          wrote,      \* the bytes of the last call, none unless it observed
          last,       \* the challenge byte handed out last
          outs,       \* every challenge byte handed out, for FreshChallenges
          calls       \* calls made, bounded by MaxCalls

vars == <<ch, wrote, last, outs, calls>>

Slices == UNION {[1..n -> Bytes] : n \in 0..MaxWrite}
Words(bs) == [i \in 1..Len(bs) |-> Byte(bs[i])]

Init == /\ ch = Default
        /\ wrote = <<>>
        /\ last = ZeroDigest
        /\ outs = <<>>
        /\ calls = 0

Called == calls < MaxCalls /\ calls' = calls + 1

(* challenger.observer().put_slice(bs); bs may be empty, since the call of   *)
(* observer() switches the variant whatever is written after it.             *)
Observe(bs) ==
  /\ Called
  /\ ch' = PutSlice(Observer(ch), Words(bs))
  /\ wrote' = bs
  /\ UNCHANGED <<last, outs>>

(* challenger.sampler(), before anything is read of it. *)
OpenSampler ==
  /\ Called
  /\ ch.mode = "Observer"
  /\ ch' = Sampler(ch)
  /\ wrote' = <<>>
  /\ UNCHANGED <<last, outs>>

(* challenger.sampler(), and one byte read of it. *)
Sample ==
  LET d == Draw(Sampler(ch)) IN
  /\ Called
  /\ ch' = d.c
  /\ wrote' = <<>>
  /\ last' = d.out
  /\ outs' = Append(outs, d.out)

Next == \/ \E bs \in Slices : Observe(bs)
        \/ OpenSampler
        \/ Sample

Spec == Init /\ [][Next]_vars
------------------------------------------------------------------------------
(* The challenger keeps its shape, and so do the records of its calls. *)
TypeOK == ChallengerOK(ch) /\ wrote \in Slices /\ calls \in 0..MaxCalls /\ IsSequence(outs)

(* No byte of challenge is ever handed out twice: fill_buffer feeds each     *)
(* digest forward and an observation changes what the next digest is of      *)
(* (hasher_challenger.rs:97-121, 159-174).                                   *)
FreshChallenges == \A i, j \in 1..Len(outs) : outs[i] = outs[j] => i = j

(* The block buffer is invisible: a challenger is the unbuffered sponge that *)
(* is written the same bytes and read the same challenges, and whose stream  *)
(* is what was hashed followed by what is still buffered.  So how writes are *)
(* cut into calls and blocks never shows in a challenge                      *)
(* (hasher_challenger.rs:141-145, 185-194).                                  *)
Sponge == INSTANCE DuplexSponge WITH
            absorbing <- ch.mode = "Observer",
            stream    <- IF ch.mode = "Observer" THEN ch.hasher \o ch.buffer
                         ELSE ch.hasher,
            block     <- IF ch.mode = "Observer" THEN ZeroDigest ELSE ch.buffer[1],
            taken     <- IF ch.mode = "Observer" THEN 0 ELSE ch.index

(* Unbuffered: every behaviour of the challenger is one of the sponge. *)
Unbuffered == Sponge!Spec
==============================================================================
