---------------------------- MODULE DuplexSponge ----------------------------
(* What a challenger promises, without a block buffer: everything observed   *)
(* joins one stream, a challenge byte is a byte of the digest of the stream  *)
(* as it stood when the squeeze began, each further digest is the digest of  *)
(* the one before it, and an observation after a squeeze is preceded by the  *)
(* number of bytes taken of the last digest.                                 *)
EXTENDS Naturals, Sequences

CONSTANTS OutLen, Bytes, MaxWrite

VARIABLES absorbing,  \* whether the last call observed
          stream,     \* the words the next digest is of
          block,      \* the digest being squeezed
          taken,      \* bytes of it already handed out
          wrote,      \* the bytes of the last call, none unless it observed
          last        \* the challenge byte handed out last

vars == <<absorbing, stream, block, taken, wrote, last>>

Word(b)   == [byte |-> b]
Hash(s)   == [digest |-> s]
Nothing   == [zeroes |-> TRUE]

Init == /\ absorbing = FALSE
        /\ stream = <<Hash(<<>>)>>
        /\ block = Hash(<<>>)
        /\ taken = 0
        /\ wrote = <<>>
        /\ last = Nothing

Opened == IF absorbing THEN stream ELSE Append(stream, [index |-> taken])

Absorb(bs) ==
  /\ absorbing' = TRUE
  /\ stream' = Opened \o [i \in 1..Len(bs) |-> Word(bs[i])]
  /\ block' = Nothing
  /\ taken' = 0
  /\ wrote' = bs
  /\ UNCHANGED last

StartSqueeze ==
  /\ absorbing
  /\ absorbing' = FALSE
  /\ block' = Nothing
  /\ taken' = OutLen
  /\ wrote' = <<>>
  /\ UNCHANGED <<stream, last>>

Squeeze ==
  /\ absorbing' = FALSE
  /\ wrote' = <<>>
  /\ IF absorbing \/ taken = OutLen
     THEN /\ block' = Hash(stream)
          /\ stream' = <<block'>>
          /\ taken' = 1
          /\ last' = [of |-> block', at |-> 0]
     ELSE /\ taken' = taken + 1
          /\ last' = [of |-> block, at |-> taken]
          /\ UNCHANGED <<stream, block>>

Next == \/ \E n \in 0..MaxWrite : \E bs \in [1..n -> Bytes] : Absorb(bs)
        \/ StartSqueeze
        \/ Squeeze

Spec == Init /\ [][Next]_vars
=============================================================================
